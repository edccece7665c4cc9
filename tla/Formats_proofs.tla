---------------------------- MODULE Formats_proofs ----------------------------
(***************************************************************************)
(* What TLAPS proves of the DEX references and the APK signatures, and,    *)
(* with what Images_proofs says of the images, of Formats: the properties  *)
(* that are checked hold for any bounds, names, keys, archives and         *)
(* classes.                                                                *)
(***************************************************************************)
EXTENDS Images_proofs

-----------------------------------------------------------------------------
(* The DEX references *)

LEMMA ArchiveList ==
  ASSUME Dex!DexAssumption
  PROVE  /\ Len(Providers) \in Nat \ {0} /\ DOMAIN Providers = 1 .. Len(Providers)
         /\ Len(Packages) \in Nat \ {0} /\ DOMAIN Packages = 1 .. Len(Packages)
         /\ Len(Dex!Archives) = Len(Providers) + Len(Packages)
         /\ \A v \in 1 .. Len(Providers) : Dex!Archives[v] = Providers[v]
         /\ \A p \in 1 .. Len(Packages) : Dex!Archives[Len(Providers) + p] = Packages[p]
         /\ \A v \in 1 .. Len(Providers) : Providers[v] \in Dex!Range(Providers)
         /\ \A p \in 1 .. Len(Packages) : Packages[p] \in Dex!Range(Packages)
         /\ \A v, w \in 1 .. Len(Providers) : Providers[v] = Providers[w] => v = w
         /\ \A p, q \in 1 .. Len(Packages) : Packages[p] = Packages[q] => p = q
<1>. DEFINE S == Dex!Range(Providers) \cup Dex!Range(Packages)
<1>1. /\ Len(Providers) \in Nat \ {0} /\ DOMAIN Providers = 1 .. Len(Providers)
      /\ Len(Packages) \in Nat \ {0} /\ DOMAIN Packages = 1 .. Len(Packages)
      /\ Providers \in Seq(S) /\ Packages \in Seq(S)
  BY DEF Dex!DexAssumption
<1>2. /\ \A v \in 1 .. Len(Providers) : Providers[v] \in Dex!Range(Providers)
      /\ \A p \in 1 .. Len(Packages) : Packages[p] \in Dex!Range(Packages)
  BY <1>1 DEF Dex!Range
<1>. HIDE DEF S
<1>3. /\ Len(Dex!Archives) = Len(Providers) + Len(Packages)
      /\ DOMAIN Dex!Archives = 1 .. Len(Dex!Archives)
      /\ \A v \in 1 .. Len(Providers) : Dex!Archives[v] = Providers[v]
      /\ \A p \in 1 .. Len(Packages) : Dex!Archives[Len(Providers) + p] = Packages[p]
  BY <1>1 DEF Dex!Archives
<1>4. /\ \A v, w \in 1 .. Len(Providers) : Providers[v] = Providers[w] => v = w
      /\ \A p, q \in 1 .. Len(Packages) : Packages[p] = Packages[q] => p = q
  BY <1>1 DEF Dex!DexAssumption, Dex!IsInjective
<1>. QED  BY <1>1, <1>2, <1>3, <1>4

Contents == [types : SUBSET Dex!Descriptor, definitions : SUBSET Dex!Descriptor]

\* Between two members: what is known of the archive is what its members hold.
InventoryInv ==
  /\ contents \in Contents
  /\ members \in 0 .. MaxMembers
  /\ \A d \in contents.definitions : d.base # int
  /\ defined = Dex!ObjectDescriptors(contents.definitions)
  /\ referenced = Dex!ObjectDescriptors(contents.types)

\* Between two archives: the providers of a class are those among the archives
\* read, and what is reported of a package was the last word when it was read,
\* for no provider comes after it.
ReportInv ==
  /\ held \in Seq(Contents)
  /\ pc = "done" => reading = Len(Dex!Archives) /\ Len(held) = Len(Dex!Archives)
  /\ pc # "done" => Len(held) = reading - 1
  /\ \A c \in Classes, v \in 1 .. Len(Providers) :
       Providers[v] \in class_providers[c] <=> v <= Len(held) /\ Dex!Defines(v, c)
  /\ \A p \in 1 .. Len(Packages), c \in Classes :
       Len(Providers) + p <= Len(held) =>
         (c \in unresolved[Packages[p]] <=>
            /\ Dex!Needs(Len(Providers) + p, c) /\ ~Dex!Defines(Len(Providers) + p, c)
            /\ \A v \in 1 .. Len(Providers) : ~Dex!Defines(v, c))

DexTypes ==
  /\ reading \in 1 .. Len(Dex!Archives) /\ pc \in {"read", "refused", "done"}
  /\ class_providers \in [Classes -> SUBSET Dex!Range(Providers)]
  /\ unresolved \in [Dex!Range(Packages) -> SUBSET Classes]

DexInv == DexTypes /\ InventoryInv /\ ReportInv

LEMMA DexInitial == ASSUME Dex!DexAssumption, Dex!Init PROVE DexInv
<1>. USE DEF Dex!Init
<1>1. 1 \in 1 .. Len(Dex!Archives) /\ 0 \in 0 .. MaxMembers
  BY ArchiveList DEF Dex!DexAssumption
<1>2. DexTypes
  BY <1>1 DEF DexTypes
<1>3. InventoryInv
  BY <1>1 DEF InventoryInv, Contents, Dex!Nothing, Dex!ObjectDescriptors
<1>4. ReportInv
  BY <1>1, ArchiveList DEF ReportInv
<1>. QED  BY <1>2, <1>3, <1>4 DEF DexInv

LEMMA MemberStep ==
  ASSUME Dex!DexAssumption, DexInv, Dex!ReadMember PROVE DexInv'
<1>1. DexTypes' /\ ReportInv'
  BY DEF Dex!ReadMember, DexInv, DexTypes, ReportInv, Dex!Needs, Dex!Defines
<1>2. PICK m \in Dex!Member :
        LET classes == Dex!ObjectDescriptors(Dex!Range(m.definitions))
        IN  IF Dex!Accepted(m) /\ defined \cap classes = {}
            THEN /\ members' = members + 1
                 /\ contents' = [types |-> contents.types \cup m.types,
                                 definitions |-> contents.definitions \cup Dex!Range(m.definitions)]
                 /\ defined' = defined \cup classes
                 /\ referenced' = referenced \cup Dex!ObjectDescriptors(m.types)
            ELSE UNCHANGED <<members, contents, defined, referenced>>
  BY DEF Dex!ReadMember
<1>3. InventoryInv'
  <2>1. CASE UNCHANGED <<members, contents, defined, referenced>>
    BY <2>1 DEF DexInv, InventoryInv
  <2>2. CASE ~UNCHANGED <<members, contents, defined, referenced>>
    <3>1. m.types \in SUBSET Dex!Descriptor /\ Dex!Range(m.definitions) \in SUBSET m.types
      BY DEF Dex!Member
    <3>2. \A d \in Dex!Range(m.definitions) : d.base # int
      BY <1>2, <2>2 DEF Dex!Accepted, Dex!Range
    <3>. DEFINE D == Dex!Range(m.definitions)
    <3>3. /\ members' = members + 1
          /\ contents' = [types |-> contents.types \cup m.types,
                          definitions |-> contents.definitions \cup D]
          /\ defined' = defined \cup Dex!ObjectDescriptors(D)
          /\ referenced' = referenced \cup Dex!ObjectDescriptors(m.types)
      BY <1>2, <2>2
    <3>. HIDE DEF D
    <3>4. members + 1 \in 0 .. MaxMembers
      BY DEF Dex!ReadMember, DexInv, InventoryInv, Dex!DexAssumption
    <3>5. contents' \in Contents
      BY <3>1, <3>3 DEF D, DexInv, InventoryInv, Contents
    <3>6. /\ defined' = Dex!ObjectDescriptors(contents.definitions \cup D)
          /\ referenced' = Dex!ObjectDescriptors(contents.types \cup m.types)
      BY <3>3 DEF DexInv, InventoryInv, Dex!ObjectDescriptors
    <3>7. /\ contents'.types = contents.types \cup m.types
          /\ contents'.definitions = contents.definitions \cup D
      BY <3>3
    <3>. QED  BY <3>2, <3>3, <3>4, <3>5, <3>6, <3>7 DEF D, DexInv, InventoryInv
  <2>. QED  BY <2>1, <2>2
<1>. QED  BY <1>1, <1>3 DEF DexInv

\* What the end of an archive does to what is known of archives.
LEMMA ArchiveEnds ==
  ASSUME Dex!DexAssumption, DexInv, Dex!NextArchive
  PROVE  /\ reading \in 1 .. Len(Dex!Archives) /\ pc = "read" /\ Len(held) = reading - 1
         /\ reading' \in 1 .. Len(Dex!Archives) /\ pc' \in {"read", "done"}
         /\ InventoryInv'
         /\ held' \in Seq(Contents) /\ Len(held') = reading
         /\ pc' = "done" => reading' = Len(Dex!Archives) /\ reading = Len(Dex!Archives)
         /\ pc' # "done" => reading' = reading + 1
         /\ \A a \in 1 .. Len(held), c \in Classes :
              (Dex!Needs(a, c)' <=> Dex!Needs(a, c)) /\ (Dex!Defines(a, c)' <=> Dex!Defines(a, c))
         /\ \A a \in Nat, c \in Classes : a = reading =>
              (Dex!Needs(a, c)' <=> c \in referenced) /\ (Dex!Defines(a, c)' <=> c \in defined)
<1>1. /\ reading \in 1 .. Len(Dex!Archives) /\ pc = "read" /\ Len(held) = reading - 1
      /\ Len(Dex!Archives) \in Nat /\ held \in Seq(Contents) /\ contents \in Contents
  BY ArchiveList DEF Dex!NextArchive, DexInv, DexTypes, ReportInv, InventoryInv
<1>2. /\ held' = Append(held, contents) /\ held' \in Seq(Contents) /\ Len(held') = reading
      /\ \A a \in 1 .. Len(held) : held'[a] = held[a]
      /\ held'[reading] = contents
  BY <1>1 DEF Dex!NextArchive
<1>3. InventoryInv'
  BY DEF Dex!NextArchive, DexInv, InventoryInv, Contents, Dex!Nothing, Dex!ObjectDescriptors,
         Dex!DexAssumption
<1>4. /\ reading' \in 1 .. Len(Dex!Archives) /\ pc' \in {"read", "done"}
      /\ pc' = "done" => reading' = Len(Dex!Archives) /\ reading = Len(Dex!Archives)
      /\ pc' # "done" => reading' = reading + 1
  BY <1>1 DEF Dex!NextArchive
<1>5. \A a \in 1 .. Len(held), c \in Classes :
        (Dex!Needs(a, c)' <=> Dex!Needs(a, c)) /\ (Dex!Defines(a, c)' <=> Dex!Defines(a, c))
  BY <1>2 DEF Dex!Needs, Dex!Defines
<1>6. \A a \in Nat, c \in Classes : a = reading =>
         /\ Dex!Needs(a, c)' <=> \E d \in contents.types : d.base = c
         /\ Dex!Defines(a, c)' <=> \E d \in contents.definitions : d.base = c
  BY <1>2 DEF Dex!Needs, Dex!Defines
<1>7. /\ \A c \in Classes : (\E d \in contents.types : d.base = c) <=> c \in referenced
      /\ \A c \in Classes : (\E d \in contents.definitions : d.base = c) <=> c \in defined
  BY DEF DexInv, InventoryInv, Dex!ObjectDescriptors, Dex!DexAssumption
<1>. QED  BY <1>1, <1>2, <1>3, <1>4, <1>5, <1>6, <1>7

LEMMA ProviderStep ==
  ASSUME Dex!DexAssumption, DexInv, Dex!ProviderEnds PROVE DexInv'
<1>1. /\ Dex!NextArchive /\ reading \in 1 .. Len(Providers) /\ unresolved' = unresolved
      /\ class_providers' = [c \in Classes |->
            IF c \in defined THEN class_providers[c] \cup {Providers[reading]}
                              ELSE class_providers[c]]
  <2>1. reading \in 1 .. Len(Providers) /\ Dex!Archive = Providers[reading]
    BY ArchiveList DEF Dex!ProviderEnds, Dex!Archive, DexInv, DexTypes
  <2>. QED  BY <2>1 DEF Dex!ProviderEnds
<1>2. pc' # "done" /\ reading' = reading + 1 /\ Len(held) = reading - 1 /\ Len(held') = reading
  BY <1>1, ArchiveEnds, ArchiveList
<1>3. DexTypes'
  <2>1. Providers[reading] \in Dex!Range(Providers)
    BY <1>1, ArchiveList
  <2>. QED  BY <1>1, <2>1, ArchiveEnds DEF DexInv, DexTypes
<1>4. ASSUME NEW c \in Classes, NEW v \in 1 .. Len(Providers)
      PROVE  (Providers[v] \in class_providers[c])'
               <=> (v <= Len(held) /\ Dex!Defines(v, c))'
  <2>1. Providers[v] \in class_providers'[c] <=>
          Providers[v] \in class_providers[c] \/ (c \in defined /\ v = reading)
    <3>1. Providers[v] = Providers[reading] <=> v = reading
      BY <1>1, ArchiveList
    <3>. QED  BY <1>1, <3>1
  <2>2. Providers[v] \in class_providers[c] <=> v <= Len(held) /\ Dex!Defines(v, c)
    BY DEF DexInv, ReportInv
  <2>3. v <= Len(held) => (Dex!Defines(v, c)' <=> Dex!Defines(v, c))
    BY <1>1, <1>2, ArchiveEnds
  <2>4. v = reading => (Dex!Defines(v, c)' <=> c \in defined)
    BY <1>1, ArchiveEnds
  <2>. QED  BY <1>1, <1>2, <2>1, <2>2, <2>3, <2>4
<1>5. \A p \in 1 .. Len(Packages) : ~(Len(Providers) + p <= Len(held'))
  BY <1>1, <1>2, ArchiveList
<1>6. ReportInv'
  <2>1. \A p \in 1 .. Len(Packages), c \in Classes : (Len(Providers) + p <= Len(held) =>
         (c \in unresolved[Packages[p]] <=>
            /\ Dex!Needs(Len(Providers) + p, c) /\ ~Dex!Defines(Len(Providers) + p, c)
            /\ \A v \in 1 .. Len(Providers) : ~Dex!Defines(v, c)))'
    BY <1>5
  <2>2. held' \in Seq(Contents) /\ Len(held') = reading' - 1
    BY <1>1, <1>2, ArchiveEnds
  <2>. QED  BY <1>2, <1>4, <2>1, <2>2 DEF ReportInv
<1>. QED  BY <1>1, <1>3, <1>6, ArchiveEnds DEF DexInv

LEMMA PackageStep ==
  ASSUME Dex!DexAssumption, DexInv, Dex!PackageEnds PROVE DexInv'
<1>. DEFINE own == reading - Len(Providers)
<1>1. /\ Dex!NextArchive /\ own \in 1 .. Len(Packages) /\ Dex!Archive = Packages[own]
      /\ reading = Len(Providers) + own /\ class_providers' = class_providers
      /\ Packages[own] \in Dex!Range(Packages)
  <2>1. own \in 1 .. Len(Packages) /\ reading = Len(Providers) + own
    BY ArchiveList DEF Dex!PackageEnds, DexInv, DexTypes
  <2>. QED  BY <2>1, ArchiveList DEF Dex!PackageEnds, Dex!Archive
<1>2. unresolved' = [unresolved EXCEPT ![Packages[own]] =
                       {c \in (referenced \ defined) \cap Classes : class_providers[c] = {}}]
  BY <1>1 DEF Dex!PackageEnds
<1>. HIDE DEF own
<1>3. Len(held) = reading - 1 /\ Len(held') = reading /\ Len(Providers) <= Len(held)
      /\ Len(Providers) \in Nat
  BY <1>1, ArchiveEnds, ArchiveList
<1>4. DexTypes'
  BY <1>1, <1>2, ArchiveEnds DEF DexInv, DexTypes
<1>5. ASSUME NEW c \in Classes
      PROVE  \A v \in 1 .. Len(Providers) : Dex!Defines(v, c)' <=> Dex!Defines(v, c)
  BY <1>1, <1>3, ArchiveEnds
<1>6. \A c \in Classes, v \in 1 .. Len(Providers) :
         (Providers[v] \in class_providers[c])' <=> (v <= Len(held) /\ Dex!Defines(v, c))'
  BY <1>1, <1>3, <1>5 DEF DexInv, ReportInv
<1>7. ASSUME NEW c \in Classes
      PROVE  class_providers[c] = {} <=> \A v \in 1 .. Len(Providers) : ~Dex!Defines(v, c)
  <2>1. class_providers[c] \subseteq Dex!Range(Providers)
    BY DEF DexInv, DexTypes
  <2>2. \A x \in Dex!Range(Providers) : \E v \in 1 .. Len(Providers) : x = Providers[v]
    BY ArchiveList DEF Dex!Range
  <2>3. \A v \in 1 .. Len(Providers) : Providers[v] \in class_providers[c] <=> Dex!Defines(v, c)
    BY <1>3 DEF DexInv, ReportInv
  <2>. QED  BY <2>1, <2>2, <2>3
<1>8. ASSUME NEW p \in 1 .. Len(Packages), NEW c \in Classes, Len(Providers) + p <= Len(held')
      PROVE  (c \in unresolved[Packages[p]])' <=>
               (/\ Dex!Needs(Len(Providers) + p, c) /\ ~Dex!Defines(Len(Providers) + p, c)
                /\ \A v \in 1 .. Len(Providers) : ~Dex!Defines(v, c))'
  <2>1. unresolved \in [Dex!Range(Packages) -> SUBSET Classes]
    BY DEF DexInv, DexTypes
  <2>2. CASE p = own
    <3>1. c \in unresolved'[Packages[p]] <=>
            c \in referenced /\ c \notin defined /\ class_providers[c] = {}
      BY <1>1, <1>2, <2>1, <2>2
    <3>2. /\ Dex!Needs(Len(Providers) + p, c)' <=> c \in referenced
          /\ Dex!Defines(Len(Providers) + p, c)' <=> c \in defined
      BY <1>1, <2>2, ArchiveEnds
    <3>. QED  BY <1>5, <1>7, <3>1, <3>2
  <2>3. CASE p # own
    <3>1. Packages[p] # Packages[own] /\ Packages[p] \in Dex!Range(Packages)
      BY <1>1, <2>3, ArchiveList
    <3>2. unresolved'[Packages[p]] = unresolved[Packages[p]]
      BY <1>2, <2>1, <3>1
    <3>3. Len(Providers) + p <= Len(held) /\ Len(Providers) + p \in 1 .. Len(held)
      BY <1>1, <1>3, <1>8, <2>3
    <3>4. /\ Dex!Needs(Len(Providers) + p, c)' <=> Dex!Needs(Len(Providers) + p, c)
          /\ Dex!Defines(Len(Providers) + p, c)' <=> Dex!Defines(Len(Providers) + p, c)
      BY <1>1, <3>3, ArchiveEnds
    <3>5. c \in unresolved[Packages[p]] <=>
            /\ Dex!Needs(Len(Providers) + p, c) /\ ~Dex!Defines(Len(Providers) + p, c)
            /\ \A v \in 1 .. Len(Providers) : ~Dex!Defines(v, c)
      BY <3>3 DEF DexInv, ReportInv
    <3>. QED  BY <1>5, <3>2, <3>4, <3>5
  <2>. QED  BY <2>2, <2>3
<1>9. ReportInv'
  BY <1>1, <1>6, <1>8, ArchiveEnds DEF ReportInv
<1>. QED  BY <1>1, <1>4, <1>9, ArchiveEnds DEF DexInv

LEMMA DexStep == ASSUME Dex!DexAssumption, DexInv, Dex!Next PROVE DexInv'
  BY MemberStep, ProviderStep, PackageStep DEF Dex!Next

LEMMA DexProperties ==
  ASSUME Dex!DexAssumption, DexInv PROVE Dex!TypeOK /\ Dex!ResolutionIsExact
<1>1. Dex!TypeOK
  <2>1. defined \subseteq Classes /\ referenced \subseteq Classes
    BY DEF DexInv, InventoryInv, Contents, Dex!ObjectDescriptors, Dex!Descriptor, Dex!DexAssumption
  <2>. QED  BY <2>1, ArchiveList DEF DexInv, DexTypes, InventoryInv, ReportInv, Dex!TypeOK
<1>2. Dex!ResolutionIsExact
  <2>. SUFFICES ASSUME pc = "done", NEW p \in DOMAIN Packages, NEW c \in Classes
               PROVE  c \in unresolved[Packages[p]] <=>
                        /\ Dex!Needs(Len(Providers) + p, c) /\ ~Dex!Defines(Len(Providers) + p, c)
                        /\ \A v \in DOMAIN Providers : ~Dex!Defines(v, c)
    BY DEF Dex!ResolutionIsExact
  <2>1. /\ p \in 1 .. Len(Packages) /\ DOMAIN Providers = 1 .. Len(Providers)
        /\ Len(Providers) + p <= Len(held)
    BY ArchiveList DEF DexInv, ReportInv
  <2>. QED  BY <2>1 DEF DexInv, ReportInv
<1>. QED  BY <1>1, <1>2

-----------------------------------------------------------------------------
(* The APK signatures: files in parts *)

LEMMA ConcatParts ==
  ASSUME NEW A, NEW x \in Seq(A), NEW y \in Seq(A)
  PROVE  /\ x \o y \in Seq(A) /\ Len(x \o y) = Len(x) + Len(y)
         /\ Len(x) \in Nat /\ Len(y) \in Nat
         /\ \A i \in 1 .. Len(x) : (x \o y)[i] = x[i]
         /\ \A i \in 1 .. Len(y) : (x \o y)[Len(x) + i] = y[i]
<1>1. /\ x \o y \in Seq(A) /\ Len(x \o y) = Len(x) + Len(y)
      /\ \A i \in 1 .. Len(x) + Len(y) : (x \o y)[i] = IF i <= Len(x) THEN x[i] ELSE y[i - Len(x)]
  BY ConcatProperties
<1>2. PICK m \in Nat, n \in Nat : m = Len(x) /\ n = Len(y)
  BY LenProperties
<1>3. /\ \A i \in 1 .. m : i \in 1 .. m + n /\ i <= m
      /\ \A i \in 1 .. n : m + i \in 1 .. m + n /\ ~(m + i <= m) /\ (m + i) - m = i
  OBVIOUS
<1>. QED  BY <1>1, <1>2, <1>3

InFour(w, x, y, z, t) == w = x \o y \o z \o t

\* After its first k units, x goes on with t.
Holds(x, k, t) == \A i \in 1 .. Len(t) : x[k + i] = t[i]

\* p is a sequence of n members of A.
Measured(p, A, n) == p \in Seq(A) /\ n \in Nat /\ n = Len(p)

LEMMA FourParts ==
  ASSUME NEW A, NEW p, NEW b, NEW c, NEW e, NEW P, NEW B, NEW C, NEW E,
         Measured(p, A, P), Measured(b, A, B), Measured(c, A, C), Measured(e, A, E),
         NEW x, InFour(x, p, b, c, e)
  PROVE  /\ x \in Seq(A) /\ Len(x) = P + B + C + E
         /\ Holds(x, 0, p) /\ Holds(x, P, b) /\ Holds(x, P + B, c) /\ Holds(x, P + B + C, e)
<1>. /\ p \in Seq(A) /\ b \in Seq(A) /\ c \in Seq(A) /\ e \in Seq(A)
     /\ P \in Nat /\ B \in Nat /\ C \in Nat /\ E \in Nat
     /\ P = Len(p) /\ B = Len(b) /\ C = Len(c) /\ E = Len(e)
  BY DEF Measured
<1>1. PICK pb \in Seq(A), pbc \in Seq(A) : /\ pb = p \o b /\ pbc = pb \o c /\ x = pbc \o e
  BY ConcatParts DEF InFour
<1>2. /\ Len(pb) = P + B
      /\ \A i \in 1 .. P : pb[i] = p[i]
      /\ \A i \in 1 .. B : pb[P + i] = b[i]
  BY <1>1, ConcatParts
<1>3. /\ Len(pbc) = P + B + C
      /\ \A i \in 1 .. P + B : pbc[i] = pb[i]
      /\ \A i \in 1 .. C : pbc[P + B + i] = c[i]
  BY <1>1, <1>2, ConcatParts
<1>4. /\ x \in Seq(A) /\ Len(x) = P + B + C + E
      /\ \A i \in 1 .. P + B + C : x[i] = pbc[i]
      /\ \A i \in 1 .. E : x[P + B + C + i] = e[i]
  BY <1>1, <1>3, ConcatParts
<1>5. /\ \A i \in 1 .. P : i \in 1 .. P + B /\ i \in 1 .. P + B + C
      /\ \A i \in 1 .. B : P + i \in 1 .. P + B /\ P + i \in 1 .. P + B + C
      /\ \A i \in 1 .. C : P + B + i \in 1 .. P + B + C
  OBVIOUS
<1>6. /\ \A i \in 1 .. P : x[i] = p[i]
      /\ \A i \in 1 .. B : x[P + i] = b[i]
      /\ \A i \in 1 .. C : x[P + B + i] = c[i]
  BY <1>2, <1>3, <1>4, <1>5, ZenonT(30)
<1>7. \A i \in 1 .. P : 0 + i = i
  OBVIOUS
<1>. QED  BY <1>4, <1>6, <1>7 DEF Holds

\* w in two parts.
InParts(w, x, y) == w = x \o y

LEMMA PartsOf ==
  ASSUME NEW A, NEW x \in Seq(A), NEW y \in Seq(A), NEW w, InParts(w, x, y)
  PROVE  /\ Len(w) = Len(x) + Len(y) /\ Len(x) \in Nat /\ Len(y) \in Nat
         /\ \A i \in 1 .. Len(x) : w[i] = x[i]
         /\ \A i \in 1 .. Len(y) : w[Len(x) + i] = y[i]
<1>1. w = x \o y
  BY DEF InParts
<1>. QED  BY <1>1, ConcatParts

\* Of two ways to cut a file, those with parts of one length are the same.
LEMMA SameParts ==
  ASSUME NEW A, NEW x \in Seq(A), NEW y \in Seq(A), NEW u \in Seq(A), NEW v \in Seq(A),
         NEW w, InParts(w, x, y), InParts(w, u, v), Len(x) = Len(u)
  PROVE  x = u /\ y = v
<1>1. /\ Len(w) = Len(x) + Len(y) /\ Len(x) \in Nat /\ Len(y) \in Nat
      /\ \A i \in 1 .. Len(x) : w[i] = x[i]
      /\ \A i \in 1 .. Len(y) : w[Len(x) + i] = y[i]
  BY PartsOf
<1>2. /\ Len(w) = Len(u) + Len(v) /\ Len(u) \in Nat /\ Len(v) \in Nat
      /\ \A i \in 1 .. Len(u) : w[i] = u[i]
      /\ \A i \in 1 .. Len(v) : w[Len(u) + i] = v[i]
  BY PartsOf
<1>3. Len(y) = Len(v)
  BY <1>1, <1>2
<1>4. \A i \in 1 .. Len(x) : x[i] = u[i]
  BY <1>1, <1>2
<1>5. \A i \in 1 .. Len(y) : y[i] = v[i]
  BY <1>1, <1>2, <1>3
<1>. QED  BY <1>3, <1>4, <1>5, SeqEqual

\* A tail that starts with the last end record.
EndsFile(e) == /\ Len(e) > 0 /\ e[1].kind = "eocd"
               /\ \A i \in 2 .. Len(e) : e[i].kind # "eocd"

LEMMA SameTail ==
  ASSUME NEW A, NEW x \in Seq(A), NEW e \in Seq(A), NEW y \in Seq(A), NEW f \in Seq(A),
         EndsFile(e), EndsFile(f), NEW w, InParts(w, x, e), InParts(w, y, f)
  PROVE  x = y /\ e = f
<1>1. /\ Len(w) = Len(x) + Len(e) /\ Len(x) \in Nat /\ Len(e) \in Nat
      /\ \A i \in 1 .. Len(e) : w[Len(x) + i] = e[i]
  BY PartsOf
<1>2. /\ Len(w) = Len(y) + Len(f) /\ Len(y) \in Nat /\ Len(f) \in Nat
      /\ \A i \in 1 .. Len(f) : w[Len(y) + i] = f[i]
  BY PartsOf
<1>. DEFINE m == Len(x)
            n == Len(y)
            k == Len(e)
            l == Len(f)
<1>3. /\ m \in Nat /\ n \in Nat /\ k \in Nat /\ l \in Nat /\ m + k = n + l
      /\ \A i \in 1 .. k : w[m + i] = e[i]
      /\ \A i \in 1 .. l : w[n + i] = f[i]
  BY <1>1, <1>2
<1>4. /\ k > 0 /\ e[1].kind = "eocd" /\ \A i \in 2 .. k : e[i].kind # "eocd"
      /\ l > 0 /\ f[1].kind = "eocd" /\ \A i \in 2 .. l : f[i].kind # "eocd"
  BY DEF EndsFile
<1>. HIDE DEF m, n, k, l
<1>5. w[m + 1].kind = "eocd" /\ w[n + 1].kind = "eocd"
  <2>1. 1 \in 1 .. k /\ 1 \in 1 .. l
    BY <1>3, <1>4
  <2>. QED  BY <1>3, <1>4, <2>1
<1>6. m = n
  <2>1. ASSUME m < n PROVE FALSE
    <3>1. PICK i \in 2 .. k : m + i = n + 1
      <4>1. n + 1 - m \in 2 .. k /\ m + (n + 1 - m) = n + 1
        BY <1>3, <1>4, <2>1
      <4>. QED  BY <4>1
    <3>2. i \in 1 .. k
      OBVIOUS
    <3>3. w[n + 1] = e[i]
      BY <1>3, <3>1, <3>2
    <3>. QED  BY <1>4, <1>5, <3>1, <3>3
  <2>2. ASSUME n < m PROVE FALSE
    <3>1. PICK i \in 2 .. l : n + i = m + 1
      <4>1. m + 1 - n \in 2 .. l /\ n + (m + 1 - n) = m + 1
        BY <1>3, <1>4, <2>2
      <4>. QED  BY <4>1
    <3>2. i \in 1 .. l
      OBVIOUS
    <3>3. w[m + 1] = f[i]
      BY <1>3, <3>1, <3>2
    <3>. QED  BY <1>4, <1>5, <3>1, <3>3
  <2>. QED  BY <1>3, <2>1, <2>2
<1>. QED  BY <1>6, SameParts DEF m, n

\* Of the module, and of the library the lemmas are about.
LEMMA ApkLibrary ==
  /\ \A q : Apk!FlattenSeq(q) = FlattenSeq(q)
  /\ \A s, I : Apk!UnitsAt(s, I) = Picked(s, I)
  /\ \A s : Apk!Chunks(s) = Cut(s, Chunk)
<1>1. \A q : Apk!FlattenSeq(q) = FlattenSeq(q)
  BY DEF Apk!FlattenSeq, FlattenSeq
<1>2. \A s, I : Apk!UnitsAt(s, I) = Picked(s, I)
  BY <1>1 DEF Apk!UnitsAt, Picked
<1>3. \A s : Apk!Chunks(s) = Cut(s, Chunk)
  BY DEF Apk!Chunks, Cut
<1>. QED  BY <1>1, <1>2, <1>3

Ends == [kind : {"eocd"}, entries : Nat, size : Nat, offset : Nat, comment : Nat]

\* What is counted in a unit is counted in numbers.
UnitTyped(u) ==
  /\ u.kind = "eocd" => u \in Ends
  /\ u.kind \in {"size", "magic"} => u.size \in Nat

\* The units of a, from a set A.
Typed(a, A) == a \in Seq(A) /\ \A i \in 1 .. Len(a) : UnitTyped(a[i])

\* n is the place of the end record of a.
EndAt(a, n) ==
  /\ n \in 1 .. Len(a) /\ a[n].kind = "eocd"
  /\ \A j \in n + 1 .. Len(a) : a[j].kind # "eocd"
  /\ n + a[n].comment = Len(a) /\ a[n].offset + a[n].size = n - 1

EndsOf(a) == {i \in DOMAIN a : a[i].kind = "eocd"}
LastOf(ends) == CHOOSE i \in ends : \A j \in ends : j <= i

LEMMA LastEnd ==
  ASSUME NEW A, NEW a, Typed(a, A), EndsOf(a) # {}
  PROVE  /\ LastOf(EndsOf(a)) \in EndsOf(a)
         /\ \A j \in EndsOf(a) : j <= LastOf(EndsOf(a))
<1>. DEFINE ends == EndsOf(a)
<1>1. IsFiniteSet(ends) /\ ends \in SUBSET Int
  <2>1. Len(a) \in Nat /\ DOMAIN a = 1 .. Len(a)
    BY LenProperties DEF Typed
  <2>2. IsFiniteSet(1 .. Len(a))
    BY <2>1, FS_Interval
  <2>3. ends \subseteq 1 .. Len(a)
    BY <2>1 DEF EndsOf
  <2>4. IsFiniteSet(ends)
    BY <2>2, <2>3, FS_Subset
  <2>. QED  BY <2>1, <2>3, <2>4
<1>2. \E i \in ends : \A j \in ends : j <= i
  BY <1>1, MaxOfFinite
<1>. QED  BY <1>2 DEF LastOf

LEMMA EocdFound ==
  ASSUME NEW A, NEW a, Typed(a, A), Apk!FindEocd(a) # 0
  PROVE  EndAt(a, Apk!FindEocd(a)) /\ a[Apk!FindEocd(a)] \in Ends
<1>. DEFINE ends == EndsOf(a)
            last == LastOf(ends)
<1>1. Apk!FindEocd(a) = last /\ ends # {}
      /\ last + a[last].comment = Len(a) /\ a[last].offset + a[last].size = last - 1
  BY DEF Apk!FindEocd, EndsOf, LastOf
<1>2. last \in ends /\ \A j \in ends : j <= last
  BY <1>1, LastEnd
<1>. HIDE DEF last
<1>3. Len(a) \in Nat /\ DOMAIN a = 1 .. Len(a)
  BY LenProperties DEF Typed
<1>4. last \in 1 .. Len(a) /\ a[last].kind = "eocd" /\ a[last] \in Ends
  BY <1>2, <1>3 DEF Typed, UnitTyped, EndsOf
<1>5. \A j \in last + 1 .. Len(a) : a[j].kind # "eocd"
  <2>. SUFFICES ASSUME NEW j \in last + 1 .. Len(a), a[j].kind = "eocd" PROVE FALSE
    OBVIOUS
  <2>1. j \in 1 .. Len(a) /\ ~(j <= last)
    BY <1>3, <1>4
  <2>. QED  BY <1>2, <1>3, <2>1 DEF EndsOf
<1>. QED  BY <1>1, <1>4, <1>5 DEF EndAt

LEMMA EocdIs ==
  ASSUME NEW A, NEW a, Typed(a, A), NEW n, EndAt(a, n)
  PROVE  Apk!FindEocd(a) = n
<1>. DEFINE ends == EndsOf(a)
            last == LastOf(ends)
<1>1. Len(a) \in Nat /\ DOMAIN a = 1 .. Len(a)
  BY LenProperties DEF Typed
<1>2. n \in ends
  BY <1>1 DEF EndAt, EndsOf
<1>3. last \in ends /\ \A j \in ends : j <= last
  <2>1. ends # {}
    BY <1>2
  <2>. QED  BY <2>1, LastEnd
<1>4. last = n
  <2>. HIDE DEF last
  <2>1. last \in 1 .. Len(a) /\ a[last].kind = "eocd" /\ n <= last /\ n \in 1 .. Len(a)
    BY <1>1, <1>2, <1>3 DEF EndsOf
  <2>2. last \notin n + 1 .. Len(a)
    BY <2>1 DEF EndAt
  <2>. QED  BY <1>1, <2>1, <2>2
<1>5. Apk!FindEocd(a) = IF /\ ends # {} /\ last + a[last].comment = Len(a)
                           /\ a[last].offset + a[last].size = last - 1
                        THEN last ELSE 0
  BY DEF Apk!FindEocd, EndsOf, LastOf
<1>. HIDE DEF last, ends
<1>. QED  BY <1>2, <1>4, <1>5 DEF EndAt

LEMMA BlockStart ==
  ASSUME NEW A, NEW a, Typed(a, A), NEW c \in 0 .. Len(a), Apk!SigningBlockStart(a, c) # -1
  PROVE  Apk!SigningBlockStart(a, c) \in 0 .. c
<1>1. CASE c = 0 \/ a[c].kind # "magic"
  BY <1>1 DEF Apk!SigningBlockStart
<1>2. CASE c # 0 /\ a[c].kind = "magic"
  <2>1. c \in 1 .. Len(a) /\ a[c].size \in Nat
    <3>1. c \in 1 .. Len(a)
      BY <1>2, LenProperties DEF Typed
    <3>. QED  BY <1>2, <3>1 DEF Typed, UnitTyped
  <2>2. Apk!SigningBlockStart(a, c) = c - a[c].size - 1 /\ a[c].size \in 1 .. c - 1
    BY <1>2 DEF Apk!SigningBlockStart
  <2>. QED  BY <2>1, <2>2
<1>. QED  BY <1>1, <1>2

\* r is what a has from m to n.
Within(r, a, m, n) == \A i \in 1 .. Len(r) : r[i] = a[m + i - 1] /\ m + i - 1 \in m .. n

LEMMA PartTyped ==
  ASSUME NEW A, NEW a, Typed(a, A), NEW m \in Nat \ {0}, NEW n \in Nat, n <= Len(a), m <= n + 1
  PROVE  /\ Typed(SubSeq(a, m, n), A) /\ Len(SubSeq(a, m, n)) = n - m + 1
         /\ Within(SubSeq(a, m, n), a, m, n)
<1>. DEFINE r == SubSeq(a, m, n)
<1>1. a \in Seq(A) /\ Len(a) \in Nat /\ \A i \in 1 .. Len(a) : UnitTyped(a[i])
  BY LenProperties DEF Typed
<1>2. m \in Int /\ n \in Int /\ \A i \in m .. n : a[i] \in A
  <2>1. \A i \in m .. n : i \in 1 .. Len(a)
    BY <1>1
  <2>. QED  BY <1>1, <2>1, ElementOfSeq
<1>3. /\ r \in Seq(A) /\ Len(r) = IF m <= n THEN n - m + 1 ELSE 0
      /\ \A i \in 1 .. n - m + 1 : r[i] = a[m + i - 1]
  BY <1>1, <1>2, SubSeqProperties
<1>. HIDE DEF r
<1>4. Len(r) = n - m + 1
  BY <1>3
<1>5. \A i \in 1 .. n - m + 1 : m + i - 1 \in m .. n /\ m + i - 1 \in 1 .. Len(a)
  BY <1>1
<1>6. \A i \in 1 .. Len(r) : UnitTyped(r[i])
  <2>1. \A i \in 1 .. n - m + 1 : UnitTyped(r[i])
    BY <1>1, <1>3, <1>5
  <2>. QED  BY <1>4, <2>1
<1>7. Typed(r, A)
  BY <1>3, <1>6 DEF Typed
<1>8. Within(r, a, m, n)
  BY <1>3, <1>4, <1>5 DEF Within
<1>. QED  BY <1>4, <1>7, <1>8 DEF r

\* Sections as _unsigned_sections and verify_apk have them.
Proper(s) ==
  /\ s = [payload |-> s.payload, central |-> s.central, eocd |-> s.eocd]
  /\ \E A : Typed(s.payload, A) /\ Typed(s.central, A) /\ Typed(s.eocd, A)
  /\ EndsFile(s.eocd) /\ s.eocd[1].offset = Len(s.payload)

\* ... and as they are without a block and the records of v1 signatures.
Clean(s) ==
  /\ Proper(s)
  /\ s.eocd[1] = Apk!EndRecord(Len(s.central), Len(s.central), Len(s.payload), Len(s.eocd) - 1)
  /\ \A i \in 1 .. Len(s.central) :
        s.central[i].kind = "entry" /\ s.central[i].name \notin V1Names
  /\ \A i, j \in 1 .. Len(s.central) : s.central[i].name = s.central[j].name => i = j

\* The borders of a file.
LEMMA Borders ==
  ASSUME NEW A, NEW a, Typed(a, A), NEW end, end = Apk!FindEocd(a), end # 0,
         NEW start, start = Apk!SigningBlockStart(a, a[end].offset), start # -1
  PROVE  /\ end \in 1 .. Len(a) /\ Len(a) \in Nat
         /\ a[end] \in Ends /\ a[end].comment = Len(a) - end
         /\ a[end].offset \in 0 .. end - 1 /\ start \in 0 .. a[end].offset
         /\ \A j \in end + 1 .. Len(a) : a[j].kind # "eocd"
<1>1. EndAt(a, end) /\ a[end] \in Ends
  BY EocdFound
<1>2. a[end].offset \in Nat /\ a[end].size \in Nat /\ a[end].comment \in Nat
  BY <1>1 DEF Ends
<1>3. /\ end \in 1 .. Len(a) /\ Len(a) \in Nat /\ end + a[end].comment = Len(a)
      /\ a[end].offset + a[end].size = end - 1
      /\ \A j \in end + 1 .. Len(a) : a[j].kind # "eocd"
  BY <1>1, LenProperties DEF EndAt, Typed
<1>4. a[end].comment = Len(a) - end /\ a[end].offset \in 0 .. end - 1 /\ a[end].offset \in 0 .. Len(a)
  <2>1. PICK l \in Nat, c \in Nat, o \in Nat, z \in Nat :
           l = Len(a) /\ c = a[end].comment /\ o = a[end].offset /\ z = a[end].size
    BY <1>2, <1>3
  <2>2. end \in 1 .. l /\ end + c = l /\ o + z = end - 1
    BY <1>3, <2>1
  <2>3. c = l - end /\ o \in 0 .. end - 1 /\ o \in 0 .. l
    BY <2>2
  <2>. QED  BY <2>1, <2>3
<1>5. start \in 0 .. a[end].offset
  BY <1>4, BlockStart
<1>. QED  BY <1>1, <1>3, <1>4, <1>5

\* e is an end record with what follows it.
Ending(e, record, tail, A) ==
  /\ record \in Ends /\ Typed(tail, A) /\ \A i \in 1 .. Len(tail) : tail[i].kind # "eocd"
  /\ e = <<record>> \o tail

LEMMA EndTyped ==
  ASSUME NEW A, NEW record, NEW tail, NEW e, Ending(e, record, tail, A)
  PROVE  /\ Typed(e, A \cup Ends) /\ EndsFile(e) /\ e[1] = record /\ Len(e) = Len(tail) + 1
<1>. /\ record \in Ends /\ Typed(tail, A) /\ InParts(e, <<record>>, tail)
     /\ \A i \in 1 .. Len(tail) : tail[i].kind # "eocd"
  BY DEF Ending, InParts
<1>1. <<record>> \in Seq(A \cup Ends) /\ tail \in Seq(A \cup Ends) /\ Len(tail) \in Nat
  BY LenProperties DEF Typed
<1>2. /\ Len(<<record>>) = 1 /\ e \in Seq(A \cup Ends) /\ Len(e) = 1 + Len(tail)
      /\ \A i \in 1 .. 1 : e[i] = <<record>>[i]
      /\ \A i \in 1 .. Len(tail) : e[1 + i] = tail[i]
  BY <1>1, ConcatParts DEF InParts
<1>3. e[1] = record /\ record.kind = "eocd" /\ UnitTyped(record)
  BY <1>2 DEF Ends, UnitTyped
<1>4. \A j \in 2 .. Len(e) : j - 1 \in 1 .. Len(tail) /\ 1 + (j - 1) = j
  BY <1>1, <1>2
<1>5. \A j \in 2 .. Len(e) : e[j] = tail[j - 1] /\ e[j].kind # "eocd" /\ UnitTyped(e[j])
  BY <1>2, <1>4 DEF Typed
<1>6. \A j \in 1 .. Len(e) : j = 1 \/ j \in 2 .. Len(e)
  BY <1>1, <1>2
<1>7. \A j \in 1 .. Len(e) : UnitTyped(e[j])
  BY <1>3, <1>5, <1>6
<1>. QED  BY <1>1, <1>2, <1>3, <1>5, <1>7 DEF Typed, EndsFile

LEMMA TypedMore ==
  ASSUME NEW A, NEW B, A \subseteq B, NEW a, Typed(a, A) PROVE Typed(a, B)
<1>1. a \in Seq(B)
  BY SeqMonotonic DEF Typed
<1>. QED  BY <1>1 DEF Typed

\* What _unsigned_sections returns, if it does.
LEMMA UnsignedIs ==
  ASSUME NEW a, Apk!UnsignedSections(a) # Refused
  PROVE  LET end     == Apk!FindEocd(a)
             start   == Apk!SigningBlockStart(a, a[end].offset)
             central == Apk!Central(a, end)
             kept    == Apk!Kept(central)
         IN  /\ end # 0 /\ start # -1
             /\ \A i \in DOMAIN central : central[i].kind = "entry"
             /\ \A i, j \in DOMAIN central : central[i].name = central[j].name => i = j
             /\ Apk!UnsignedSections(a) =
                  [payload |-> SubSeq(a, 1, start), central |-> kept,
                   eocd |-> <<Apk!EndRecord(Len(kept), Len(kept), start, a[end].comment)>>
                              \o SubSeq(a, end + 1, Len(a))]
<1>. DEFINE end     == Apk!FindEocd(a)
            start   == Apk!SigningBlockStart(a, a[end].offset)
            central == Apk!Central(a, end)
            kept    == Apk!Kept(central)
            names   == [i \in DOMAIN central |-> central[i].name]
            bad     == \/ end = 0 \/ start = -1
                       \/ \E u \in Apk!Range(central) : u.kind # "entry"
                       \/ ~Apk!IsInjective(names)
            s       == [payload |-> SubSeq(a, 1, start), central |-> kept,
                        eocd |-> <<Apk!EndRecord(Len(kept), Len(kept), start, a[end].comment)>>
                                   \o SubSeq(a, end + 1, Len(a))]
<1>1. Apk!UnsignedSections(a) = IF bad THEN Refused ELSE s
  BY DEF Apk!UnsignedSections
<1>. HIDE DEF bad, s
<1>2. ~bad /\ Apk!UnsignedSections(a) = s
  BY <1>1
<1>. HIDE DEF end, start, central, kept, names
<1>3. /\ end # 0 /\ start # -1 /\ \A u \in Apk!Range(central) : u.kind = "entry"
      /\ Apk!IsInjective(names)
  BY <1>2 DEF bad
<1>4. \A i \in DOMAIN central : central[i].kind = "entry"
  BY <1>3 DEF Apk!Range
<1>5. \A i, j \in DOMAIN central : central[i].name = central[j].name => i = j
  BY <1>3 DEF Apk!IsInjective, names
<1>. QED  BY <1>2, <1>3, <1>4, <1>5 DEF end, start, central, kept, s

LEMMA KeptEntries ==
  ASSUME NEW A, NEW c, Typed(c, A),
         \A i \in DOMAIN c : c[i].kind = "entry",
         \A i, j \in DOMAIN c : c[i].name = c[j].name => i = j
  PROVE  LET k == Apk!Kept(c)
         IN  /\ Typed(k, A)
             /\ \A i \in 1 .. Len(k) : k[i].kind = "entry" /\ k[i].name \notin V1Names
             /\ \A i, j \in 1 .. Len(k) : k[i].name = k[j].name => i = j
             /\ (\A i \in DOMAIN c : c[i].name \notin V1Names) => k = c
<1>. DEFINE I == {i \in DOMAIN c : c[i].name \notin V1Names}
            k == Apk!Kept(c)
<1>1. c \in Seq(A) /\ DOMAIN c = 1 .. Len(c) /\ \A i \in 1 .. Len(c) : UnitTyped(c[i])
  BY LenProperties DEF Typed
<1>2. k = Picked(c, I)
  BY ApkLibrary DEF Apk!Kept
<1>. HIDE DEF k
<1>3. /\ k \in Seq(A)
      /\ \E f \in [1 .. Len(k) -> I \cap (1 .. Len(c))] :
            Rising(f) /\ \A i \in 1 .. Len(k) : k[i] = c[f[i]]
      /\ 1 .. Len(c) \subseteq I => k = c
  <2>. HIDE DEF I
  <2>. QED  BY <1>1, <1>2, ChosenInOrder
<1>4. PICK f \in [1 .. Len(k) -> I \cap (1 .. Len(c))] :
         Rising(f) /\ \A i \in 1 .. Len(k) : k[i] = c[f[i]]
  BY <1>3
<1>5. /\ Len(k) \in Nat /\ DOMAIN f = 1 .. Len(k)
      /\ \A i \in 1 .. Len(k) : f[i] \in I /\ f[i] \in 1 .. Len(c) /\ k[i] = c[f[i]]
  BY <1>3, <1>4, LenProperties
<1>6. \A i \in 1 .. Len(k) : k[i].kind = "entry" /\ k[i].name \notin V1Names /\ UnitTyped(k[i])
  BY <1>1, <1>5
<1>7. ASSUME NEW i \in 1 .. Len(k), NEW j \in 1 .. Len(k), k[i].name = k[j].name PROVE i = j
  <2>1. f[i] = f[j]
    BY <1>1, <1>5, <1>7
  <2>2. f[i] \in Nat /\ f[j] \in Nat
    BY <1>5
  <2>3. i < j => f[i] < f[j]
    BY <1>4, <1>5 DEF Rising
  <2>4. j < i => f[j] < f[i]
    BY <1>4, <1>5 DEF Rising
  <2>. QED  BY <1>5, <2>1, <2>2, <2>3, <2>4
<1>8. (\A i \in DOMAIN c : c[i].name \notin V1Names) => k = c
  BY <1>1, <1>3
<1>. QED  BY <1>3, <1>6, <1>7, <1>8 DEF Typed, k

LEMMA UnsignedIsClean ==
  ASSUME NEW A, NEW a, Typed(a, A), Apk!UnsignedSections(a) # Refused
  PROVE  /\ Clean(Apk!UnsignedSections(a))
         /\ Typed(Apk!UnsignedSections(a).payload, A \cup Ends)
         /\ Typed(Apk!UnsignedSections(a).central, A \cup Ends)
         /\ Typed(Apk!UnsignedSections(a).eocd, A \cup Ends)
<1>1. PICK end, start, central, kept, s :
        /\ end = Apk!FindEocd(a) /\ start = Apk!SigningBlockStart(a, a[end].offset)
        /\ central = Apk!Central(a, end) /\ kept = Apk!Kept(central)
        /\ s = Apk!UnsignedSections(a)
  OBVIOUS
<1>2. /\ end # 0 /\ start # -1
      /\ \A i \in DOMAIN central : central[i].kind = "entry"
      /\ \A i, j \in DOMAIN central : central[i].name = central[j].name => i = j
      /\ s = [payload |-> SubSeq(a, 1, start), central |-> kept,
              eocd |-> <<Apk!EndRecord(Len(kept), Len(kept), start, a[end].comment)>>
                         \o SubSeq(a, end + 1, Len(a))]
  BY <1>1, UnsignedIs
<1>3. /\ end \in 1 .. Len(a) /\ Len(a) \in Nat
      /\ a[end] \in Ends /\ a[end].comment = Len(a) - end
      /\ a[end].offset \in 0 .. end - 1 /\ start \in 0 .. a[end].offset
      /\ \A j \in end + 1 .. Len(a) : a[j].kind # "eocd"
  <2>1. end = Apk!FindEocd(a) /\ start = Apk!SigningBlockStart(a, a[end].offset)
    BY <1>1
  <2>2. end # 0 /\ start # -1
    BY <1>2
  <2>. QED  BY <2>1, <2>2, Borders, Zenon
<1>4. PICK o \in Nat, l \in Nat : o = a[end].offset /\ l = Len(a) /\ o <= end - 1 /\ start \in 0 .. o
                                  /\ end \in 1 .. l
  BY <1>3
<1>5. Typed(SubSeq(a, 1, start), A) /\ Len(SubSeq(a, 1, start)) = start
  <2>1. 1 \in Nat \ {0} /\ start \in Nat /\ start <= l /\ 1 <= start + 1 /\ start - 1 + 1 = start
    BY <1>4
  <2>. QED  BY <1>4, <2>1, PartTyped
<1>6. Typed(central, A)
  <2>1. o + 1 \in Nat \ {0} /\ end - 1 \in Nat /\ end - 1 <= l /\ o + 1 <= (end - 1) + 1
    BY <1>4
  <2>2. central = SubSeq(a, o + 1, end - 1)
    BY <1>1, <1>4 DEF Apk!Central
  <2>3. PICK m, n : m = o + 1 /\ n = end - 1
    OBVIOUS
  <2>. QED  BY <1>4, <2>1, <2>2, <2>3, PartTyped
<1>7. /\ Typed(kept, A) /\ Len(kept) \in Nat
      /\ \A i \in 1 .. Len(kept) : kept[i].kind = "entry" /\ kept[i].name \notin V1Names
      /\ \A i, j \in 1 .. Len(kept) : kept[i].name = kept[j].name => i = j
  <2>1. /\ Typed(kept, A)
        /\ \A i \in 1 .. Len(kept) : kept[i].kind = "entry" /\ kept[i].name \notin V1Names
        /\ \A i, j \in 1 .. Len(kept) : kept[i].name = kept[j].name => i = j
    <3>1. kept = Apk!Kept(central)
      BY <1>1
    <3>2. /\ \A i \in DOMAIN central : central[i].kind = "entry"
          /\ \A i, j \in DOMAIN central : central[i].name = central[j].name => i = j
      BY <1>2
    <3>. QED  BY <1>6, <3>1, <3>2, KeptEntries, Zenon
  <2>. QED  BY <2>1, LenProperties DEF Typed
<1>. DEFINE t == SubSeq(a, end + 1, Len(a))
            r == Apk!EndRecord(Len(kept), Len(kept), start, a[end].comment)
<1>8. /\ Typed(t, A) /\ Len(t) = a[end].comment /\ a[end].comment \in Nat
      /\ \A i \in 1 .. Len(t) : t[i].kind # "eocd"
  <2>1. PICK m \in Nat \ {0} : m = end + 1 /\ m <= l + 1 /\ l - m + 1 = l - end /\ l - end \in Nat
    <3>1. end + 1 \in Nat \ {0} /\ end + 1 <= l + 1 /\ l - (end + 1) + 1 = l - end /\ l - end \in Nat
      BY <1>4
    <3>. QED  BY <3>1
  <2>2. /\ Typed(SubSeq(a, m, l), A) /\ Len(SubSeq(a, m, l)) = l - m + 1
        /\ Within(SubSeq(a, m, l), a, m, l)
    <3>1. l \in Nat /\ l <= Len(a) /\ m \in Nat \ {0} /\ m <= l + 1
      BY <1>4, <2>1
    <3>. QED  BY <3>1, PartTyped
  <2>3. \A i \in 1 .. Len(SubSeq(a, m, l)) :
           SubSeq(a, m, l)[i] = a[m + i - 1] /\ m + i - 1 \in m .. l
    BY <2>2 DEF Within
  <2>. QED  BY <1>3, <1>4, <2>1, <2>2, <2>3
<1>9. r \in Ends /\ r.offset = start
  <2>1. start \in Nat
    BY <1>4
  <2>. QED  BY <1>7, <1>8, <2>1 DEF Ends, Apk!EndRecord
<1>. HIDE DEF t, r
<1>10. /\ s = [payload |-> SubSeq(a, 1, start), central |-> kept, eocd |-> <<r>> \o t]
       /\ s.payload = SubSeq(a, 1, start) /\ s.central = kept /\ s.eocd = <<r>> \o t
  BY <1>2 DEF t, r
<1>11. /\ Typed(s.eocd, A \cup Ends) /\ EndsFile(s.eocd) /\ s.eocd[1] = r /\ Len(s.eocd) = Len(t) + 1
  <2>1. Ending(s.eocd, r, t, A)
    BY <1>8, <1>9, <1>10 DEF Ending
  <2>. QED  BY <2>1, EndTyped
<1>12. Typed(s.payload, A \cup Ends) /\ Typed(s.central, A \cup Ends)
  BY <1>5, <1>7, <1>10, TypedMore
<1>13. Proper(s)
  BY <1>5, <1>9, <1>10, <1>11, <1>12 DEF Proper
<1>14. s.eocd[1] = Apk!EndRecord(Len(s.central), Len(s.central), Len(s.payload), Len(s.eocd) - 1)
  <2>1. Len(s.eocd) - 1 = a[end].comment /\ Len(s.payload) = start
    <3>1. Len(s.payload) = start
      BY <1>5, <1>10
    <3>2. Len(s.eocd) = Len(t) + 1 /\ Len(t) = a[end].comment /\ a[end].comment \in Nat
      BY <1>8, <1>11
    <3>3. \A n \in Nat : (n + 1) - 1 = n
      OBVIOUS
    <3>. QED  BY <3>1, <3>2, <3>3, Zenon
  <2>. QED  BY <1>10, <1>11, <2>1 DEF r
<1>15. Clean(s)
  BY <1>7, <1>10, <1>13, <1>14 DEF Clean
<1>. QED  BY <1>1, <1>11, <1>12, <1>15

\* The digest tells the sections apart.
LEMMA DigestIs ==
  ASSUME NEW A, NEW s, NEW p, NEW c, NEW e, p = s.payload, c = s.central, e = s.eocd,
         p \in Seq(A), c \in Seq(A), e \in Seq(A), Chunk \in Nat \ {0}
  PROVE  InParts(FlattenSeq(Apk!ChunkedDigest(s)), p \o c, e)
<1>1. PICK x, y, z : x = Cut(p, Chunk) /\ y = Cut(c, Chunk) /\ z = Cut(e, Chunk)
  OBVIOUS
<1>2. /\ x \in Seq(Seq(A)) /\ FlattenSeq(x) = p
      /\ y \in Seq(Seq(A)) /\ FlattenSeq(y) = c
      /\ z \in Seq(Seq(A)) /\ FlattenSeq(z) = e
  BY <1>1, CutAndFlattened
<1>3. Apk!ChunkedDigest(s) = x \o y \o z
  BY <1>1, ApkLibrary DEF Apk!ChunkedDigest
<1>4. PICK xy : xy = x \o y
  OBVIOUS
<1>5. xy \in Seq(Seq(A)) /\ FlattenSeq(xy) = p \o c
  <2>1. xy \in Seq(Seq(A))
    BY <1>2, <1>4, ConcatProperties
  <2>2. FlattenSeq(x \o y) = FlattenSeq(x) \o FlattenSeq(y)
    BY <1>2, FlattenConcat
  <2>. QED  BY <1>2, <1>4, <2>1, <2>2
<1>6. FlattenSeq(xy \o z) = FlattenSeq(xy) \o FlattenSeq(z)
  BY <1>2, <1>5, FlattenConcat
<1>7. FlattenSeq(Apk!ChunkedDigest(s)) = (p \o c) \o e
  BY <1>2, <1>3, <1>4, <1>5, <1>6, Zenon
<1>. QED  BY <1>7 DEF InParts

LEMMA DigestDetermines ==
  ASSUME NEW s, NEW t, Proper(s), Proper(t), Apk!ChunkedDigest(s) = Apk!ChunkedDigest(t),
         Chunk \in Nat \ {0}
  PROVE  s = t
<1>1. PICK B : Typed(s.payload, B) /\ Typed(s.central, B) /\ Typed(s.eocd, B)
  BY DEF Proper
<1>2. PICK C : Typed(t.payload, C) /\ Typed(t.central, C) /\ Typed(t.eocd, C)
  BY DEF Proper
<1>3. PICK A : A = B \cup C
  OBVIOUS
<1>4. PICK p, c, e : p = s.payload /\ c = s.central /\ e = s.eocd
  OBVIOUS
<1>5. PICK u, v, f : u = t.payload /\ v = t.central /\ f = t.eocd
  OBVIOUS
<1>6. p \in Seq(A) /\ c \in Seq(A) /\ e \in Seq(A)
  <2>1. B \subseteq A
    BY <1>3
  <2>. QED  BY <1>1, <1>4, <2>1, TypedMore DEF Typed
<1>7. u \in Seq(A) /\ v \in Seq(A) /\ f \in Seq(A)
  <2>1. C \subseteq A
    BY <1>3
  <2>. QED  BY <1>2, <1>5, <2>1, TypedMore DEF Typed
<1>8. PICK w, x, y : w = FlattenSeq(Apk!ChunkedDigest(s)) /\ x = p \o c /\ y = u \o v
  OBVIOUS
<1>9. InParts(w, x, e) /\ InParts(w, y, f)
  BY <1>4, <1>5, <1>6, <1>7, <1>8, DigestIs
<1>10. x \in Seq(A) /\ y \in Seq(A)
  BY <1>6, <1>7, <1>8, ConcatProperties
<1>11. EndsFile(e) /\ e[1].offset = Len(p) /\ EndsFile(f) /\ f[1].offset = Len(u)
  BY <1>4, <1>5 DEF Proper
<1>12. x = y /\ e = f
  BY <1>6, <1>7, <1>9, <1>10, <1>11, SameTail
<1>13. InParts(x, p, c) /\ InParts(x, u, v) /\ Len(p) = Len(u)
  BY <1>8, <1>11, <1>12 DEF InParts
<1>14. p = u /\ c = v
  BY <1>6, <1>7, <1>13, SameParts
<1>15. s = [payload |-> p, central |-> c, eocd |-> e] /\ t = [payload |-> u, central |-> v, eocd |-> f]
  BY <1>4, <1>5 DEF Proper
<1>. QED  BY <1>12, <1>14, <1>15

\* An end record whose offset is that of the block.
Moved(q, n) == [q EXCEPT ![1].offset = n]

SameRest(f, q) == \A i \in 2 .. Len(q) : f[i] = q[i]

LEMMA MovedTyped ==
  ASSUME NEW A, NEW q, Typed(q, A), EndsFile(q), NEW n \in Nat
  PROVE  /\ Typed(Moved(q, n), A \cup Ends) /\ EndsFile(Moved(q, n)) /\ Len(Moved(q, n)) = Len(q)
         /\ Moved(q, n)[1] = [q[1] EXCEPT !.offset = n]
         /\ q[1] \in Ends /\ SameRest(Moved(q, n), q)
<1>1. /\ q \in Seq(A) /\ Len(q) \in Nat /\ DOMAIN q = 1 .. Len(q) /\ 1 \in 1 .. Len(q)
      /\ \A i \in 1 .. Len(q) : q[i] \in A /\ UnitTyped(q[i])
  BY LenProperties, ElementOfSeq DEF Typed, EndsFile
<1>2. q[1] \in Ends /\ q[1].kind = "eocd"
  BY <1>1 DEF EndsFile, UnitTyped
<1>3. PICK r : r = [q[1] EXCEPT !.offset = n]
  OBVIOUS
<1>4. r \in Ends /\ r.kind = "eocd" /\ UnitTyped(r)
  BY <1>2, <1>3 DEF Ends, UnitTyped
<1>5. PICK m : m = [i \in 1 .. Len(q) |-> IF i = 1 THEN r ELSE q[i]]
  OBVIOUS
<1>6. Moved(q, n) = m
  <2>1. Moved(q, n) = [i \in DOMAIN q |-> IF i = 1 THEN [q[1] EXCEPT !.offset = n] ELSE q[i]]
    BY <1>1 DEF Moved
  <2>. QED  BY <1>1, <1>3, <1>5, <2>1
<1>7. \A i \in 1 .. Len(q) : m[i] = IF i = 1 THEN r ELSE q[i]
  BY <1>5
<1>8. m \in Seq(A \cup Ends) /\ Len(m) = Len(q)
  <2>1. m \in [1 .. Len(q) -> A \cup Ends]
    BY <1>1, <1>4, <1>5
  <2>. QED  BY <1>1, <2>1, IsASeq, LenProperties
<1>9. \A i \in 2 .. Len(q) : i \in 1 .. Len(q) /\ i # 1
  BY <1>1
<1>10. \A i \in 1 .. Len(q) : UnitTyped(m[i])
  BY <1>1, <1>4, <1>7
<1>11. m[1] = r /\ \A i \in 2 .. Len(q) : m[i] = q[i]
  BY <1>1, <1>7, <1>9
<1>12. EndsFile(m)
  BY <1>1, <1>4, <1>8, <1>11 DEF EndsFile
<1>. QED  BY <1>2, <1>3, <1>6, <1>8, <1>10, <1>11, <1>12 DEF Typed, SameRest

\* a is accepted with its end record at end and its block at start.
Bordered(a, end, start) ==
  /\ end = Apk!FindEocd(a) /\ end # 0
  /\ start = Apk!SigningBlockStart(a, a[end].offset) /\ start # -1

\* The sections that are verified.
LEMMA VerifiedProper ==
  ASSUME NEW A, NEW a, Typed(a, A), NEW end, NEW start, Bordered(a, end, start)
  PROVE  Proper(Apk!VerifiedSections(a))
<1>1. /\ end \in 1 .. Len(a) /\ Len(a) \in Nat
      /\ a[end] \in Ends /\ a[end].offset \in 0 .. end - 1 /\ start \in 0 .. a[end].offset
      /\ \A j \in end + 1 .. Len(a) : a[j].kind # "eocd"
  BY Borders, Zenon DEF Bordered
<1>2. PICK o \in Nat, l \in Nat : o = a[end].offset /\ l = Len(a) /\ o <= end - 1 /\ start \in 0 .. o
                                  /\ end \in 1 .. l
  BY <1>1
<1>3. PICK p : p = SubSeq(a, 1, start) /\ Typed(p, A) /\ Len(p) = start
  <2>. SUFFICES Typed(SubSeq(a, 1, start), A) /\ Len(SubSeq(a, 1, start)) = start
    OBVIOUS
  <2>1. 1 \in Nat \ {0} /\ start \in Nat /\ start <= l /\ 1 <= start + 1 /\ start - 1 + 1 = start
    BY <1>2
  <2>. QED  BY <1>2, <2>1, PartTyped
<1>4. PICK c : c = SubSeq(a, o + 1, end - 1) /\ Typed(c, A)
  <2>. SUFFICES Typed(SubSeq(a, o + 1, end - 1), A)
    OBVIOUS
  <2>1. PICK m, n : m = o + 1 /\ n = end - 1
    OBVIOUS
  <2>2. m \in Nat \ {0} /\ n \in Nat /\ n <= l /\ m <= n + 1
    BY <1>2, <2>1
  <2>. QED  BY <1>2, <2>1, <2>2, PartTyped
<1>5. PICK q : q = SubSeq(a, end, l)
  OBVIOUS
<1>6. /\ Typed(q, A) /\ Len(q) = l - end + 1
      /\ \A i \in 1 .. l - end + 1 : q[i] = a[end + i - 1]
  <2>1. end \in Nat \ {0} /\ l <= l /\ end <= l + 1
    BY <1>2
  <2>2. /\ Typed(SubSeq(a, end, l), A) /\ Len(SubSeq(a, end, l)) = l - end + 1
        /\ Within(SubSeq(a, end, l), a, end, l)
    BY <1>2, <2>1, PartTyped
  <2>. QED  BY <1>5, <2>2 DEF Within
<1>7. EndsFile(q)
  <2>1. Len(q) > 0 /\ 1 \in 1 .. l - end + 1 /\ end + 1 - 1 = end
    BY <1>2, <1>6
  <2>2. q[1].kind = "eocd"
    BY <1>1, <1>6, <2>1 DEF Ends
  <2>3. \A i \in 2 .. Len(q) : i \in 1 .. l - end + 1 /\ end + i - 1 \in end + 1 .. l
    BY <1>2, <1>6
  <2>4. \A i \in 2 .. Len(q) : q[i].kind # "eocd"
    BY <1>1, <1>2, <1>6, <2>3
  <2>. QED  BY <2>1, <2>2, <2>4 DEF EndsFile
<1>8. PICK e : e = Moved(q, start)
  OBVIOUS
<1>9. /\ Typed(e, A \cup Ends) /\ EndsFile(e) /\ e[1] = [q[1] EXCEPT !.offset = start] /\ q[1] \in Ends
  <2>1. start \in Nat
    BY <1>2
  <2>2. Typed(q, A) /\ EndsFile(q)
    BY <1>6, <1>7
  <2>3. /\ Typed(Moved(q, start), A \cup Ends) /\ EndsFile(Moved(q, start))
        /\ Moved(q, start)[1] = [q[1] EXCEPT !.offset = start] /\ q[1] \in Ends
    BY <2>1, <2>2, MovedTyped
  <2>. QED  BY <1>8, <2>3
<1>10. e[1].offset = Len(p)
  BY <1>3, <1>9 DEF Ends
<1>11. Typed(p, A \cup Ends) /\ Typed(c, A \cup Ends)
  BY <1>3, <1>4, TypedMore
<1>12. Apk!VerifiedSections(a) = [payload |-> p, central |-> c, eocd |-> e]
  BY <1>2, <1>3, <1>4, <1>5, <1>8 DEF Apk!VerifiedSections, Apk!Central, Moved, Bordered
<1>13. PICK s : s = [payload |-> p, central |-> c, eocd |-> e]
  OBVIOUS
<1>14. s.payload = p /\ s.central = c /\ s.eocd = e
  BY <1>13
<1>15. Proper(s)
  BY <1>9, <1>10, <1>11, <1>13, <1>14 DEF Proper
<1>. QED  BY <1>12, <1>13, <1>15

\* What someone has signed, and a pair that holds it.
Vouched(s) == /\ s = [key |-> s.key, sections |-> s.sections] /\ Proper(s.sections)
              /\ s.key \in {project, foreign}

PairOf(u, s) ==
  u.signature = [key |-> s.key, of |-> [digest |-> Apk!ChunkedDigest(s.sections),
                                        certificate |-> s.key]]

Authentic(u, S) == u.kind = "pair" => /\ {"kind", "signature"} \subseteq DOMAIN u
                                      /\ \E s \in S : PairOf(u, s)

\* What is accepted has a pair, and verified sections.
LEMMA AcceptedHasPair ==
  ASSUME NEW A, NEW a, Typed(a, A), Apk!Verified(a) # Refused
  PROVE  /\ Proper(Apk!VerifiedSections(a))
         /\ \E i \in 1 .. Len(a) :
               /\ a[i].kind = "pair" /\ Apk!Verified(a) = a[i].data.certificate
               /\ a[i].data.certificate = a[i].public
               /\ a[i].signature = [key |-> a[i].public, of |-> a[i].data]
               /\ a[i].data.digest = Apk!ChunkedDigest(Apk!VerifiedSections(a))
<1>1. PICK pairs, pair : pairs = Apk!V2Pairs(a) /\ pair = pairs[1]
  OBVIOUS
<1>2. /\ Len(pairs) = 1 /\ pair.data.certificate = pair.public
      /\ pair.signature = [key |-> pair.public, of |-> pair.data]
      /\ pair.data.digest = Apk!ChunkedDigest(Apk!VerifiedSections(a))
      /\ Apk!Verified(a) = pair.data.certificate
  BY <1>1 DEF Apk!Verified
<1>3. PICK end, start, m, n, section :
         /\ end = Apk!FindEocd(a) /\ start = Apk!SigningBlockStart(a, a[end].offset)
         /\ m = start + 2 /\ n = a[end].offset - 1 /\ section = SubSeq(a, m, n)
  OBVIOUS
<1>4. PICK I : I = {i \in DOMAIN section : section[i].id = "v2"}
  OBVIOUS
<1>5. pairs = IF end = 0 \/ start = -1 THEN <<>>
              ELSE IF \A u \in Apk!Range(section) : u.kind = "pair" THEN Picked(section, I) ELSE <<>>
  BY <1>1, <1>3, <1>4, ApkLibrary DEF Apk!V2Pairs
<1>6. Len(<<>>) # 1
  OBVIOUS
<1>7. /\ end # 0 /\ start # -1 /\ pairs = Picked(section, I)
      /\ \A u \in Apk!Range(section) : u.kind = "pair"
  BY <1>2, <1>5, <1>6, Zenon
<1>8. /\ end \in 1 .. Len(a) /\ Len(a) \in Nat
      /\ a[end].offset \in 0 .. end - 1 /\ start \in 0 .. a[end].offset
  BY <1>3, <1>7, Borders, Zenon
<1>9. m \in Nat /\ n \in Int /\ m >= 2 /\ \A i \in m .. n : i \in 1 .. Len(a)
  <2>1. PICK o : o = a[end].offset
    OBVIOUS
  <2>2. m = start + 2 /\ n = o - 1
    BY <1>3, <2>1
  <2>3. end \in 1 .. Len(a) /\ Len(a) \in Nat /\ o \in 0 .. end - 1 /\ start \in 0 .. o
    BY <1>8, <2>1
  <2>. HIDE <2>1
  <2>. QED  BY <2>2, <2>3
<1>10. /\ section \in Seq(A) /\ Len(section) = IF m <= n THEN n - m + 1 ELSE 0
       /\ \A i \in 1 .. n - m + 1 : section[i] = a[m + i - 1]
  <2>1. \A i \in m .. n : a[i] \in A
    BY <1>9, ElementOfSeq DEF Typed
  <2>. QED  BY <1>3, <1>9, <2>1, SubSeqProperties
<1>11. \A i \in 1 .. Len(section) : /\ m + i - 1 \in 1 .. Len(a) /\ section[i] = a[m + i - 1]
                                    /\ section[i].kind = "pair"
  <2>1. \A i \in 1 .. Len(section) : i \in 1 .. n - m + 1 /\ m + i - 1 \in m .. n
    BY <1>9, <1>10
  <2>2. DOMAIN section = 1 .. Len(section)
    BY <1>10, LenProperties
  <2>. QED  BY <1>7, <1>9, <1>10, <2>1, <2>2 DEF Apk!Range
<1>12. PICK f \in [1 .. Len(pairs) -> I \cap (1 .. Len(section))] :
          \A i \in 1 .. Len(pairs) : pairs[i] = section[f[i]]
  BY <1>7, <1>10, ChosenInOrder
<1>13. PICK j \in 1 .. Len(section) : pair = section[j]
  <2>1. 1 \in 1 .. Len(pairs)
    BY <1>2
  <2>. QED  BY <1>1, <1>12, <2>1
<1>14. PICK i \in 1 .. Len(a) : pair = a[i] /\ a[i].kind = "pair"
  BY <1>11, <1>13
<1>15. Proper(Apk!VerifiedSections(a))
  BY <1>3, <1>7, VerifiedProper, Zenon DEF Bordered
<1>. QED  BY <1>2, <1>14, <1>15

LEMMA AcceptedSigned ==
  ASSUME NEW A, NEW a, Typed(a, A), Apk!Verified(a) # Refused, Chunk \in Nat \ {0},
         NEW S, \A i \in 1 .. Len(a) : Authentic(a[i], S), \A s \in S : Vouched(s)
  PROVE  [key |-> Apk!Verified(a), sections |-> Apk!VerifiedSections(a)] \in S
<1>1. PICK i \in 1 .. Len(a) :
         /\ a[i].kind = "pair" /\ Apk!Verified(a) = a[i].data.certificate
         /\ a[i].data.certificate = a[i].public
         /\ a[i].signature = [key |-> a[i].public, of |-> a[i].data]
         /\ a[i].data.digest = Apk!ChunkedDigest(Apk!VerifiedSections(a))
  BY AcceptedHasPair
<1>2. PICK s \in S : PairOf(a[i], s)
  BY <1>1 DEF Authentic
<1>3. a[i].public = s.key /\ a[i].data = [digest |-> Apk!ChunkedDigest(s.sections), certificate |-> s.key]
  BY <1>1, <1>2 DEF PairOf
<1>4. Apk!Verified(a) = s.key /\ Apk!ChunkedDigest(Apk!VerifiedSections(a)) = Apk!ChunkedDigest(s.sections)
  BY <1>1, <1>3
<1>5. Proper(s.sections) /\ s = [key |-> s.key, sections |-> s.sections]
  BY DEF Vouched
<1>6. Proper(Apk!VerifiedSections(a))
  BY AcceptedHasPair
<1>7. Apk!VerifiedSections(a) = s.sections
  BY <1>4, <1>5, <1>6, DigestDetermines
<1>. QED  BY <1>4, <1>5, <1>7

\* The pair that is signed, and a file with its block: payload, block,
\* directory and end record.
PairSigned(s, key) == Apk!SigningBlock(Apk!ChunkedDigest(s), key)[2]

Laid(x, s, key, P, C, E, f) ==
  /\ P \in Nat /\ P = Len(s.payload) /\ C \in Nat /\ C = Len(s.central)
  /\ E \in Nat \ {0} /\ E = Len(s.eocd) /\ E = Len(f) /\ f = Moved(s.eocd, P + 3)
  /\ \E B : Typed(x, B)
  /\ Len(x) = P + 3 + C + E
  /\ \A i \in 1 .. P : x[i] = s.payload[i]
  /\ x[P + 1] = [kind |-> "size", size |-> 2]
  /\ x[P + 2] = PairSigned(s, key)
  /\ x[P + 3] = [kind |-> "magic", size |-> 2]
  /\ \A i \in 1 .. C : x[P + 3 + i] = s.central[i]
  /\ \A i \in 1 .. E : x[P + 3 + C + i] = f[i]

SignedAs(s, key) ==
  s.payload \o Apk!SigningBlock(Apk!ChunkedDigest(s), key) \o s.central
    \o Moved(s.eocd, Len(s.payload \o Apk!SigningBlock(Apk!ChunkedDigest(s), key)))

BlockUnits(s, key) ==
  {[kind |-> "size", size |-> 2], PairSigned(s, key), [kind |-> "magic", size |-> 2]}

LEMMA SignedIsLaid ==
  ASSUME NEW A, NEW s, Proper(s), NEW key,
         Typed(s.payload, A), Typed(s.central, A), Typed(s.eocd, A)
  PROVE  /\ Laid(SignedAs(s, key), s, key, Len(s.payload), Len(s.central), Len(s.eocd),
                 Moved(s.eocd, Len(s.payload) + 3))
         /\ Typed(SignedAs(s, key), A \cup Ends \cup BlockUnits(s, key))
<1>1. Typed(s.payload, A) /\ Typed(s.central, A) /\ Typed(s.eocd, A)
  OBVIOUS
<1>2. PICK p, c, e, b : /\ p = s.payload /\ c = s.central /\ e = s.eocd
                        /\ b = Apk!SigningBlock(Apk!ChunkedDigest(s), key)
  OBVIOUS
<1>3. PICK pair : pair = PairSigned(s, key)
  OBVIOUS
<1>4. /\ b = <<[kind |-> "size", size |-> 2], pair, [kind |-> "magic", size |-> 2]>>
      /\ pair.kind = "pair"
  BY <1>2, <1>3 DEF Apk!SigningBlock, PairSigned
<1>5. PICK B : B = A \cup Ends \cup {[kind |-> "size", size |-> 2], pair, [kind |-> "magic", size |-> 2]}
  OBVIOUS
<1>6. A \subseteq B /\ A \cup Ends \subseteq B
  BY <1>5
<1>7. Typed(p, B) /\ Typed(c, B) /\ Typed(e, A) /\ EndsFile(e)
  BY <1>1, <1>2, <1>6, TypedMore DEF Proper
<1>8. PICK P \in Nat, C \in Nat, E \in Nat : P = Len(p) /\ C = Len(c) /\ E = Len(e)
  BY <1>7, LenProperties DEF Typed
<1>9. E \in Nat \ {0}
  BY <1>7, <1>8 DEF EndsFile
<1>10. /\ b \in Seq(B) /\ Len(b) = 3
       /\ b[1] = [kind |-> "size", size |-> 2] /\ b[2] = pair /\ b[3] = [kind |-> "magic", size |-> 2]
  <2>1. \A i \in 1 .. 3 : b[i] \in B
    BY <1>4, <1>5
  <2>. QED  BY <1>4, <1>5, <2>1
<1>11. Typed(b, B)
  <2>1. UnitTyped(b[1]) /\ UnitTyped(b[2]) /\ UnitTyped(b[3])
    BY <1>4, <1>10 DEF UnitTyped
  <2>2. \A i \in 1 .. 3 : i = 1 \/ i = 2 \/ i = 3
    OBVIOUS
  <2>. QED  BY <1>10, <2>1, <2>2 DEF Typed
<1>12. PICK n, pb : n \in Nat /\ n = Len(pb) /\ n = P + 3 /\ pb = p \o b
  <2>1. Len(p \o b) = Len(p) + Len(b)
    BY <1>7, <1>10, ConcatProperties DEF Typed
  <2>2. Len(p \o b) = P + 3 /\ P + 3 \in Nat
    BY <1>8, <1>10, <2>1
  <2>. QED  BY <2>2, Zenon
<1>. n \in Nat
  BY <1>12
<1>13. PICK f : f = Moved(e, n)
  OBVIOUS
<1>14. Typed(f, B) /\ Len(f) = E
  <2>1. Typed(f, A \cup Ends) /\ Len(f) = Len(e)
    BY <1>7, <1>13, MovedTyped
  <2>. QED  BY <1>6, <1>8, <2>1, TypedMore
<1>15. PICK x : x = SignedAs(s, key)
  OBVIOUS
<1>16. PICK k \in Nat : k = 3 /\ k = Len(b)
  BY <1>10
<1>17. /\ x \in Seq(B) /\ Len(x) = P + k + C + E
       /\ \A i \in 1 .. P : x[i] = p[i]
       /\ \A i \in 1 .. k : x[P + i] = b[i]
       /\ \A i \in 1 .. C : x[P + k + i] = c[i]
       /\ \A i \in 1 .. E : x[P + k + C + i] = f[i]
  <2>1. p \in Seq(B) /\ b \in Seq(B) /\ c \in Seq(B) /\ f \in Seq(B)
    BY <1>7, <1>11, <1>14 DEF Typed
  <2>2. Measured(p, B, P) /\ Measured(b, B, k) /\ Measured(c, B, C) /\ Measured(f, B, E)
    BY <1>8, <1>14, <1>16, <2>1 DEF Measured
  <2>3. InFour(x, p, b, c, f)
    BY <1>2, <1>12, <1>13, <1>15 DEF SignedAs, InFour
  <2>4. /\ x \in Seq(B) /\ Len(x) = P + k + C + E
        /\ Holds(x, 0, p) /\ Holds(x, P, b) /\ Holds(x, P + k, c) /\ Holds(x, P + k + C, f)
    BY <2>2, <2>3, FourParts
  <2>5. \A i \in 1 .. P : x[i] = p[i]
    <3>1. \A i \in 1 .. P : x[0 + i] = p[i]
      BY <1>8, <2>4 DEF Holds
    <3>2. \A i \in 1 .. P : 0 + i = i
      OBVIOUS
    <3>. QED  BY <3>1, <3>2
  <2>6. \A i \in 1 .. k : x[P + i] = b[i]
    BY <1>16, <2>4 DEF Holds
  <2>7. \A i \in 1 .. C : x[P + k + i] = c[i]
    BY <1>8, <2>4 DEF Holds
  <2>8. \A i \in 1 .. E : x[P + k + C + i] = f[i]
    BY <1>14, <2>4 DEF Holds
  <2>. QED  BY <2>4, <2>5, <2>6, <2>7, <2>8
<1>18. x[P + 1] = b[1] /\ x[P + 2] = b[2] /\ x[P + 3] = b[3]
  <2>1. 1 \in 1 .. k /\ 2 \in 1 .. k /\ 3 \in 1 .. k
    BY <1>16
  <2>. QED  BY <1>17, <2>1
<1>19. Typed(x, B)
  <2>1. ASSUME NEW j \in 1 .. P + k + C + E PROVE UnitTyped(x[j])
    <3>1. \/ j \in 1 .. P
          \/ \E i \in 1 .. k : j = P + i
          \/ \E i \in 1 .. C : j = P + k + i
          \/ \E i \in 1 .. E : j = P + k + C + i
      <4>1. \/ j \in 1 .. P
            \/ j - P \in 1 .. k /\ j = P + (j - P)
            \/ j - P - k \in 1 .. C /\ j = P + k + (j - P - k)
            \/ j - P - k - C \in 1 .. E /\ j = P + k + C + (j - P - k - C)
        OBVIOUS
      <4>. QED  BY <4>1
    <3>2. /\ \A i \in 1 .. P : UnitTyped(p[i])
          /\ \A i \in 1 .. k : UnitTyped(b[i])
          /\ \A i \in 1 .. C : UnitTyped(c[i])
          /\ \A i \in 1 .. E : UnitTyped(f[i])
      BY <1>7, <1>8, <1>11, <1>14, <1>16 DEF Typed
    <3>. QED  BY <1>17, <3>1, <3>2
  <2>. QED  BY <1>17, <2>1 DEF Typed
<1>20. Laid(x, s, key, P, C, E, f)
  <2>1. f = Moved(s.eocd, P + 3) /\ P = Len(s.payload) /\ C = Len(s.central) /\ E = Len(s.eocd)
    BY <1>2, <1>8, <1>12, <1>13
  <2>2. Len(x) = P + 3 + C + E
    BY <1>16, <1>17
  <2>3. /\ \A i \in 1 .. P : x[i] = s.payload[i]
        /\ \A i \in 1 .. C : x[P + 3 + i] = s.central[i]
        /\ \A i \in 1 .. E : x[P + 3 + C + i] = f[i]
    BY <1>2, <1>16, <1>17
  <2>. QED  BY <1>3, <1>9, <1>10, <1>14, <1>18, <1>19, <2>1, <2>2, <2>3 DEF Laid
<1>21. B = A \cup Ends \cup BlockUnits(s, key)
  BY <1>3, <1>5 DEF BlockUnits
<1>. QED  BY <1>2, <1>8, <1>12, <1>13, <1>15, <1>19, <1>20, <1>21

LEMMA LaidBorders ==
  ASSUME NEW s, Clean(s), NEW key, NEW x, NEW P, NEW C, NEW E, NEW f, Laid(x, s, key, P, C, E, f)
  PROVE  /\ Apk!FindEocd(x) = P + 3 + C + 1
         /\ x[P + 3 + C + 1].offset = P + 3 /\ x[P + 3 + C + 1].comment = E - 1
         /\ Apk!SigningBlockStart(x, P + 3) = P
<1>1. PICK B : Typed(x, B)
  BY DEF Laid
<1>2. /\ P \in Nat /\ C \in Nat /\ E \in Nat \ {0} /\ Len(x) = P + 3 + C + E
      /\ f = Moved(s.eocd, P + 3) /\ \A i \in 1 .. E : x[P + 3 + C + i] = f[i]
  BY DEF Laid
<1>3. /\ s.eocd[1] \in Ends /\ f[1] = [s.eocd[1] EXCEPT !.offset = P + 3] /\ EndsFile(f) /\ Len(f) = E
  <2>1. PICK A : Typed(s.eocd, A) /\ EndsFile(s.eocd)
    BY DEF Clean, Proper
  <2>2. PICK n, q : n \in Nat /\ n = P + 3 /\ q = s.eocd
    BY <1>2
  <2>3. Moved(q, n)[1] = [q[1] EXCEPT !.offset = n] /\ q[1] \in Ends /\ EndsFile(Moved(q, n))
    <3>1. Typed(q, A) /\ EndsFile(q)
      BY <2>1, <2>2
    <3>2. n \in Nat
      BY <2>2
    <3>. QED  BY <3>1, <3>2, MovedTyped, Zenon
  <2>. QED  BY <1>2, <2>2, <2>3 DEF Laid
<1>4. s.eocd[1].size = C /\ s.eocd[1].comment = E - 1
  BY DEF Clean, Laid, Apk!EndRecord
<1>5. f[1].kind = "eocd" /\ f[1].offset = P + 3 /\ f[1].size = C /\ f[1].comment = E - 1
  BY <1>3, <1>4 DEF Ends
<1>6. PICK n \in Nat : n = P + 3 + C + 1
  BY <1>2
<1>7. x[n] = f[1]
  BY <1>2, <1>6
<1>8. EndAt(x, n)
  <2>1. n \in 1 .. Len(x) /\ n + (E - 1) = Len(x) /\ (P + 3) + C = n - 1
    BY <1>2, <1>6
  <2>2. ASSUME NEW j \in n + 1 .. Len(x) PROVE x[j].kind # "eocd"
    <3>1. PICK i \in 2 .. E : j = P + 3 + C + i
      <4>1. j - (P + 3 + C) \in 2 .. E /\ j = P + 3 + C + (j - (P + 3 + C))
        BY <1>2, <1>6
      <4>. QED  BY <4>1
    <3>2. x[j] = f[i]
      <4>1. i \in 1 .. E
        BY <1>2
      <4>. QED  BY <1>2, <3>1, <4>1
    <3>3. f[i].kind # "eocd"
      BY <1>3 DEF EndsFile
    <3>. QED  BY <3>2, <3>3
  <2>. QED  BY <1>5, <1>7, <2>1, <2>2 DEF EndAt
<1>9. Apk!FindEocd(x) = n
  BY <1>1, <1>8, EocdIs
<1>10. Apk!SigningBlockStart(x, P + 3) = P
  <2>1. PICK m \in Nat \ {0} : m = P + 3 /\ 2 \in 1 .. m - 1 /\ m - 2 - 1 = P
    <3>1. P + 3 \in Nat \ {0} /\ 2 \in 1 .. (P + 3) - 1 /\ (P + 3) - 2 - 1 = P
      BY <1>2
    <3>. QED  BY <3>1
  <2>2. /\ x[m] = [kind |-> "magic", size |-> 2] /\ x[P + 1] = [kind |-> "size", size |-> 2]
    BY <2>1 DEF Laid
  <2>3. /\ m # 0 /\ x[m].kind = "magic" /\ x[m].size = 2
        /\ x[P + 1].kind = "size" /\ x[P + 1].size = 2
    BY <2>1, <2>2
  <2>. QED  BY <2>1, <2>3 DEF Apk!SigningBlockStart
<1>. QED  BY <1>5, <1>6, <1>7, <1>9, <1>10

\* What x goes on with is a slice of it.
Slice(x, t, k, m, n) == /\ Holds(x, k, t) /\ k \in Nat /\ k + Len(t) <= Len(x)
                        /\ m = k + 1 /\ n = k + Len(t)

LEMMA SliceHeld ==
  ASSUME NEW A, NEW x \in Seq(A), NEW t \in Seq(A), NEW k, NEW m, NEW n, Slice(x, t, k, m, n)
  PROVE  SubSeq(x, m, n) = t
<1>1. /\ k \in Nat /\ k + Len(t) <= Len(x) /\ m = k + 1 /\ n = k + Len(t)
      /\ Len(t) \in Nat /\ Len(x) \in Nat
  BY LenProperties DEF Slice
<1>2. /\ m \in Int /\ n \in Int /\ n - m + 1 = Len(t) /\ (m <= n <=> Len(t) # 0)
      /\ \A i \in m .. n : i \in 1 .. Len(x)
      /\ \A i \in 1 .. Len(t) : m + i - 1 = k + i
  BY <1>1
<1>3. \A i \in m .. n : x[i] \in A
  <2>1. \A i \in 1 .. Len(x) : x[i] \in A
    BY ElementOfSeq
  <2>. QED  BY <1>2, <2>1, Zenon
<1>4. PICK r : r = SubSeq(x, m, n)
  OBVIOUS
<1>5. /\ r \in Seq(A) /\ Len(r) = IF m <= n THEN n - m + 1 ELSE 0
      /\ \A i \in 1 .. n - m + 1 : r[i] = x[m + i - 1]
  BY <1>2, <1>3, <1>4, SubSeqProperties
<1>6. Len(r) = Len(t)
  BY <1>1, <1>2, <1>5
<1>7. \A i \in 1 .. Len(t) : x[k + i] = t[i]
  BY DEF Slice, Holds
<1>8. \A i \in 1 .. Len(t) : r[i] = t[i]
  BY <1>2, <1>5, <1>7, Zenon
<1>. QED  BY <1>4, <1>5, <1>6, <1>8, SeqEqual

\* What such a file is cut into.
Pieces(x, s, key, P, C, f) ==
  /\ SubSeq(x, 1, P) = s.payload
  /\ SubSeq(x, P + 2, P + 2) = <<PairSigned(s, key)>>
  /\ SubSeq(x, P + 3 + 1, P + 3 + C) = s.central
  /\ SubSeq(x, P + 3 + C + 1, Len(x)) = f
  /\ <<s.eocd[1]>> \o SubSeq(x, P + 3 + C + 2, Len(x)) = s.eocd
  /\ Moved(f, P) = s.eocd

LEMMA LaidParts ==
  ASSUME NEW s, Clean(s), NEW key, NEW x, NEW P, NEW C, NEW E, NEW f, Laid(x, s, key, P, C, E, f)
  PROVE  Pieces(x, s, key, P, C, f)
<1>1. PICK A : Typed(s.payload, A) /\ Typed(s.central, A) /\ Typed(s.eocd, A)
  BY DEF Clean, Proper
<1>2. PICK B : Typed(x, B)
  BY DEF Laid
<1>3. PICK D : D = A \cup B \cup Ends \cup {PairSigned(s, key)}
  OBVIOUS
<1>4. PICK p, c, e, pair : p = s.payload /\ c = s.central /\ e = s.eocd /\ pair = PairSigned(s, key)
  OBVIOUS
<1>5. /\ P \in Nat /\ P = Len(p) /\ C \in Nat /\ C = Len(c)
      /\ E \in Nat \ {0} /\ E = Len(e) /\ E = Len(f) /\ f = Moved(e, P + 3)
      /\ Len(x) = P + 3 + C + E
      /\ \A i \in 1 .. P : x[i] = p[i]
      /\ x[P + 2] = pair
      /\ \A i \in 1 .. C : x[P + 3 + i] = c[i]
      /\ \A i \in 1 .. E : x[P + 3 + C + i] = f[i]
  BY <1>4 DEF Laid
<1>6. Typed(p, A) /\ Typed(c, A) /\ Typed(e, A) /\ EndsFile(e)
  BY <1>1, <1>4 DEF Clean, Proper
<1>7. PICK n \in Nat : n = P + 3
  BY <1>5
<1>8. /\ Typed(f, A \cup Ends) /\ EndsFile(f) /\ f[1] = [e[1] EXCEPT !.offset = n]
      /\ e[1] \in Ends /\ \A i \in 2 .. Len(e) : f[i] = e[i]
  <2>1. f = Moved(e, n)
    BY <1>5, <1>7
  <2>2. /\ Typed(Moved(e, n), A \cup Ends) /\ EndsFile(Moved(e, n))
        /\ Moved(e, n)[1] = [e[1] EXCEPT !.offset = n] /\ e[1] \in Ends /\ SameRest(Moved(e, n), e)
    BY <1>6, MovedTyped
  <2>. QED  BY <2>1, <2>2 DEF SameRest
<1>9. /\ x \in Seq(D) /\ p \in Seq(D) /\ c \in Seq(D) /\ e \in Seq(D) /\ f \in Seq(D)
      /\ pair \in D
  <2>1. A \subseteq D /\ B \subseteq D /\ A \cup Ends \subseteq D /\ pair \in D
    BY <1>3, <1>4
  <2>. QED  BY <1>2, <1>6, <1>8, <2>1, TypedMore DEF Typed
<1>10. SubSeq(x, 1, P) = p
  <2>1. \A i \in 1 .. P : 0 + i = i
    BY <1>5
  <2>2. Holds(x, 0, p)
    BY <1>5, <2>1 DEF Holds
  <2>3. Slice(x, p, 0, 1, P)
    BY <1>5, <2>2 DEF Slice
  <2>. QED  BY <1>9, <2>3, SliceHeld
<1>11. SubSeq(x, P + 2, P + 2) = <<pair>>
  <2>0. PICK t : t = <<pair>>
    OBVIOUS
  <2>1. t \in Seq(D) /\ Len(t) = 1 /\ t[1] = pair
    BY <1>9, <2>0
  <2>2. PICK k \in Nat, m \in Nat : k = P + 1 /\ m = P + 2 /\ k + 1 = m
    <3>1. P + 1 \in Nat /\ P + 2 \in Nat /\ (P + 1) + 1 = P + 2
      BY <1>5
    <3>. QED  BY <3>1
  <2>3. \A i \in 1 .. 1 : i = 1
    OBVIOUS
  <2>4. Holds(x, k, t)
    BY <1>5, <2>1, <2>2, <2>3 DEF Holds
  <2>5. PICK l : l = m /\ Slice(x, t, k, m, l)
    <3>1. k + 1 <= P + 3 + C + E
      BY <1>5, <2>2
    <3>2. Slice(x, t, k, m, m)
      BY <1>5, <2>1, <2>2, <2>4, <3>1 DEF Slice
    <3>. QED  BY <3>2
  <2>6. x \in Seq(D) /\ t \in Seq(D) /\ Slice(x, t, k, m, l)
    BY <1>9, <2>1, <2>5
  <2>7. SubSeq(x, m, l) = t
    BY <2>6, SliceHeld
  <2>. QED  BY <2>0, <2>2, <2>5, <2>7
<1>12. SubSeq(x, P + 3 + 1, P + 3 + C) = c
  <2>1. Holds(x, P + 3, c)
    BY <1>5 DEF Holds
  <2>2. Slice(x, c, P + 3, P + 3 + 1, P + 3 + C)
    BY <1>5, <2>1 DEF Slice
  <2>. QED  BY <1>9, <2>2, SliceHeld
<1>13. SubSeq(x, P + 3 + C + 1, Len(x)) = f
  <2>1. Holds(x, P + 3 + C, f)
    BY <1>5 DEF Holds
  <2>2. Slice(x, f, P + 3 + C, P + 3 + C + 1, Len(x))
    BY <1>5, <2>1 DEF Slice
  <2>. QED  BY <1>9, <2>2, SliceHeld
<1>14. <<e[1]>> \o SubSeq(x, P + 3 + C + 2, Len(x)) = e
  <2>1. PICK k \in Nat, l \in Nat : k = P + 3 + C + 1 /\ l = E - 1
    <3>1. P + 3 + C + 1 \in Nat /\ E - 1 \in Nat
      BY <1>5
    <3>. QED  BY <3>1
  <2>2. PICK t : t = [i \in 1 .. l |-> e[i + 1]]
    OBVIOUS
  <2>3. \A i \in 1 .. l : i + 1 \in 2 .. E /\ i + 1 \in 1 .. E /\ k + i = P + 3 + C + (i + 1)
    BY <1>5, <2>1
  <2>4. t \in Seq(D) /\ Len(t) = l /\ \A i \in 1 .. l : t[i] = e[i + 1]
    <3>1. \A i \in 1 .. l : e[i + 1] \in D
      BY <1>5, <1>9, <2>3, ElementOfSeq
    <3>2. t \in [1 .. l -> D]
      BY <2>2, <3>1
    <3>. QED  BY <2>2, <3>2, IsASeq, LenProperties
  <2>5. Holds(x, k, t)
    <3>1. ASSUME NEW i \in 1 .. l PROVE x[k + i] = t[i]
      <4>1. x[P + 3 + C + (i + 1)] = f[i + 1]
        BY <1>5, <2>3
      <4>2. f[i + 1] = e[i + 1]
        BY <1>5, <1>8, <2>3
      <4>. QED  BY <2>3, <2>4, <4>1, <4>2
    <3>. QED  BY <2>4, <3>1 DEF Holds
  <2>6. Slice(x, t, k, P + 3 + C + 2, Len(x))
    <3>1. k + l <= P + 3 + C + E /\ P + 3 + C + 2 = k + 1 /\ P + 3 + C + E = k + l
      BY <1>5, <2>1
    <3>. QED  BY <1>5, <2>4, <2>5, <3>1 DEF Slice
  <2>7. SubSeq(x, P + 3 + C + 2, Len(x)) = t
    BY <1>9, <2>4, <2>6, SliceHeld
  <2>8. PICK h, g : h = <<e[1]>> /\ g = h \o t
    OBVIOUS
  <2>9. h \in Seq(D) /\ Len(h) = 1 /\ h[1] = e[1]
    <3>1. e[1] \in D
      <4>1. 1 \in 1 .. Len(e)
        BY <1>5
      <4>. QED  BY <1>9, <4>1, ElementOfSeq
    <3>. QED  BY <2>8, <3>1
  <2>10. /\ g \in Seq(D) /\ Len(g) = 1 + l
         /\ \A i \in 1 .. 1 : g[i] = h[i]
         /\ \A i \in 1 .. l : g[1 + i] = t[i]
    BY <2>4, <2>8, <2>9, ConcatParts
  <2>11. \A i \in 1 .. E : g[i] = e[i]
    <3>1. ASSUME NEW i \in 1 .. E PROVE g[i] = e[i]
      <4>1. CASE i = 1
        BY <2>9, <2>10, <4>1
      <4>2. CASE i # 1
        <5>1. i - 1 \in 1 .. l /\ 1 + (i - 1) = i /\ (i - 1) + 1 = i
          BY <1>5, <2>1, <4>2
        <5>. QED  BY <2>4, <2>10, <5>1, ZenonT(30)
      <4>. QED  BY <4>1, <4>2
    <3>. QED  BY <3>1
  <2>12. g = e
    <3>1. Len(g) = Len(e)
      BY <1>5, <2>1, <2>10
    <3>. QED  BY <1>5, <1>9, <2>10, <2>11, <3>1, SeqEqual
  <2>. QED  BY <2>7, <2>8, <2>12
<1>15. Moved(f, P) = e
  <2>1. PICK g : g = Moved(f, P)
    OBVIOUS
  <2>2. /\ Typed(g, A \cup Ends \cup Ends) /\ Len(g) = Len(f) /\ g[1] = [f[1] EXCEPT !.offset = P]
        /\ \A i \in 2 .. Len(f) : g[i] = f[i]
    <3>1. Typed(f, A \cup Ends) /\ EndsFile(f) /\ P \in Nat
      BY <1>5, <1>8
    <3>2. /\ Typed(Moved(f, P), A \cup Ends \cup Ends) /\ Len(Moved(f, P)) = Len(f)
          /\ Moved(f, P)[1] = [f[1] EXCEPT !.offset = P] /\ SameRest(Moved(f, P), f)
      BY <3>1, MovedTyped
    <3>. QED  BY <2>1, <3>2 DEF SameRest
  <2>3. g[1] = e[1]
    <3>1. e[1].offset = P
      BY <1>4, <1>5 DEF Clean, Proper
    <3>. QED  BY <1>8, <2>2, <3>1 DEF Ends
  <2>4. g \in Seq(D)
    <3>1. A \cup Ends \cup Ends \subseteq D
      BY <1>3
    <3>. QED  BY <2>2, <3>1, TypedMore DEF Typed
  <2>5. \A i \in 1 .. E : g[i] = e[i]
    <3>1. \A i \in 1 .. E : i = 1 \/ i \in 2 .. E
      BY <1>5
    <3>. QED  BY <1>5, <1>8, <2>2, <2>3, <3>1
  <2>6. e \in Seq(D) /\ Len(g) = Len(e) /\ \A i \in 1 .. Len(g) : g[i] = e[i]
    BY <1>5, <1>8, <1>9, <2>2, <2>5
  <2>7. g = e
    BY <2>4, <2>6, SeqEqual
  <2>. QED  BY <2>1, <2>7
<1>. QED  BY <1>4, <1>10, <1>11, <1>12, <1>13, <1>14, <1>15, Zenon DEF Pieces

\* What is laid so is accepted, and is made of the sections it was signed of.
LEMMA LaidIsAccepted ==
  ASSUME NEW s, Clean(s), NEW key, NEW x, NEW P, NEW C, NEW E, NEW f, Laid(x, s, key, P, C, E, f)
  PROVE  /\ Apk!VerifiedSections(x) = s /\ Apk!UnsignedSections(x) = s
         /\ Apk!Verified(x) = key
<1>1. PICK end, o \in Nat : end = P + 3 + C + 1 /\ o = P + 3
  <2>1. P \in Nat /\ C \in Nat
    BY DEF Laid
  <2>2. P + 3 \in Nat /\ P + 3 + C + 1 \in Nat
    BY <2>1
  <2>. QED  BY <2>2
<1>2. /\ P \in Nat /\ P = Len(s.payload) /\ C \in Nat /\ C = Len(s.central)
      /\ E \in Nat \ {0} /\ E = Len(s.eocd)
  BY DEF Laid
<1>3. /\ Apk!FindEocd(x) = end /\ x[end].offset = o /\ x[end].comment = E - 1
      /\ Apk!SigningBlockStart(x, o) = P
  BY <1>1, LaidBorders
<1>4. /\ o + 1 = P + 3 + 1 /\ end - 1 = P + 3 + C /\ end + 1 = P + 3 + C + 2
      /\ o - 1 = P + 2 /\ end # 0 /\ P # -1
  <2>1. P \in Nat /\ C \in Nat
    BY <1>2
  <2>. QED  BY <1>1, <2>1
<1>5. /\ SubSeq(x, 1, P) = s.payload
      /\ SubSeq(x, P + 2, o - 1) = <<PairSigned(s, key)>>
      /\ SubSeq(x, o + 1, end - 1) = s.central
      /\ SubSeq(x, end, Len(x)) = f
      /\ <<s.eocd[1]>> \o SubSeq(x, end + 1, Len(x)) = s.eocd
      /\ Moved(f, P) = s.eocd
  <2>1. Pieces(x, s, key, P, C, f)
    BY LaidParts
  <2>. QED  BY <1>1, <1>4, <2>1, Zenon DEF Pieces
<1>6. s = [payload |-> s.payload, central |-> s.central, eocd |-> s.eocd]
  BY DEF Clean, Proper
<1>7. Apk!Central(x, end) = s.central
  BY <1>3, <1>5 DEF Apk!Central
<1>8. Apk!VerifiedSections(x) = s
  BY <1>3, <1>5, <1>6, <1>7 DEF Apk!VerifiedSections, Moved
<1>9. PICK A : Typed(s.central, A)
  BY DEF Clean, Proper
<1>10. PICK c : c = s.central
  OBVIOUS
<1>11. /\ \A i \in DOMAIN c : c[i].kind = "entry" /\ c[i].name \notin V1Names
       /\ \A i, j \in DOMAIN c : c[i].name = c[j].name => i = j
  <2>1. DOMAIN c = 1 .. Len(c)
    BY <1>9, <1>10, LenProperties DEF Typed
  <2>. QED  BY <1>10, <2>1 DEF Clean
<1>12. Apk!Kept(c) = c
  BY <1>9, <1>10, <1>11, KeptEntries
<1>13. Apk!UnsignedSections(x) = s
  <2>1. \A u \in Apk!Range(c) : u.kind = "entry"
    BY <1>11 DEF Apk!Range
  <2>2. Apk!IsInjective([i \in DOMAIN c |-> c[i].name])
    BY <1>11 DEF Apk!IsInjective
  <2>3. s.eocd[1] = Apk!EndRecord(C, C, P, x[end].comment)
    BY <1>2, <1>3 DEF Clean
  <2>4. PICK t : t = SubSeq(x, end + 1, Len(x))
    OBVIOUS
  <2>5. <<Apk!EndRecord(C, C, P, x[end].comment)>> \o t = s.eocd
    BY <1>5, <2>3, <2>4
  <2>6. Apk!UnsignedSections(x) =
          [payload |-> SubSeq(x, 1, P), central |-> c,
           eocd |-> <<Apk!EndRecord(C, C, P, x[end].comment)>> \o t]
    <3>1. /\ Apk!Central(x, end) = c /\ Apk!SigningBlockStart(x, x[end].offset) = P /\ Len(c) = C
      BY <1>2, <1>3, <1>7, <1>10
    <3>. QED  BY <1>3, <1>4, <1>12, <2>1, <2>2, <2>4, <3>1 DEF Apk!UnsignedSections
  <2>. QED  BY <1>5, <1>6, <1>10, <2>5, <2>6
<1>14. PICK pair : pair = PairSigned(s, key)
  OBVIOUS
<1>15. /\ pair.kind = "pair" /\ pair.id = "v2" /\ pair.public = key
       /\ pair.data = [digest |-> Apk!ChunkedDigest(s), certificate |-> key]
       /\ pair.signature = [key |-> key, of |-> pair.data]
  BY <1>14 DEF PairSigned, Apk!SigningBlock
<1>16. Apk!V2Pairs(x) = <<pair>>
  <2>1. PICK pairs, I : pairs = <<pair>> /\ I = {i \in DOMAIN pairs : pairs[i].id = "v2"}
    OBVIOUS
  <2>2. pairs \in Seq({pair}) /\ Len(pairs) = 1 /\ DOMAIN pairs = 1 .. 1 /\ pairs[1] = pair
    BY <2>1
  <2>3. \A u \in Apk!Range(pairs) : u.kind = "pair"
    BY <1>15, <2>2 DEF Apk!Range
  <2>4. Picked(pairs, I) = pairs
    <3>1. 1 .. Len(pairs) \subseteq I
      BY <1>15, <2>1, <2>2
    <3>. QED  BY <2>2, <3>1, ChosenInOrder
  <2>5. SubSeq(x, P + 2, x[end].offset - 1) = pairs
    BY <1>3, <1>5, <1>14, <2>1
  <2>6. Apk!UnitsAt(pairs, I) = pairs
    BY <2>4, ApkLibrary
  <2>. QED  BY <1>3, <1>4, <2>1, <2>3, <2>5, <2>6 DEF Apk!V2Pairs
<1>17. Apk!Verified(x) = key
  <2>1. PICK pairs : pairs = Apk!V2Pairs(x) /\ Len(pairs) = 1 /\ pairs[1] = pair
    BY <1>16
  <2>. QED  BY <1>8, <1>15, <2>1 DEF Apk!Verified
<1>. QED  BY <1>8, <1>13, <1>17

LEMMA SigningIs ==
  ASSUME NEW A, NEW a, Typed(a, A), Apk!UnsignedSections(a) # Refused, NEW key
  PROVE  LET s == Apk!UnsignedSections(a)
             x == Apk!Signed(a, key)
         IN  /\ Clean(s) /\ x = SignedAs(s, key)
             /\ Typed(x, A \cup Ends \cup BlockUnits(s, key))
             /\ Apk!VerifiedSections(x) = s /\ Apk!UnsignedSections(x) = s
             /\ Apk!Verified(x) = key
             /\ Apk!Signed(x, key) = x
<1>1. PICK s : s = Apk!UnsignedSections(a)
  OBVIOUS
<1>2. /\ Clean(s) /\ s # Refused
      /\ Typed(s.payload, A \cup Ends) /\ Typed(s.central, A \cup Ends) /\ Typed(s.eocd, A \cup Ends)
  BY <1>1, UnsignedIsClean
<1>3. PICK x : x = SignedAs(s, key)
  OBVIOUS
<1>4. Apk!Signed(a, key) = x
  BY <1>1, <1>2, <1>3 DEF Apk!Signed, SignedAs, Moved
<1>5. PICK B, P, C, E, f : /\ B = A \cup Ends
                           /\ Laid(x, s, key, P, C, E, f) /\ Typed(x, B \cup Ends \cup BlockUnits(s, key))
  <2>1. PICK B : B = A \cup Ends
    OBVIOUS
  <2>2. Proper(s) /\ Typed(s.payload, B) /\ Typed(s.central, B) /\ Typed(s.eocd, B)
    BY <1>2, <2>1 DEF Clean
  <2>3. /\ Laid(SignedAs(s, key), s, key, Len(s.payload), Len(s.central), Len(s.eocd),
                Moved(s.eocd, Len(s.payload) + 3))
        /\ Typed(SignedAs(s, key), B \cup Ends \cup BlockUnits(s, key))
    BY <2>2, SignedIsLaid
  <2>. QED  BY <1>3, <2>1, <2>3
<1>6. /\ Apk!VerifiedSections(x) = s /\ Apk!UnsignedSections(x) = s
      /\ Apk!Verified(x) = key
  BY <1>2, <1>5, LaidIsAccepted
<1>7. Apk!Signed(x, key) = x
  BY <1>2, <1>3, <1>6 DEF Apk!Signed, SignedAs, Moved
<1>8. Typed(x, A \cup Ends \cup BlockUnits(s, key))
  <2>1. B \cup Ends = A \cup Ends
    BY <1>5
  <2>. QED  BY <1>5, <2>1
<1>. QED  BY <1>1, <1>2, <1>3, <1>4, <1>6, <1>7, <1>8

\* A unit of a file, when the members of S are signed.
Kinds == {"data", "size", "pair", "magic", "entry", "eocd"}

Fine(u, S) == UnitTyped(u) /\ u.kind \in Kinds /\ Authentic(u, S)

ApkInv ==
  /\ damage \in 0 .. MaxDamage
  /\ \A s \in signed : Vouched(s)
  /\ \E A : apk \in Seq(A) /\ source \in Seq(A) /\ \A u \in A : Fine(u, signed)

LEMMA FineUnits ==
  ASSUME NEW S
  PROVE  /\ \A u \in Ends : Fine(u, S)
         /\ \A u \in Apk!Data \cup Apk!Entry : Fine(u, S)
         /\ \A u, T : Fine(u, S) /\ S \subseteq T => Fine(u, T)
<1>1. ASSUME NEW u \in Ends PROVE Fine(u, S)
  <2>1. u.kind = "eocd"
    BY DEF Ends
  <2>. QED  BY <2>1 DEF Fine, UnitTyped, Authentic, Kinds
<1>2. ASSUME NEW u \in Apk!Data \cup Apk!Entry PROVE Fine(u, S)
  <2>1. u.kind \in {"data", "entry"}
    BY DEF Apk!Data, Apk!Entry
  <2>. QED  BY <2>1 DEF Fine, UnitTyped, Authentic, Kinds
<1>3. ASSUME NEW u, NEW T, Fine(u, S), S \subseteq T PROVE Fine(u, T)
  BY <1>3 DEF Fine, Authentic
<1>. QED  BY <1>1, <1>2, <1>3

LEMMA BlockFine ==
  ASSUME NEW s, NEW key, NEW S, [key |-> key, sections |-> s] \in S
  PROVE  \A u \in BlockUnits(s, key) : Fine(u, S)
<1>1. PICK pair, r : pair = PairSigned(s, key) /\ r = [key |-> key, sections |-> s]
  OBVIOUS
<1>2. pair = [kind |-> "pair", id |-> "v2",
              data |-> [digest |-> Apk!ChunkedDigest(s), certificate |-> key], public |-> key,
              signature |-> [key |-> key, of |-> [digest |-> Apk!ChunkedDigest(s), certificate |-> key]]]
  BY <1>1 DEF PairSigned, Apk!SigningBlock
<1>3. Fine(pair, S)
  <2>1. pair.kind = "pair" /\ {"kind", "signature"} \subseteq DOMAIN pair
    BY <1>2
  <2>2. PairOf(pair, r)
    BY <1>1, <1>2 DEF PairOf
  <2>3. Authentic(pair, S)
    BY <1>1, <2>1, <2>2 DEF Authentic
  <2>. QED  BY <2>1, <2>3 DEF Fine, UnitTyped, Kinds
<1>4. \A k \in {"size", "magic"} : Fine([kind |-> k, size |-> 2], S)
  BY DEF Fine, UnitTyped, Authentic, Kinds
<1>. QED  BY <1>1, <1>3, <1>4 DEF BlockUnits

\* What is signed is fine, and vouched for.
SignedWell(x, key, A, S) ==
  /\ \A s \in Apk!SignedBy(key, x) : Vouched(s)
  /\ \E B : /\ A \subseteq B /\ x \in Seq(B)
            /\ \A u \in B : Fine(u, S \cup Apk!SignedBy(key, x))

LEMMA SignedFine ==
  ASSUME NEW A, NEW S, \A u \in A : Fine(u, S), NEW a \in Seq(A),
         Apk!UnsignedSections(a) # Refused, NEW key \in {project, foreign}
  PROVE  SignedWell(Apk!Signed(a, key), key, A, S)
<1>1. Typed(a, A)
  <2>1. \A i \in 1 .. Len(a) : a[i] \in A
    BY ElementOfSeq
  <2>. QED  BY <2>1 DEF Typed, Fine
<1>2. PICK s, x : s = Apk!UnsignedSections(a) /\ x = Apk!Signed(a, key)
  OBVIOUS
<1>3. /\ Clean(s) /\ Typed(x, A \cup Ends \cup BlockUnits(s, key))
      /\ Apk!VerifiedSections(x) = s
  BY <1>1, <1>2, SigningIs
<1>4. PICK r, T : r = [key |-> key, sections |-> s] /\ T = S \cup {r}
  OBVIOUS
<1>5. Apk!SignedBy(key, x) = {r}
  BY <1>3, <1>4 DEF Apk!SignedBy
<1>6. Vouched(r)
  BY <1>3, <1>4 DEF Vouched, Clean
<1>7. /\ \A u \in A \cup Ends : Fine(u, T)
      /\ \A u \in BlockUnits(s, key) : Fine(u, T)
  BY <1>4, FineUnits, BlockFine
<1>8. PICK B : B = A \cup Ends \cup BlockUnits(s, key)
  OBVIOUS
<1>9. A \subseteq B /\ x \in Seq(B) /\ \A u \in B : Fine(u, T)
  BY <1>3, <1>7, <1>8 DEF Typed
<1>. QED  BY <1>2, <1>4, <1>5, <1>6, <1>9 DEF SignedWell

LEMMA SignedFrom ==
  ASSUME NEW a, NEW key, Apk!Signed(a, key) # Refused
  PROVE  Apk!UnsignedSections(a) # Refused
BY DEF Apk!Signed

LEMMA ApkInitial == ASSUME Apk!SigningAssumption, Apk!Init PROVE ApkInv
<1>1. PICK a \in Apk!Archives :
        /\ \/ apk = a /\ signed = {}
           \/ /\ Apk!Signed(a, foreign) # Refused
              /\ apk = Apk!Signed(a, foreign) /\ signed = Apk!SignedBy(foreign, apk)
        /\ source = apk /\ damage = 0
  BY DEF Apk!Init
<1>2. PICK A : A = Apk!Data \cup Apk!Entry \cup Ends
  OBVIOUS
<1>3. \A S : \A u \in A : Fine(u, S)
  BY <1>2, FineUnits
<1>4. a \in Seq(A)
  <2>1. PICK p \in Apk!BoundedSeq(Apk!Data, MaxPayload),
             c \in Apk!BoundedSeq(Apk!Entry, MaxEntriesOfApk),
             d \in Apk!BoundedSeq([kind : {"data"}, value : {1}], 1) : a = Apk!Archive(p, c, d)
    BY DEF Apk!Archives
  <2>2. \A D, n : n \in Nat => Apk!BoundedSeq(D, n) \subseteq Seq(D)
    <3>1. \A D, n : n \in Nat => \A q \in Apk!BoundedSeq(D, n) : \E m \in Nat : q \in [1 .. m -> D]
      BY DEF Apk!BoundedSeq, Apk!SeqOf
    <3>. QED  BY <3>1
  <2>3. p \in Seq(Apk!Data) /\ c \in Seq(Apk!Entry) /\ d \in Seq([kind : {"data"}, value : {1}])
    BY <2>2 DEF Apk!SigningAssumption
  <2>4. p \in Seq(A) /\ c \in Seq(A) /\ d \in Seq(A)
    <3>1. Apk!Data \subseteq A /\ Apk!Entry \subseteq A /\ [kind : {"data"}, value : {1}] \subseteq A
      BY <1>2 DEF Apk!Data
    <3>. QED  BY <2>3, <3>1, SeqMonotonic
  <2>5. PICK r : r = Apk!EndRecord(Len(c), Len(c), Len(p), Len(d))
    OBVIOUS
  <2>6. r \in A
    <3>1. Len(c) \in Nat /\ Len(p) \in Nat /\ Len(d) \in Nat
      BY <2>4, LenProperties
    <3>. QED  BY <1>2, <2>5, <3>1 DEF Ends, Apk!EndRecord
  <2>7. PICK h : h = <<r>> /\ h \in Seq(A)
    <3>1. <<r>> \in Seq(A)
      BY <2>6
    <3>. QED  BY <3>1
  <2>8. a = p \o c \o h \o d
    BY <2>1, <2>5, <2>7 DEF Apk!Archive
  <2>. QED  BY <2>4, <2>7, <2>8, ConcatProperties
<1>5. damage \in 0 .. MaxDamage
  BY <1>1 DEF Apk!SigningAssumption
<1>6. CASE apk = a /\ signed = {}
  BY <1>1, <1>3, <1>4, <1>5, <1>6 DEF ApkInv
<1>7. CASE /\ Apk!Signed(a, foreign) # Refused
           /\ apk = Apk!Signed(a, foreign) /\ signed = Apk!SignedBy(foreign, apk)
  <2>1. Apk!UnsignedSections(a) # Refused
    BY <1>7, SignedFrom
  <2>2. PICK S : S = {} /\ \A u \in A : Fine(u, S)
    BY <1>3
  <2>3. SignedWell(Apk!Signed(a, foreign), foreign, A, S)
    <3>1. foreign \in {project, foreign}
      OBVIOUS
    <3>. QED  BY <1>4, <2>1, <2>2, <3>1, SignedFine
  <2>4. S \cup Apk!SignedBy(foreign, Apk!Signed(a, foreign)) = signed
    BY <1>7, <2>2
  <2>. QED  BY <1>1, <1>5, <1>7, <2>3, <2>4 DEF ApkInv, SignedWell
<1>. QED  BY <1>1, <1>6, <1>7

\* What a unit is changed into is fine.
LEMMA OthersFine ==
  ASSUME NEW A, NEW S, \A u \in A : Fine(u, S), NEW a \in Seq(A), NEW v \in Apk!Others(a)
  PROVE  Fine(v, S)
<1>1. \A u \in Apk!Range(a) : u \in A
  <2>1. \A i \in DOMAIN a : a[i] \in A
    <3>1. DOMAIN a = 1 .. Len(a)
      BY LenProperties
    <3>. QED  BY <3>1, ElementOfSeq
  <2>. QED  BY <2>1 DEF Apk!Range
<1>2. \/ v \in Apk!Range(a)
      \/ v \in Apk!Data \cup Apk!Entry
      \/ \E u \in Apk!Range(a) : \E n :
            /\ u.kind = "eocd" /\ n \in 0 .. (u.offset + u.size)
            /\ v = [u EXCEPT !.offset = n, !.size = u.offset + u.size - n]
      \/ \E u \in Apk!Range(a) : u.kind = "eocd" /\ v = [u EXCEPT !.entries = @ + 1]
      \/ \E u \in Apk!Range(a) :
            u.kind = "pair" /\ v = [u EXCEPT !.public = project, !.data.certificate = project]
      \/ \E u \in Apk!Range(a) : u.kind = "pair" /\ v = [u EXCEPT !.id = "v3"]
  <2>1. \/ v \in Apk!Range(a) \/ v \in Apk!Data \cup Apk!Entry
        \/ \E u \in Apk!Range(a) : v \in Apk!Changes(u)
    BY DEF Apk!Others
  <2>2. ASSUME NEW u, v \in Apk!Changes(u), u.kind = "eocd"
        PROVE  \/ v = [u EXCEPT !.entries = @ + 1]
               \/ \E n : n \in 0 .. (u.offset + u.size)
                         /\ v = [u EXCEPT !.offset = n, !.size = u.offset + u.size - n]
    BY <2>2 DEF Apk!Changes
  <2>3. ASSUME NEW u, v \in Apk!Changes(u), u.kind = "pair"
        PROVE  \/ v = [u EXCEPT !.public = project, !.data.certificate = project]
               \/ v = [u EXCEPT !.id = "v3"]
    BY <2>3 DEF Apk!Changes
  <2>4. ASSUME NEW u, v \in Apk!Changes(u), u.kind \notin {"eocd", "pair"}
        PROVE  FALSE
    BY <2>4 DEF Apk!Changes
  <2>. QED  BY <2>1, <2>2, <2>3, <2>4
<1>3. CASE v \in Apk!Range(a)
  BY <1>1, <1>3
<1>4. CASE v \in Apk!Data \cup Apk!Entry
  BY <1>4, FineUnits
<1>5. ASSUME NEW u \in Apk!Range(a), NEW n, u.kind = "eocd", n \in 0 .. (u.offset + u.size),
             v = [u EXCEPT !.offset = n, !.size = u.offset + u.size - n]
      PROVE  Fine(v, S)
  <2>1. u \in Ends
    BY <1>1, <1>5 DEF Fine, UnitTyped
  <2>2. u.offset \in Nat /\ u.size \in Nat
    BY <2>1 DEF Ends
  <2>3. n \in Nat /\ u.offset + u.size - n \in Nat
    BY <1>5, <2>2
  <2>4. v \in Ends
    BY <1>5, <2>1, <2>3 DEF Ends
  <2>. QED  BY <2>4, FineUnits
<1>6. ASSUME NEW u \in Apk!Range(a), u.kind = "eocd", v = [u EXCEPT !.entries = @ + 1]
      PROVE  Fine(v, S)
  <2>1. u \in Ends
    BY <1>1, <1>6 DEF Fine, UnitTyped
  <2>2. v \in Ends
    BY <1>6, <2>1 DEF Ends
  <2>. QED  BY <2>2, FineUnits
<1>7. ASSUME NEW u \in Apk!Range(a), u.kind = "pair",
             \/ v = [u EXCEPT !.public = project, !.data.certificate = project]
             \/ v = [u EXCEPT !.id = "v3"]
      PROVE  Fine(v, S)
  <2>1. {"kind", "signature"} \subseteq DOMAIN u /\ \E s \in S : PairOf(u, s)
    BY <1>1, <1>7 DEF Fine, Authentic
  <2>2. DOMAIN v = DOMAIN u /\ v.kind = "pair" /\ v.signature = u.signature
    BY <1>7, <2>1
  <2>3. Authentic(v, S)
    BY <2>1, <2>2 DEF Authentic, PairOf
  <2>. QED  BY <2>2, <2>3 DEF Fine, UnitTyped, Kinds
<1>. QED  BY <1>2, <1>3, <1>4, <1>5, <1>6, <1>7

LEMMA DamagedFile ==
  ASSUME NEW A, NEW a \in Seq(A), NEW v, NEW i \in DOMAIN a
  PROVE  /\ [a EXCEPT ![i] = v] \in Seq(A \cup {v})
         /\ Apk!RemoveAt(a, i) \in Seq(A \cup {v})
         /\ Apk!InsertAt(a, i, v) \in Seq(A \cup {v})
<1>1. PICK B : B = A \cup {v}
  OBVIOUS
<1>2. PICK n \in Nat : n = Len(a) /\ DOMAIN a = 1 .. n
  BY LenProperties
<1>3. \A j \in 1 .. n : a[j] \in B
  BY <1>1, <1>2, ElementOfSeq
<1>4. a \in Seq(B) /\ i \in 1 .. n /\ v \in B
  <2>1. A \subseteq B
    BY <1>1
  <2>. QED  BY <1>1, <1>2, <2>1, SeqMonotonic
<1>5. [a EXCEPT ![i] = v] \in Seq(B)
  BY <1>4
<1>6. \A j, k \in Int : 1 <= j /\ k <= n => SubSeq(a, j, k) \in Seq(B)
  <2>1. ASSUME NEW j \in Int, NEW k \in Int, 1 <= j, k <= n PROVE SubSeq(a, j, k) \in Seq(B)
    <3>1. \A l \in j .. k : a[l] \in B
      BY <1>3, <2>1
    <3>. QED  BY <3>1, SubSeqProperties
  <2>. QED  BY <2>1
<1>7. SubSeq(a, 1, i - 1) \in Seq(B) /\ SubSeq(a, i + 1, n) \in Seq(B) /\ SubSeq(a, i, n) \in Seq(B)
  BY <1>4, <1>6
<1>8. <<v>> \in Seq(B)
  BY <1>4
<1>9. PICK x, y, z, h : /\ x = SubSeq(a, 1, i - 1) /\ y = SubSeq(a, i + 1, n)
                        /\ z = SubSeq(a, i, n) /\ h = <<v>>
  OBVIOUS
<1>10. x \o y \in Seq(B) /\ x \o h \o z \in Seq(B)
  BY <1>7, <1>8, <1>9, ConcatProperties
<1>11. Apk!RemoveAt(a, i) = x \o y /\ Apk!InsertAt(a, i, v) = x \o h \o z
  BY <1>2, <1>9 DEF Apk!RemoveAt, Apk!InsertAt
<1>. QED  BY <1>1, <1>5, <1>10, <1>11

LEMMA ApkStep == ASSUME Apk!SigningAssumption, ApkInv, Apk!Next PROVE ApkInv'
<1>1. PICK A : apk \in Seq(A) /\ source \in Seq(A) /\ \A u \in A : Fine(u, signed)
  BY DEF ApkInv
<1>2. PICK a, S : a = apk /\ S = signed
  OBVIOUS
<1>3. ASSUME Apk!Sign PROVE ApkInv'
  <2>1. /\ Apk!Signed(a, project) # Refused
        /\ apk' = Apk!Signed(a, project) /\ source' = a
        /\ signed' = S \cup Apk!SignedBy(project, Apk!Signed(a, project))
        /\ damage' = damage
    BY <1>2, <1>3 DEF Apk!Sign
  <2>2. SignedWell(Apk!Signed(a, project), project, A, S)
    <3>1. Apk!UnsignedSections(a) # Refused
      BY <2>1, SignedFrom
    <3>2. project \in {project, foreign} /\ a \in Seq(A) /\ \A u \in A : Fine(u, S)
      BY <1>1, <1>2
    <3>. QED  BY <3>1, <3>2, SignedFine
  <2>3. PICK B : /\ A \subseteq B /\ apk' \in Seq(B)
                 /\ \A u \in B : Fine(u, signed')
    BY <2>1, <2>2 DEF SignedWell
  <2>4. source' \in Seq(B)
    BY <1>1, <1>2, <2>1, <2>3, SeqMonotonic
  <2>5. \A s \in signed' : Vouched(s)
    BY <1>2, <2>1, <2>2 DEF ApkInv, SignedWell
  <2>. QED  BY <2>1, <2>3, <2>4, <2>5 DEF ApkInv
<1>4. ASSUME Apk!Damage PROVE ApkInv'
  <2>1. /\ damage < MaxDamage /\ damage' = damage + 1 /\ source' = source /\ signed' = signed
    BY <1>4 DEF Apk!Damage
  <2>2. damage' \in 0 .. MaxDamage
    BY <2>1 DEF ApkInv, Apk!SigningAssumption
  <2>3. \E v : Fine(v, S) /\ apk' \in Seq(A \cup {v})
    <3>1. CASE \E i \in DOMAIN apk, u \in Apk!Others(apk) :
                 apk' = [apk EXCEPT ![i] = u] \/ apk' = Apk!InsertAt(apk, i, u)
      <4>1. PICK i \in DOMAIN a, u \in Apk!Others(a) :
              apk' = [a EXCEPT ![i] = u] \/ apk' = Apk!InsertAt(a, i, u)
        BY <1>2, <3>1
      <4>2. Fine(u, S)
        BY <1>1, <1>2, OthersFine
      <4>3. apk' \in Seq(A \cup {u})
        BY <1>1, <1>2, <4>1, DamagedFile
      <4>. QED  BY <4>2, <4>3
    <3>2. CASE \E i \in DOMAIN apk : apk' = Apk!RemoveAt(apk, i)
      <4>1. PICK i \in DOMAIN a : apk' = Apk!RemoveAt(a, i)
        BY <1>2, <3>2
      <4>2. a[i] \in A
        <5>1. DOMAIN a = 1 .. Len(a) /\ a \in Seq(A)
          BY <1>1, <1>2, LenProperties
        <5>. QED  BY <5>1, ElementOfSeq
      <4>3. Fine(a[i], S) /\ apk' \in Seq(A \cup {a[i]})
        BY <1>1, <1>2, <4>1, <4>2, DamagedFile
      <4>. QED  BY <4>3
    <3>. QED  BY <1>4, <3>1, <3>2 DEF Apk!Damage
  <2>4. PICK v, B : B = A \cup {v} /\ Fine(v, S) /\ apk' \in Seq(B)
    BY <2>3
  <2>5. source' \in Seq(B) /\ \A u \in B : Fine(u, signed')
    <3>1. A \subseteq B
      BY <2>4
    <3>. QED  BY <1>1, <1>2, <2>1, <2>4, <3>1, SeqMonotonic
  <2>. QED  BY <2>1, <2>2, <2>4, <2>5 DEF ApkInv
<1>. QED  BY <1>3, <1>4 DEF Apk!Next

LEMMA ApkProperties ==
  ASSUME Apk!SigningAssumption, ApkInv
  PROVE  Apk!TypeOK /\ Apk!SigningIsStable /\ Apk!AcceptedIsSigned
<1>1. PICK A : apk \in Seq(A) /\ source \in Seq(A) /\ \A u \in A : Fine(u, signed)
  BY DEF ApkInv
<1>2. \A a \in Seq(A) : DOMAIN a = 1 .. Len(a) /\ \A i \in 1 .. Len(a) : a[i] \in A
  BY ElementOfSeq, LenProperties
<1>3. \A a \in Seq(A) : Typed(a, A)
  BY <1>1, <1>2 DEF Typed, Fine
<1>4. Apk!TypeOK
  <2>1. \A u \in Apk!Range(apk) \cup Apk!Range(source) : u \in A
    BY <1>1, <1>2 DEF Apk!Range
  <2>. QED  BY <1>1, <2>1 DEF ApkInv, Vouched, Fine, Kinds, Apk!TypeOK
<1>5. Apk!SigningIsStable
  <2>. SUFFICES ASSUME Apk!UnsignedSections(source) # Refused, apk = Apk!Signed(source, project)
               PROVE  /\ Apk!Verified(apk) = project
                      /\ Apk!VerifiedSections(apk) = Apk!UnsignedSections(source)
                      /\ Apk!Signed(apk, project) = apk
    BY DEF Apk!SigningIsStable
  <2>1. PICK a, x, s : /\ a = source /\ x = apk /\ s = Apk!UnsignedSections(a)
                       /\ x = Apk!Signed(a, project) /\ s # Refused /\ Typed(a, A)
    BY <1>1, <1>3
  <2>2. /\ Apk!VerifiedSections(x) = s /\ Apk!Verified(x) = project /\ Apk!Signed(x, project) = x
    <3>1. Typed(a, A) /\ Apk!UnsignedSections(a) # Refused
      BY <2>1
    <3>2. /\ Apk!VerifiedSections(Apk!Signed(a, project)) = Apk!UnsignedSections(a)
          /\ Apk!Verified(Apk!Signed(a, project)) = project
          /\ Apk!Signed(Apk!Signed(a, project), project) = Apk!Signed(a, project)
      BY <3>1, SigningIs, ZenonT(30)
    <3>. QED  BY <2>1, <3>2
  <2>. QED  BY <2>1, <2>2
<1>6. Apk!AcceptedIsSigned
  <2>. SUFFICES ASSUME Apk!Verified(apk) # Refused
               PROVE  [key |-> Apk!Verified(apk), sections |-> Apk!VerifiedSections(apk)] \in signed
    BY DEF Apk!AcceptedIsSigned
  <2>1. PICK a, S : a = apk /\ S = signed /\ Typed(a, A) /\ a \in Seq(A)
    BY <1>1, <1>3
  <2>2. /\ \A i \in 1 .. Len(a) : Authentic(a[i], S)
        /\ \A s \in S : Vouched(s)
    BY <1>1, <1>2, <2>1 DEF Fine, ApkInv
  <2>3. Chunk \in Nat \ {0}
    BY DEF Apk!SigningAssumption
  <2>4. [key |-> Apk!Verified(a), sections |-> Apk!VerifiedSections(a)] \in S
    BY <2>1, <2>2, <2>3, AcceptedSigned
  <2>. QED  BY <2>1, <2>4
<1>. QED  BY <1>4, <1>5, <1>6

-----------------------------------------------------------------------------
(* The formats as a whole *)

\* What holds of one format is not touched by steps that leave its variables.
LEMMA SparseStutter ==
  ASSUME SparseInv, UNCHANGED <<sparseOnly, pc>> PROVE SparseInv'
<1>1. /\ header' = header /\ read' = read /\ tell' = tell /\ output_cursor' = output_cursor
      /\ chunks' = chunks /\ pc' = pc
  BY DEF sparseOnly
<1>2. Sparse!Payloads' = Sparse!Payloads
  BY <1>1 DEF Sparse!Payloads
<1>3. Sparse!Expanded' = Sparse!Expanded
  <2>1. \A i : Sparse!ChunkBytes(i)' = Sparse!ChunkBytes(i)
    <3>1. \A i : Sparse!PayloadAt(i)' = Sparse!PayloadAt(i)
      BY <1>2 DEF Sparse!PayloadAt
    <3>. QED  BY <1>1, <3>1 DEF Sparse!ChunkBytes
  <2>. QED  BY <1>1, <2>1 DEF Sparse!Expanded
<1>4. Sparse!ImageSize' = Sparse!ImageSize
  BY <1>1 DEF Sparse!ImageSize
<1>. QED  BY <1>1, <1>2, <1>3, <1>4 DEF SparseInv

LEMMA LpStutter ==
  ASSUME LpInv, UNCHANGED <<lpOnly, pc, output, position>> PROVE LpInv'
<1>1. /\ request' = request /\ slot' = slot /\ copy' = copy /\ slots' = slots
      /\ tables_size' = tables_size /\ layout' = layout /\ devices' = devices
      /\ extents' = extents /\ partitions' = partitions /\ at' = at /\ extent' = extent
      /\ files' = files /\ pc' = pc /\ output' = output /\ position' = position
  BY DEF lpOnly
<1>2. LpTypes'
  BY <1>1 DEF LpInv, LpTypes
<1>3. /\ TablesRead' <=> TablesRead
      /\ DevicesRead' <=> DevicesRead
      /\ Lp!Accepted' <=> Lp!Accepted
      /\ Lp!DevicesFit' <=> Lp!DevicesFit
      /\ \A e : Lp!ExtentFits(e)' <=> Lp!ExtentFits(e)
  BY <1>1 DEF TablesRead, DevicesRead, Lp!Accepted, Lp!DevicesFit, Lp!ExtentFits
<1>4. Lp!TablesTile' <=> Lp!TablesTile
  BY <1>1 DEF Lp!TablesTile, Lp!Nonempty
<1>5. /\ \A n : Lp!Named(n)' = Lp!Named(n)
      /\ \A p : Lp!Selected(p)' = Lp!Selected(p)
  BY <1>1 DEF Lp!Named, Lp!Selected
<1>6. \A p, n : Image(p, n)' = Image(p, n)
  BY <1>5 DEF Image
<1>7. \A n : Expected(n)' = Expected(n)
  BY <1>5, <1>6 DEF Expected
<1>8. Copied' <=> Copied
  BY <1>1, <1>5, <1>6 DEF Copied, Current
<1>. QED  BY <1>1, <1>2, <1>3, <1>4, <1>7, <1>8 DEF LpInv

LEMMA SdatStutter ==
  ASSUME SdatInv, UNCHANGED <<sdatOnly, pc, output, position>> PROVE SdatInv'
BY DEF sdatOnly, SdatInv, Sdat!FinalRanges, Sdat!RangesOf, Sdat!Wanted, Transferred

LEMMA ApkStutter ==
  ASSUME ApkInv, UNCHANGED apkOnly PROVE ApkInv'
BY DEF apkOnly, ApkInv

LEMMA DexStutter ==
  ASSUME DexInv, UNCHANGED <<dexOnly, pc>> PROVE DexInv'
BY DEF dexOnly, DexInv, DexTypes, InventoryInv, ReportInv, Dex!Defines, Dex!Needs

FormatsInv ==
  /\ format \in {"sparse", "lp", "sdat", "apk", "dex"}
  /\ format = "sparse" => SparseInv
  /\ format = "lp" => LpInv
  /\ format = "sdat" => SdatInv
  /\ format = "apk" => ApkInv
  /\ format = "dex" => DexInv

LEMMA FormatsInitial == Init => FormatsInv
  BY Assumption, SparseInitial, LpInitial, SdatInitial, ApkInitial, DexInitial
     DEF Assumption, Init, FormatsInv

LEMMA FormatsStep == FormatsInv /\ [Next]_vars => FormatsInv'
<1>. SUFFICES ASSUME FormatsInv, [Next]_vars PROVE FormatsInv'
  OBVIOUS
<1>1. /\ Sparse!SparseAssumption /\ Lp!LpAssumption /\ Sdat!SdatAssumption
      /\ Apk!SigningAssumption /\ Dex!DexAssumption
  BY Assumption DEF Assumption
<1>2. format' = format
  BY DEF Next, vars
<1>3. CASE format = "sparse"
  <2>1. Sparse!Next \/ UNCHANGED <<sparseOnly, pc>>
    BY <1>3 DEF Next, vars
  <2>2. SparseInv'
    BY <1>1, <1>3, <2>1, SparseStep, SparseStutter DEF FormatsInv
  <2>. QED  BY <1>2, <1>3, <2>2 DEF FormatsInv
<1>4. CASE format = "lp"
  <2>1. Lp!Next \/ UNCHANGED <<lpOnly, pc, output, position>>
    BY <1>4 DEF Next, vars
  <2>2. LpInv'
    BY <1>1, <1>4, <2>1, LpStep, LpStutter DEF FormatsInv
  <2>. QED  BY <1>2, <1>4, <2>2 DEF FormatsInv
<1>5. CASE format = "sdat"
  <2>1. Sdat!Next \/ UNCHANGED <<sdatOnly, pc, output, position>>
    BY <1>5 DEF Next, vars
  <2>2. SdatInv'
    BY <1>1, <1>5, <2>1, SdatStep, SdatStutter DEF FormatsInv
  <2>. QED  BY <1>2, <1>5, <2>2 DEF FormatsInv
<1>6. CASE format = "apk"
  <2>1. Apk!Next \/ UNCHANGED apkOnly
    BY <1>6 DEF Next, vars
  <2>2. ApkInv'
    BY <1>1, <1>6, <2>1, ApkStep, ApkStutter DEF FormatsInv
  <2>. QED  BY <1>2, <1>6, <2>2 DEF FormatsInv
<1>7. CASE format = "dex"
  <2>1. Dex!Next \/ UNCHANGED <<dexOnly, pc>>
    BY <1>7 DEF Next, vars
  <2>2. DexInv'
    BY <1>1, <1>7, <2>1, DexStep, DexStutter DEF FormatsInv
  <2>. QED  BY <1>2, <1>7, <2>2 DEF FormatsInv
<1>. QED  BY <1>3, <1>4, <1>5, <1>6, <1>7 DEF FormatsInv

LEMMA FormatsProperties ==
  ASSUME FormatsInv
  PROVE  /\ TypeOK /\ AcceptedIsSound /\ RangeIsSlice /\ PartitionIsMapped /\ ImageIsTransferred
         /\ SigningIsStable /\ AcceptedIsSigned /\ ResolutionIsExact
<1>1. /\ Sparse!SparseAssumption /\ Lp!LpAssumption /\ Sdat!SdatAssumption
      /\ Apk!SigningAssumption /\ Dex!DexAssumption
  BY Assumption DEF Assumption
<1>2. format = "sparse" => Sparse!TypeOK /\ Sparse!OpenIsWhole /\ Sparse!RangeIsSlice
  BY <1>1, SparseProperties, SparseRanges DEF FormatsInv
<1>3. format = "lp" => Lp!TypeOK /\ Lp!MetadataIsSound /\ Lp!PartitionIsMapped
  BY <1>1, LpProperties DEF FormatsInv
<1>4. format = "sdat" => Sdat!TypeOK /\ Sdat!ImageIsTransferred
  BY <1>1, SdatProperties DEF FormatsInv
<1>5. format = "apk" => Apk!TypeOK /\ Apk!SigningIsStable /\ Apk!AcceptedIsSigned
  BY <1>1, ApkProperties DEF FormatsInv
<1>6. format = "dex" => Dex!TypeOK /\ Dex!ResolutionIsExact
  BY <1>1, DexProperties DEF FormatsInv
<1>. QED  BY <1>2, <1>3, <1>4, <1>5, <1>6
          DEF TypeOK, AcceptedIsSound, RangeIsSlice, PartitionIsMapped, ImageIsTransferred,
              SigningIsStable, AcceptedIsSigned, ResolutionIsExact

LEMMA FormatsInvariant == Spec => []FormatsInv
  BY FormatsInitial, FormatsStep, PTL DEF Spec

\* The parsers, the converters and the signer keep their variables in the types
\* their code gives them: no read beyond a table, no negative position.
THEOREM TypesHold == Spec => []TypeOK
  BY FormatsInvariant, FormatsProperties, PTL

\* A sparse image that was opened covers its output without gap or overlap, and
\* LP metadata that was accepted tiles its tables and stays in the image
\* (SparseImage.__init__, _parse_lp_metadata_at): of any size.
THEOREM AcceptedIsWhole == Spec => []AcceptedIsSound
  BY FormatsInvariant, FormatsProperties, PTL

\* read_at and copy_range of SparseImage return that slice of the expanded image
\* for every range of every image: chunk borders, the phase of a fill pattern,
\* holes and the pieces of a copy make no difference.
THEOREM RangesSliced == Spec => []RangeIsSlice
  BY FormatsInvariant, FormatsProperties, PTL

\* Each partition that extract_lp_partitions publishes is its extents, from the
\* first to the last, with the zeros at its end.
THEOREM PartitionsMapped == Spec => []PartitionIsMapped
  BY FormatsInvariant, FormatsProperties, PTL

\* Every block of new.dat is in its place in the image that convert_sdat makes,
\* and in no other, for every transfer list that parse_transfer_list accepts.
THEOREM ImagesTransferred == Spec => []ImageIsTransferred
  BY FormatsInvariant, FormatsProperties, PTL

\* What sign_apk publishes is accepted by verify_apk as the project's, keeps the
\* contents of its source, and is not changed by signing it again.
THEOREM SigningStable == Spec => []SigningIsStable
  BY FormatsInvariant, FormatsProperties, PTL

\* What verify_apk accepts was signed so by the key it names: the digest tells
\* all sections and the borders between them apart.
THEOREM AcceptedWasSigned == Spec => []AcceptedIsSigned
  BY FormatsInvariant, FormatsProperties, PTL

\* dex_resolution_report names the classes a package refers to and neither it
\* nor any provider defines, for any archives in any order.
THEOREM ResolutionExact == Spec => []ResolutionIsExact
  BY FormatsInvariant, FormatsProperties, PTL
=============================================================================
