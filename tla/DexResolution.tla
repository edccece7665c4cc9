---------------------------- MODULE DexResolution ----------------------------
(***************************************************************************)
(* tools/compatctl.py, dex_resolution_report: which classes of the vendor  *)
(* (with a custom prefix) the selected packages need that neither they nor *)
(* a provider defines.  Archives are read one by one, the providers first, *)
(* each member (classes.dex, classes2.dex, ...) after the other.           *)
(*                                                                         *)
(* What a member holds is revealed as it is read: its type descriptors and *)
(* those of its class definitions.  A descriptor is that of a class, of an *)
(* array of its objects, or of anything without a class (primitive).       *)
(***************************************************************************)
EXTENDS Integers, Sequences, SequencesExt

CONSTANTS
    Providers, Packages,    \* sequences: sorted(providers), sorted(packages)
    Classes,                \* object descriptors
    Custom,                 \* those with one of custom_prefixes
    primitive,              \* any other descriptor
    MaxMembers              \* bound: DEX members of an archive

VARIABLES
    reading,        \* place of the archive in Providers \o Packages
    members,        \* its members so far
    contents,       \* what they hold
    defined, referenced,    \* what archive_dex_inventory has of it
    class_providers,        \* the providers of each class
    unresolved,     \* unresolved_external_classes of each package
    held,           \* contents of every archive read to its end
    dpc

vars == <<reading, members, contents, defined, referenced, class_providers, unresolved, held, dpc>>

\* _named_paths takes no identifier twice in one list; a package may have the
\* identifier of a provider.
DexAssumption ==
    /\ Custom \subseteq Classes /\ primitive \notin Classes /\ MaxMembers \in Nat \ {0}
    /\ Providers \in Seq(Range(Providers)) /\ Providers # <<>>
    /\ Packages \in Seq(Range(Packages)) /\ Packages # <<>>
    /\ IsInjective(Providers) /\ IsInjective(Packages)

Descriptor == [array : BOOLEAN, base : Classes] \cup [array : {FALSE}, base : {primitive}]

\* dex_inventory finds each class index inside the type table.
Member == {m \in [types : SUBSET Descriptor, definitions : BoundedSeq(Descriptor, 2)] :
              Range(m.definitions) \subseteq m.types}

\* _object_descriptor of each: arrays stripped, primitives left out.
ObjectDescriptors(types) == {t.base : t \in types} \ {primitive}

Archives == Providers \o Packages
Archive  == Archives[reading]

Nothing == [types |-> {}, definitions |-> {}]

Init ==
    /\ reading = 1 /\ members = 0 /\ contents = Nothing /\ defined = {} /\ referenced = {}
    /\ class_providers = [c \in Classes |-> {}]
    /\ unresolved = [p \in Range(Packages) |-> {}]
    /\ held = <<>> /\ dpc = "read"

\* dex_inventory: no class twice, no definition of a primitive.
Accepted(m) ==
    /\ \A i \in DOMAIN m.definitions : m.definitions[i].base # primitive
    /\ \A i, j \in DOMAIN m.definitions :
          m.definitions[i].base = m.definitions[j].base => i = j

\* archive_dex_inventory: no class in two members either.
ReadMember ==
    /\ dpc = "read" /\ members < MaxMembers
    /\ \E m \in Member :
          LET classes == ObjectDescriptors(Range(m.definitions))
          IN  IF Accepted(m) /\ defined \cap classes = {}
              THEN /\ members' = members + 1
                   /\ contents' = [types |-> contents.types \cup m.types,
                                   definitions |-> contents.definitions \cup Range(m.definitions)]
                   /\ defined' = defined \cup classes
                   /\ referenced' = referenced \cup ObjectDescriptors(m.types)
                   /\ UNCHANGED dpc
              ELSE dpc' = "refused" /\ UNCHANGED <<members, contents, defined, referenced>>
    /\ UNCHANGED <<reading, class_providers, unresolved, held>>

\* Mutant: the classes of an archive still count for the next one.
NextArchive_KeepsDefined ==
    /\ dpc = "read" /\ members > 0
    /\ held' = Append(held, contents) /\ members' = 0 /\ contents' = Nothing
    /\ referenced' = {} /\ UNCHANGED defined
    /\ IF reading < Len(Archives) THEN reading' = reading + 1 /\ UNCHANGED dpc
                                  ELSE dpc' = "done" /\ UNCHANGED reading

\* The next archive, or the end.
NextArchive ==
    /\ dpc = "read" /\ members > 0
    /\ held' = Append(held, contents) /\ members' = 0 /\ contents' = Nothing
    /\ defined' = {} /\ referenced' = {}
    /\ IF reading < Len(Archives) THEN reading' = reading + 1 /\ UNCHANGED dpc
                                  ELSE dpc' = "done" /\ UNCHANGED reading

ProviderEnds ==
    /\ reading <= Len(Providers) /\ NextArchive
    /\ class_providers' = [c \in Classes |->
          IF c \in defined THEN class_providers[c] \cup {Archive} ELSE class_providers[c]]
    /\ UNCHANGED unresolved

PackageEnds ==
    /\ reading > Len(Providers) /\ NextArchive
    /\ LET external == referenced \ defined
       IN  unresolved' = [unresolved EXCEPT
              ![Archive] = {c \in external \cap Custom : class_providers[c] = {}}]
    /\ UNCHANGED class_providers

Next == ReadMember \/ ProviderEnds \/ PackageEnds

Spec == Init /\ [][Next]_vars

TypeOK ==
    /\ reading \in 1..Len(Archives) /\ dpc \in {"read", "refused", "done"}
    /\ defined \subseteq Classes /\ referenced \subseteq Classes
    /\ class_providers \in [Classes -> SUBSET Range(Providers)]
    /\ unresolved \in [Range(Packages) -> SUBSET Custom]
    /\ members \in 0..MaxMembers /\ Len(held) <= Len(Archives)

----------------------------------------------------------------------------
(* Properties *)

Defines(a, c) == \E d \in held[a].definitions : d.base = c
Needs(a, c)   == \E d \in held[a].types : d.base = c

\* A class is reported as unresolved for exactly the packages some member of
\* which names it, even as an array only, while no member of the package and
\* no member of a provider defines it: neither the order of the archives nor
\* the member a class stands in matters.
ResolutionIsExact ==
    dpc = "done" =>
        \A p \in DOMAIN Packages, c \in Custom :
            LET own == Len(Providers) + p
            IN  c \in unresolved[Packages[p]] <=>
                  /\ Needs(own, c) /\ ~Defines(own, c)
                  /\ \A v \in DOMAIN Providers : ~Defines(v, c)
==============================================================================
