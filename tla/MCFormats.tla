------------------------------ MODULE MCFormats ------------------------------
(***************************************************************************)
(* Small instances of the formats of Formats.                              *)
(***************************************************************************)
EXTENDS Formats

CONSTANTS
    system, vendor, app, mf, framework, phone, TranClass

\* One partition of up to two extents and up to two devices in one group.
MCMaxEntries == <<1, 2, 1, 2>>
\* A device that begins inside or behind the metadata, and is empty, as large as
\* the image or larger.
MCFirstSectors == {Reserved, Reserved + 2 * MaxSlots}
MCDeviceSizes == {0, ImageSectors, ImageSectors + 1}
MCNames == {system, vendor}
MCRequests == {<<system>>}
\* A member that stays and one of a v1 signature; one class of the vendor;
\* a package with the identifier of the provider.
MCEntryNames == {app, mf}
MCV1Names == {mf}
MCProviders == <<framework>>
MCPackages == <<framework, phone>>
MCClasses == {TranClass}
==============================================================================
