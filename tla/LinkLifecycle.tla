---------------------------- MODULE LinkLifecycle ----------------------------
(***************************************************************************)
(* The loop the two command line tools close over shared files:            *)
(* cmd/courses-data builds the catalogue from the source exports without   *)
(* the tombstoned links, cmd/courses-link-audit (module LinkAudit) audits  *)
(* the links of that catalogue and tombstones the dead ones.  The tools    *)
(* run side by side and share no lock.                                     *)
(***************************************************************************)
EXTENDS LinkAudit

\* Any set of links can be a catalogue: which one it is, the builder decides.
ASSUME CataloguesAssumption == Catalogues = SUBSET Links

VARIABLES
  sources,   \* links of the source exports on disk, which only accumulate
  builder,   \* where the (one) build is: "idle", "loaded", "read"
  filter,    \* links the build's tombstones name
  accepted,  \* links of the catalogue the build is about to publish
  dropped    \* history: links some published catalogue left out as tombstoned

builderVars == <<sources, builder, filter, accepted, dropped>>
allVars     == <<vars, builderVars>>

Tombstoned == {link \in Links : tombstones[link] # NoTombstone}

LifecycleInit ==
  /\ Init
  /\ sources = catalog
  /\ builder = "idle"
  /\ filter = {}
  /\ accepted = {}
  /\ dropped = {}

\* A new export arrives (written by hand or by the exporter, outside src/).
\* Snapshots are merged, so a link once exported stays in the sources.
NewSnapshot ==
  /\ \E links \in SUBSET Links : sources' = sources \cup links
  /\ UNCHANGED <<vars, builder, filter, accepted, dropped>>

\* buildFilesWithLinkEnrichment: the side files are loaded first ...
LoadFilters ==
  /\ builder = "idle"
  /\ builder' = "loaded"
  /\ filter' = Tombstoned
  /\ UNCHANGED <<vars, sources, accepted, dropped>>

M_BuildUnfiltered ==
  /\ builder = "loaded"
  /\ builder' = "read"
  /\ accepted' = sources
  /\ UNCHANGED <<vars, sources, filter, dropped>>

\* ... then the exports are read and built into a temporary file, every
\* occurrence of a tombstoned link left out (links and torrents alike) ...
BuildCatalog ==
  /\ builder = "loaded"
  /\ builder' = "read"
  /\ accepted' = sources \ filter
  /\ UNCHANGED <<vars, sources, filter, dropped>>

\* ... which a rename makes the catalogue.
PublishCatalog ==
  /\ builder = "read"
  /\ builder' = "idle"
  /\ catalog' = accepted
  /\ dropped' = dropped \cup filter
  /\ filter' = {}
  /\ accepted' = {}
  /\ UNCHANGED <<files, pc, cancelled, locals, sources>>

\* Any error, or the death of the process, leaves the old catalogue.
AbandonBuild ==
  /\ builder # "idle"
  /\ builder' = "idle"
  /\ filter' = {}
  /\ accepted' = {}
  /\ UNCHANGED <<vars, sources, dropped>>

LifecycleNext ==
  \/ NewSnapshot \/ LoadFilters \/ BuildCatalog \/ PublishCatalog \/ AbandonBuild
  \/ \E r \in Runs : RunStep(r) /\ UNCHANGED builderVars

LifecycleSpec == LifecycleInit /\ [][LifecycleNext]_allVars

-----------------------------------------------------------------------------
LifecycleTypeOK ==
  /\ TypeOK
  /\ sources \in SUBSET Links
  /\ builder \in {"idle", "loaded", "read"}
  /\ filter \in SUBSET Links
  /\ accepted \in SUBSET Links
  /\ dropped \in SUBSET Links

\* One run and one build at a time: what a build carries from its first file
\* to its last is never out of date in the direction that matters.  Its filter
\* names only links tombstoned now, and every link an earlier catalogue dropped
\* (buildFilesWithLinkEnrichment reads the tombstones once, at its start).
BuildInv ==
  /\ LifecycleTypeOK
  /\ dropped \cup filter \subseteq Tombstoned
  /\ catalog \cap dropped = {}
  /\ builder # "idle" => dropped \subseteq filter
  /\ builder = "read" => accepted \cap filter = {}

\* One run and one build at a time: a link a published catalogue left out as
\* dead never comes back, however the audits and builds interleave, fail or
\* die, and whatever the exports bring (the tombstone filter of buildGzip
\* together with the add-only, all-or-nothing publication of tombstones).
NoResurrection == [][ catalog' \cap dropped = {} ]_allVars

=============================================================================
