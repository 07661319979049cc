------------------------------- MODULE BinImage -------------------------------
(* How the binary of a BIN or a runtime image is found (oci/manifest.go,      *)
(* oci/puller.go). A blob is an index (entries) or a manifest (layers, the    *)
(* name and the base name of the path it declares).                           *)
EXTENDS SequencesExt, Subsequences

CONSTANTS
    BinBlobs    \* digest -> [index, name, path, layers]: BIN images in a registry

\* All binaries of a manifest are for this platform.
BuiltFor(m, platform) ==
    \A i \in DOMAIN m.layers :
        LET l == m.layers[i]
        IN  IF l.tar THEN \A j \in DOMAIN l.files : l.files[j].regular => l.files[j].data.platform = platform
            ELSE l.data.platform = platform

\* A digest is a hash of what it names, so no index contains itself; an index
\* says the truth about its manifests.
ASSUME BinAssumption ==
    /\ IsFiniteSet(DOMAIN BinBlobs)
    /\ \E rank \in [DOMAIN BinBlobs -> 0 .. Cardinality(DOMAIN BinBlobs)] :
          \A d \in DOMAIN BinBlobs : \A i \in DOMAIN BinBlobs[d].index :
              LET e == BinBlobs[d].index[i].digest IN e \in DOMAIN BinBlobs => rank[e] < rank[d]
    /\ \A d \in DOMAIN BinBlobs :
          /\ IsSeq(BinBlobs[d].index) /\ IsSeq(BinBlobs[d].layers)
          /\ \A i \in DOMAIN BinBlobs[d].layers : IsSeq(BinBlobs[d].layers[i].files)
          /\ \A i \in DOMAIN BinBlobs[d].index :
                LET e == BinBlobs[d].index[i]
                IN  e.platform # "" /\ e.digest \in DOMAIN BinBlobs /\ BinBlobs[e.digest].index = <<>> =>
                        BuiltFor(BinBlobs[e.digest], e.platform)

\* Mutant: an index without the platform falls back on its first entry.
resolveIndexAny(index, platform) ==
    LET match == {i \in DOMAIN index : index[i].platform = platform}
    IN  <<index[IF match = {} THEN 1 ELSE Min(match)].digest>>

\* Exactly this platform, or nothing; entries without a platform are skipped.
resolveIndex(index, platform) ==
    LET match == {i \in DOMAIN index : index[i].platform = platform}
    IN  IF match = {} THEN <<>> ELSE <<index[Min(match)].digest>>

\* <<digest>> of the manifest, or <<>> for an error.
ResolveManifest(platform) ==
    LET found[digest \in DOMAIN BinBlobs] ==
            LET index == BinBlobs[digest].index
                entry == resolveIndex(index, platform)
            IN  IF index = <<>> THEN <<digest>>
                ELSE IF entry = <<>> THEN <<>>
                ELSE IF entry[1] \in DOMAIN BinBlobs THEN found[entry[1]] ELSE <<>>
    IN  found

\* The regular files of that base name in a tar layer: the first one counts.
extractBinFromTar(layer, path) == {j \in DOMAIN layer.files : layer.files[j].regular /\ layer.files[j].base = path}

\* Tar layers first, then the blob titled with the name: <<data>> or <<>>.
extractBin[digest \in DOMAIN BinBlobs] ==
    LET m        == BinBlobs[digest]
        found(i) == extractBinFromTar(m.layers[i], m.path)
        tars     == {i \in DOMAIN m.layers : m.layers[i].tar /\ found(i) # {}}
        titled   == {i \in DOMAIN m.layers : ~m.layers[i].tar /\ m.layers[i].title = m.name}
    IN  IF tars # {} THEN <<m.layers[Min(tars)].files[Min(found(Min(tars)))].data>>
        ELSE IF titled # {} THEN <<m.layers[Min(titled)].data>> ELSE <<>>

RemotePuller(platform, digest) ==
    LET m == ResolveManifest(platform)[digest] IN IF m = <<>> THEN <<>> ELSE extractBin[m[1]]
=============================================================================
