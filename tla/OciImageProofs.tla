---------------------------- MODULE OciImageProofs ----------------------------
(***************************************************************************)
(* Proofs about internal/oci: about OciPrepare, for any layouts, requests  *)
(* and digests and any width of an identity, and about LayerExtract, for   *)
(* any archive.                                                            *)
(*                                                                         *)
(* What Prepare has found by reading blob after blob is compared with what *)
(* the layout denotes.  Two facts carry the argument: a descriptor names   *)
(* at most one blob (NamedOnce), and the index leads to at most one        *)
(* manifest (IndexedOnce).  The invariant says which of the image's three  *)
(* blobs have been found at each place (ReadInv); with it a bundle can be  *)
(* made of nothing else, and a blob that a step does not find is missing   *)
(* from every image of the layout.                                         *)
(*                                                                         *)
(* A name in a layer is resolved in steps (Follow), and what holds of the  *)
(* resolution is proved by induction over them: it never leaves the tree   *)
(* (FollowStaysInTree), it ends (FollowLeavesLess), and it takes the same  *)
(* way in a tree that holds more (FollowTogether).  Where no symbolic link *)
(* is in its way it leads to the place of that name (FindPlain,            *)
(* MkdirAllPlain), so that what an entry makes of a tree can be said       *)
(* without resolving anything (MadeOf), and the tree is compared with what *)
(* the archive says of it (Match).                                         *)
(***************************************************************************)
EXTENDS OciPrepare, LayerExtract, FiniteSetTheorems, SequenceTheorems, TLAPS

-----------------------------------------------------------------------------
(* Reading a blob and selecting a manifest.                                *)

\* The blobs that readBlob returns are those that the descriptor names.
LEMMA ReadBlobIsNamed ==
    ASSUME NEW d, NEW b
    PROVE  b \in ReadBlob(d) <=> NamedBy(layout, d, b)
  BY DEF ReadBlob, NamedBy, Range

\* A descriptor names at most one blob.
LEMMA NamedOnce ==
    ASSUME NEW l, NEW d, NEW b, NEW c, NamedBy(l, d, b), NamedBy(l, d, c)
    PROVE  b = c
  BY DEF NamedBy

\* What a descriptor names is a blob of the layout.
LEMMA NamedIsStored ==
    ASSUME NEW l, NEW d, NEW b, NamedBy(l, d, b)
    PROVE  b \in Range(l.blobs)
  BY DEF NamedBy, Range

\* Entry i of the index is the only one for this platform.
OnlyMatch(l, i) ==
    i \in DOMAIN l.manifests /\ \A j \in DOMAIN l.manifests : i = j <=> Matches(l.manifests[j])

\* selectManifest finds the only entry for this platform, if there is one.
LEMMA SelectedIsOnlyMatch ==
    ASSUME layout \in Layouts, NEW d
    PROVE  d \in Selected <=> \E i : OnlyMatch(layout, i) /\ d = layout.manifests[i]
<1>1. IsFiniteSet(DOMAIN layout.manifests)
  BY LayoutAssumption
<1>2. IsFiniteSet(Candidates(layout))
  BY <1>1, FS_Subset DEF Candidates
<1>3. ASSUME d \in Selected
      PROVE  \E i : OnlyMatch(layout, i) /\ d = layout.manifests[i]
  <2>1. PICK i \in Candidates(layout) :
            d = layout.manifests[i] /\ Cardinality(Candidates(layout)) = 1
    BY <1>3 DEF Selected
  <2>2. Candidates(layout) = {i}
    BY <1>2, <2>1, FS_Singleton
  <2> QED
    BY <2>1, <2>2 DEF OnlyMatch, Candidates
<1>4. ASSUME NEW i, OnlyMatch(layout, i), d = layout.manifests[i]
      PROVE  d \in Selected
  <2>1. Candidates(layout) = {i}
    BY <1>4 DEF OnlyMatch, Candidates
  <2>2. Cardinality(Candidates(layout)) = 1
    BY <2>1, FS_Singleton
  <2> QED
    BY <1>4, <2>1, <2>2 DEF Selected
<1> QED
  BY <1>3, <1>4

-----------------------------------------------------------------------------
(* The three blobs of an image.                                            *)

\* The layout is one that is read at all.
Readable(l) == l.absolute /\ l.version = "1.0.0"

\* Blob m is the manifest that the index leads to.
IsManifest(l, m) ==
    /\ Readable(l) /\ l.indexVersion = 2
    /\ \E i : OnlyMatch(l, i) /\ NamedBy(l, l.manifests[i], m)
    /\ ValidManifest(m.body)

\* Blob c is the configuration that the manifest m names.
IsConfig(l, m, c) == NamedBy(l, m.config, c) /\ ValidConfig(c.body)

\* Blob a is the layer that the manifest m names.
IsLayer(l, m, a) == NamedBy(l, m.layers[1], a) /\ m.layers[1].media \in {"tar", "gzip"}

\* Archive a is the one that manifest m and configuration c describe.
IsArchiveOf(m, c, a) ==
    ~IsJson(a) /\ a.archive = m.layers[1].media /\ a.sound /\ a.diff = c.diffIds[1]

\* The index leads to at most one manifest.
LEMMA IndexedOnce ==
    ASSUME NEW l, NEW m, NEW n, IsManifest(l, m), IsManifest(l, n)
    PROVE  m = n
<1>1. PICK i : OnlyMatch(l, i) /\ NamedBy(l, l.manifests[i], m)
  BY DEF IsManifest
<1>2. PICK j : OnlyMatch(l, j) /\ NamedBy(l, l.manifests[j], n)
  BY DEF IsManifest
<1>3. i = j
  BY <1>1, <1>2 DEF OnlyMatch
<1> QED
  BY <1>1, <1>2, <1>3, NamedOnce

\* The user of a configuration is valid if and only if it is two numbers in range.
LEMMA ParsedUser ==
    ASSUME NEW user \in Seq(Int)
    PROVE  ParseUser(user) <=> Len(user) = 2 /\ Range(user) \subseteq 1 .. IdLimit - 1
<1>1. DOMAIN user = 1 .. Len(user)
  OBVIOUS
<1> QED
  BY <1>1 DEF ParseUser, Range

\* Two numbers in range are what is left of them in 32 bits.
LEMMA ParsedUserFits ==
    ASSUME NEW user \in Seq(Int), ParseUser(user)
    PROVE  << user[1] % IdLimit, user[2] % IdLimit >> = user
<1>1. Len(user) = 2 /\ \A i \in 1 .. 2 : user[i] \in 1 .. IdLimit - 1
  BY DEF ParseUser
<1>2. \A n \in 1 .. IdLimit - 1 : n % IdLimit = n
  BY IdAssumption
<1>3. user = << user[1], user[2] >>
  BY <1>1
<1> QED
  BY <1>1, <1>2, <1>3

\* There is a command if and only if there is an entry point or an argument.
LEMMA CommandGiven ==
    ASSUME NEW body, {body.entrypoint, body.cmd} \subseteq Seq(STRING)
    PROVE  Command(body) # << >> <=> body.entrypoint # << >> \/ body.cmd # << >>
  BY ConcatEqualIffEmpty DEF Command

\* What a layout denotes, in the order in which Prepare reads it.
LEMMA ImageInParts ==
    ASSUME NEW l \in Layouts, NEW m, NEW c, NEW a
    PROVE  IsImage(l, m, c, a) <=>
               /\ IsManifest(l, m) /\ IsConfig(l, m.body, c) /\ IsLayer(l, m.body, a)
               /\ IsArchiveOf(m.body, c.body, a.body)
<1> DEFINE Parts ==
        /\ IsManifest(l, m) /\ IsConfig(l, m.body, c) /\ IsLayer(l, m.body, a)
        /\ IsArchiveOf(m.body, c.body, a.body)
<1>1. ASSUME NamedBy(l, m.body.config, c), "os" \in DOMAIN c.body
      PROVE  /\ ParseUser(c.body.user) <=>
                    Len(c.body.user) = 2 /\ Range(c.body.user) \subseteq 1 .. IdLimit - 1
             /\ Command(c.body) # << >> <=> c.body.entrypoint # << >> \/ c.body.cmd # << >>
  <2>1. c \in Range(l.blobs)
    BY <1>1, NamedIsStored
  <2>2. c.body.user \in Seq(Int) /\ {c.body.entrypoint, c.body.cmd} \subseteq Seq(STRING)
    BY <1>1, <2>1, LayoutAssumption
  <2> QED
    BY <2>2, ParsedUser, CommandGiven
<1>2. Field(c.body, "os", "") = "linux" <=> "os" \in DOMAIN c.body /\ c.body.os = "linux"
  BY DEF Field
<1>3. ValidateEnvironment(c.body.environment) <=> Range(c.body.environment) \subseteq {"valid"}
  BY DEF ValidateEnvironment
<1>4. ASSUME IsImage(l, m, c, a) PROVE Parts
  <2>1. IsManifest(l, m)
    BY <1>4 DEF IsImage, IsManifest, Readable, OnlyMatch
  <2>2. IsConfig(l, m.body, c)
    BY <1>1, <1>2, <1>3, <1>4 DEF IsImage, IsConfig, ValidConfig
  <2>3. IsLayer(l, m.body, a) /\ IsArchiveOf(m.body, c.body, a.body)
    BY <1>4 DEF IsImage, IsLayer, IsArchiveOf
  <2> QED
    BY <2>1, <2>2, <2>3
<1>5. ASSUME Parts PROVE IsImage(l, m, c, a)
  <2>1. l.absolute /\ l.version = "1.0.0" /\ l.indexVersion = 2 /\ ValidManifest(m.body)
    BY <1>5 DEF IsManifest, Readable
  <2>2. \E i \in DOMAIN l.manifests :
            /\ NamedBy(l, l.manifests[i], m)
            /\ \A j \in DOMAIN l.manifests : i = j <=> Matches(l.manifests[j])
    BY <1>5 DEF IsManifest, OnlyMatch
  <2>3. NamedBy(l, m.body.config, c) /\ ValidConfig(c.body)
    BY <1>5 DEF IsConfig
  <2>4. NamedBy(l, m.body.layers[1], a) /\ ~IsJson(a.body) /\ a.body.sound
        /\ a.body.archive = m.body.layers[1].media /\ a.body.archive \in {"tar", "gzip"}
        /\ a.body.diff = c.body.diffIds[1]
    BY <1>5 DEF IsLayer, IsArchiveOf
  <2> QED
    BY <1>1, <1>2, <1>3, <2>1, <2>2, <2>3, <2>4 DEF IsImage, ValidConfig
<1> QED
  BY <1>4, <1>5

\* Every image is made of blobs of the layout.
LEMMA ImagesAreStored ==
    ASSUME NEW l \in Layouts, NEW m, NEW c, NEW a, IsImage(l, m, c, a)
    PROVE  << m, c, a >> \in Images(l)
<1>1. m \in Range(l.blobs) /\ c \in Range(l.blobs) /\ a \in Range(l.blobs)
  BY NamedIsStored DEF IsImage
<1> QED
  BY <1>1 DEF Images

\* An element of Images consists of three blobs.
LEMMA ImagesAreTriples ==
    ASSUME NEW l, NEW t \in Images(l)
    PROVE  t = << t[1], t[2], t[3] >> /\ IsImage(l, t[1], t[2], t[3])
  BY DEF Images

\* A layout denotes at most one image.
LEMMA ImageIsUnique ==
    ASSUME NEW l \in Layouts, NEW t \in Images(l), NEW u \in Images(l)
    PROVE  t = u
<1>1. /\ IsManifest(l, t[1]) /\ IsConfig(l, t[1].body, t[2]) /\ IsLayer(l, t[1].body, t[3])
      /\ IsManifest(l, u[1]) /\ IsConfig(l, u[1].body, u[2]) /\ IsLayer(l, u[1].body, u[3])
  BY ImagesAreTriples, ImageInParts
<1>2. t[1] = u[1]
  BY <1>1, IndexedOnce
<1>3. t[2] = u[2] /\ t[3] = u[3]
  BY <1>1, <1>2, NamedOnce DEF IsConfig, IsLayer
<1> QED
  BY <1>2, <1>3, ImagesAreTriples

-----------------------------------------------------------------------------
(* The invariant.                                                          *)

BeforeBundle == {"start", "index", "config", "layer", "mkdir", "unpack"}

\* What has been decoded are bodies of the blobs of an image, as far as Prepare has read.
HasManifest == \E m : IsManifest(layout, m) /\ manifest = m.body

HasConfig == HasManifest /\ \E c : IsConfig(layout, manifest, c) /\ config = c.body

HasLayer == HasConfig /\ \E a : IsLayer(layout, manifest, a) /\ layer = a.body

HasBundle == HasLayer /\ Unpackable /\ bundle = BundleOf(config)

ReadInv ==
    /\ layout \in Layouts
    /\ place = "index" => Readable(layout)
    /\ place = "config" => HasManifest
    /\ place = "layer" => HasConfig
    /\ place \in {"mkdir", "unpack"} => HasLayer
    /\ place \in {"run", "init", "exec", "close"} => HasBundle
    /\ place \in BeforeBundle => bundle = NoBundle
    /\ bundle # NoBundle => HasBundle

\* When there is a directory, and a verdict.
PlaceInv ==
    /\ place \in BeforeBundle \cup {"run", "init", "exec", "close", "over"}
    /\ rootfs \in BOOLEAN
    /\ faults \subseteq {"read", "unpack", "remove"}
    /\ verdict \in {"none", "refused", "rejected", "running"}
    /\ place \in BeforeBundle \ {"unpack"} => ~rootfs
    /\ place \in {"unpack", "run", "init", "exec", "close"} => rootfs
    /\ place \in BeforeBundle \cup {"run", "init", "exec"} => verdict = "none"
    /\ place = "close" => verdict \in {"rejected", "running"}

IInv ==
    /\ ReadInv /\ PlaceInv
    /\ RefusalHasCause /\ NothingLeftBehind /\ PreparedIsAccepted

-----------------------------------------------------------------------------
(* What has been found belongs to every image of the layout.               *)

\* The decoded manifest is that of the image, and names its other two blobs.
LEMMA ManifestOfImage ==
    ASSUME layout \in Layouts, HasManifest, NEW t \in Images(layout)
    PROVE  /\ manifest = t[1].body
           /\ IsConfig(layout, manifest, t[2]) /\ IsLayer(layout, manifest, t[3])
           /\ IsArchiveOf(manifest, t[2].body, t[3].body)
<1>1. /\ IsManifest(layout, t[1]) /\ IsConfig(layout, t[1].body, t[2])
      /\ IsLayer(layout, t[1].body, t[3]) /\ IsArchiveOf(t[1].body, t[2].body, t[3].body)
  BY ImagesAreTriples, ImageInParts
<1>2. manifest = t[1].body
  BY <1>1, IndexedOnce DEF HasManifest
<1> QED
  BY <1>1, <1>2

\* The decoded configuration is that of the image.
LEMMA ConfigOfImage ==
    ASSUME layout \in Layouts, HasConfig, NEW t \in Images(layout)
    PROVE  config = t[2].body
<1>1. IsConfig(layout, manifest, t[2])
  BY ManifestOfImage DEF HasConfig
<1> QED
  BY <1>1, NamedOnce DEF HasConfig, IsConfig

\* The layer that has been read is that of the image.
LEMMA LayerOfImage ==
    ASSUME layout \in Layouts, HasLayer, NEW t \in Images(layout)
    PROVE  layer = t[3].body
<1>1. IsLayer(layout, manifest, t[3])
  BY ManifestOfImage DEF HasLayer, HasConfig
<1> QED
  BY <1>1, NamedOnce DEF HasLayer, IsLayer

\* A bundle belongs to the one image of the layout.
LEMMA BundleOfImage ==
    ASSUME layout \in Layouts, HasBundle
    PROVE  \E t \in Images(layout) :
               /\ Images(layout) = {t}
               /\ manifest = t[1].body /\ layer = t[3].body
               /\ bundle.command = t[2].body.entrypoint \o t[2].body.cmd
               /\ << bundle.uid, bundle.gid >> = t[2].body.user
<1>1. PICK m : IsManifest(layout, m) /\ manifest = m.body
  BY DEF HasBundle, HasLayer, HasConfig, HasManifest
<1>2. PICK c : IsConfig(layout, manifest, c) /\ config = c.body
  BY DEF HasBundle, HasLayer, HasConfig
<1>3. PICK a : IsLayer(layout, manifest, a) /\ layer = a.body
  BY DEF HasBundle, HasLayer
<1>4. IsArchiveOf(manifest, config, layer)
  BY DEF HasBundle, Unpackable, IsArchiveOf
<1>5. IsImage(layout, m, c, a)
  BY <1>1, <1>2, <1>3, <1>4, ImageInParts
<1> DEFINE t == << m, c, a >>
<1>6. t \in Images(layout)
  BY <1>5, ImagesAreStored
<1>7. Images(layout) = {t}
  BY <1>6, ImageIsUnique
<1>8. bundle.command = config.entrypoint \o config.cmd
  BY DEF HasBundle, BundleOf, Command
<1>9. << bundle.uid, bundle.gid >> = config.user
  <2>1. ValidConfig(config) /\ c \in Range(layout.blobs)
    BY <1>2, NamedIsStored DEF IsConfig
  <2>2. "os" \in DOMAIN config
    BY <2>1 DEF ValidConfig, Field
  <2>3. config.user \in Seq(Int) /\ ParseUser(config.user)
    BY <1>2, <2>1, <2>2, LayoutAssumption DEF ValidConfig
  <2>4. bundle.uid = config.user[1] % IdLimit /\ bundle.gid = config.user[2] % IdLimit
    BY DEF HasBundle, BundleOf
  <2> QED
    BY <2>3, <2>4, ParsedUserFits
<1> QED
  BY <1>1, <1>2, <1>3, <1>6, <1>7, <1>8, <1>9

\* A bundle has a command and a directory that Run accepts, and is not root's.
LEMMA BundleIsSound ==
    ASSUME HasBundle
    PROVE  /\ bundle.command # << >> /\ bundle.workingDir # "relative"
           /\ {bundle.uid, bundle.gid} \subseteq 1 .. IdLimit - 1
<1>1. ValidConfig(config)
  BY DEF HasBundle, HasLayer, HasConfig, IsConfig
<1>2. bundle.command # << >> /\ bundle.workingDir # "relative"
  BY <1>1 DEF HasBundle, BundleOf, ValidConfig
<1>3. \A i \in 1 .. 2 : config.user[i] \in 1 .. IdLimit - 1
  BY <1>1 DEF ValidConfig, ParseUser
<1>4. \A n \in 1 .. IdLimit - 1 : n % IdLimit \in 1 .. IdLimit - 1
  BY IdAssumption
<1>5. bundle.uid = config.user[1] % IdLimit /\ bundle.gid = config.user[2] % IdLimit
  BY DEF HasBundle, BundleOf
<1> QED
  BY <1>2, <1>3, <1>4, <1>5

-----------------------------------------------------------------------------
(* What a blob that is not found says about the layout.                    *)

\* A layout that Prepare does not read denotes no image.
LEMMA UnreadableHasNoImage ==
    ASSUME layout \in Layouts, ~Readable(layout)
    PROVE  Images(layout) = {}
  BY ImagesAreTriples, ImageInParts DEF IsManifest

\* The manifest of an image is found among those that the index selects.
LEMMA NoManifestNoImage ==
    ASSUME layout \in Layouts,
           \/ layout.indexVersion # 2
           \/ {b \in UNION {ReadBlob(d) : d \in Selected} : ValidManifest(b.body)} = {}
    PROVE  Images(layout) = {}
<1> SUFFICES ASSUME NEW t \in Images(layout) PROVE FALSE
  OBVIOUS
<1>1. IsManifest(layout, t[1])
  BY ImagesAreTriples, ImageInParts
<1>2. PICK i : OnlyMatch(layout, i) /\ NamedBy(layout, layout.manifests[i], t[1])
  BY <1>1 DEF IsManifest
<1>3. layout.manifests[i] \in Selected
  BY <1>2, SelectedIsOnlyMatch
<1>4. t[1] \in ReadBlob(layout.manifests[i])
  BY <1>2, ReadBlobIsNamed
<1> QED
  BY <1>1, <1>3, <1>4 DEF IsManifest

\* The configuration of an image is found under the name in its manifest.
LEMMA NoConfigNoImage ==
    ASSUME layout \in Layouts, HasManifest,
           {b \in ReadBlob(manifest.config) : ValidConfig(b.body)} = {}
    PROVE  Images(layout) = {}
<1> SUFFICES ASSUME NEW t \in Images(layout) PROVE FALSE
  OBVIOUS
<1>1. IsConfig(layout, manifest, t[2])
  BY ManifestOfImage
<1> QED
  BY <1>1, ReadBlobIsNamed DEF IsConfig

\* The layer of an image is found under the name in its manifest.
LEMMA NoLayerNoImage ==
    ASSUME layout \in Layouts, HasConfig,
           {b \in ReadBlob(manifest.layers[1]) :
              manifest.layers[1].media \in {"tar", "gzip"}} = {}
    PROVE  Images(layout) = {}
<1> SUFFICES ASSUME NEW t \in Images(layout) PROVE FALSE
  OBVIOUS
<1>1. IsLayer(layout, manifest, t[3])
  BY ManifestOfImage DEF HasConfig
<1> QED
  BY <1>1, ReadBlobIsNamed DEF IsLayer

\* The layer of an image can be unpacked.
LEMMA NotUnpackableNoImage ==
    ASSUME layout \in Layouts, HasLayer, ~Unpackable
    PROVE  Images(layout) = {}
<1> SUFFICES ASSUME NEW t \in Images(layout) PROVE FALSE
  OBVIOUS
<1>1. IsArchiveOf(manifest, t[2].body, t[3].body)
  BY ManifestOfImage DEF HasLayer, HasConfig
<1>2. config = t[2].body /\ layer = t[3].body
  BY ConfigOfImage, LayerOfImage DEF HasLayer
<1> QED
  BY <1>1, <1>2 DEF IsArchiveOf, Unpackable

-----------------------------------------------------------------------------
(* Every step preserves the invariant, part by part.                       *)

\* What has been found stays found while layout and blobs stay.
LEMMA FoundStays ==
    ASSUME UNCHANGED << layout, blobVars >>
    PROVE  /\ HasManifest' <=> HasManifest
           /\ HasConfig' <=> HasConfig
           /\ HasLayer' <=> HasLayer
           /\ UNCHANGED bundle => (HasBundle' <=> HasBundle)
<1>1. layout' = layout /\ manifest' = manifest /\ config' = config /\ layer' = layer
  BY DEF blobVars
<1>2. HasManifest' <=> HasManifest
  BY <1>1 DEF HasManifest
<1>3. HasConfig' <=> HasConfig
  BY <1>1, <1>2 DEF HasConfig
<1>4. HasLayer' <=> HasLayer
  BY <1>1, <1>3 DEF HasLayer
<1>5. Unpackable' <=> Unpackable
  BY <1>1 DEF Unpackable
<1>6. UNCHANGED bundle => (HasBundle' <=> HasBundle)
  BY <1>1, <1>4, <1>5 DEF HasBundle
<1> QED
  BY <1>2, <1>3, <1>4, <1>6

\* A step that reads nothing keeps what has been read.
LEMMA ReadingKept ==
    ASSUME ReadInv, UNCHANGED << input, blobVars, bundle >>,
           \/ UNCHANGED place \/ place' = "over"
           \/ place = "mkdir" /\ place' = "unpack"
           \/ place = "start" /\ place' = "index" /\ Readable(layout)
           \/ place \in {"run", "init", "exec"} /\ place' \in {"init", "exec", "close"}
    PROVE  ReadInv'
<1>1. UNCHANGED << layout, blobVars >> /\ UNCHANGED bundle
  BY DEF input
<1>2. HasManifest' <=> HasManifest
  BY <1>1, FoundStays
<1>3. HasConfig' <=> HasConfig
  BY <1>1, FoundStays
<1>4. HasLayer' <=> HasLayer
  BY <1>1, FoundStays
<1>5. HasBundle' <=> HasBundle
  BY <1>1, FoundStays
<1>6. layout' = layout /\ bundle' = bundle
  BY <1>1
<1>7. CASE UNCHANGED place
  BY <1>2, <1>3, <1>4, <1>5, <1>6, <1>7 DEF ReadInv
<1>8. CASE place' = "over"
  BY <1>2, <1>3, <1>4, <1>5, <1>6, <1>8 DEF ReadInv, BeforeBundle
<1>9. CASE place = "mkdir" /\ place' = "unpack"
  BY <1>2, <1>3, <1>4, <1>5, <1>6, <1>9 DEF ReadInv, BeforeBundle
<1>10. CASE place = "start" /\ place' = "index" /\ Readable(layout)
  BY <1>2, <1>3, <1>4, <1>5, <1>6, <1>10 DEF ReadInv, BeforeBundle
<1>11. CASE place \in {"run", "init", "exec"} /\ place' \in {"init", "exec", "close"}
  BY <1>2, <1>3, <1>4, <1>5, <1>6, <1>11 DEF ReadInv, BeforeBundle
<1> QED
  BY <1>7, <1>8, <1>9, <1>10, <1>11

\* Each step of Prepare reads the blob that the invariant requires at the next place.
LEMMA ReadInvPreserved ==
    ASSUME ReadInv, Next
    PROVE  ReadInv'
<1>1. CASE ReadLayout
  BY <1>1, ReadingKept DEF ReadLayout, Refuse, Goto, Readable
<1>2. CASE ReadManifest
  <2> DEFINE found == {b \in UNION {ReadBlob(d) : d \in Selected} : ValidManifest(b.body)}
  <2>1. CASE Refuse("index")
    BY <2>1, ReadingKept DEF Refuse, Goto
  <2>2. CASE ~Refuse("index")
    <3>1. PICK b \in found : manifest' = b.body
      BY <1>2, <2>2 DEF ReadManifest
    <3>2. /\ layout.indexVersion = 2 /\ place = "index" /\ place' = "config"
          /\ layout' = layout /\ bundle' = bundle
      BY <1>2, <2>2 DEF ReadManifest, Goto, input
    <3>3. PICK d \in Selected : b \in ReadBlob(d)
      BY <3>1
    <3>4. layout \in Layouts /\ Readable(layout) /\ bundle = NoBundle
      BY <3>2 DEF ReadInv, BeforeBundle
    <3>5. PICK i : OnlyMatch(layout, i) /\ d = layout.manifests[i]
      BY <3>3, <3>4, SelectedIsOnlyMatch
    <3>6. IsManifest(layout, b)
      BY <3>1, <3>2, <3>3, <3>4, <3>5, ReadBlobIsNamed DEF IsManifest
    <3>7. HasManifest'
      BY <3>1, <3>2, <3>6 DEF HasManifest
    <3> QED
      BY <3>2, <3>4, <3>7 DEF ReadInv, BeforeBundle
  <2> QED
    BY <2>1, <2>2
<1>3. CASE ReadConfig
  <2> DEFINE found == {b \in ReadBlob(manifest.config) : ValidConfig(b.body)}
  <2>1. CASE Refuse("config")
    BY <2>1, ReadingKept DEF Refuse, Goto
  <2>2. CASE ~Refuse("config")
    <3>1. PICK b \in found : config' = b.body
      BY <1>3, <2>2 DEF ReadConfig
    <3>2. /\ place = "config" /\ place' = "layer"
          /\ layout' = layout /\ manifest' = manifest /\ bundle' = bundle
      BY <1>3, <2>2 DEF ReadConfig, Goto, input
    <3>3. layout \in Layouts /\ HasManifest /\ bundle = NoBundle
      BY <3>2 DEF ReadInv, BeforeBundle
    <3>4. IsConfig(layout, manifest, b)
      BY <3>1, ReadBlobIsNamed DEF IsConfig
    <3>5. HasManifest'
      BY <3>2, <3>3 DEF HasManifest
    <3>6. HasConfig'
      BY <3>1, <3>2, <3>4, <3>5 DEF HasConfig
    <3> QED
      BY <3>2, <3>3, <3>6 DEF ReadInv, BeforeBundle
  <2> QED
    BY <2>1, <2>2
<1>4. CASE ReadLayer
  <2> DEFINE found == {b \in ReadBlob(manifest.layers[1]) :
                          manifest.layers[1].media \in {"tar", "gzip"}}
  <2>1. CASE Refuse("layer")
    BY <2>1, ReadingKept DEF Refuse, Goto
  <2>2. CASE ~Refuse("layer")
    <3>1. PICK b \in found : layer' = b.body
      BY <1>4, <2>2 DEF ReadLayer
    <3>2. /\ place = "layer" /\ place' = "mkdir" /\ layout' = layout
          /\ manifest' = manifest /\ config' = config /\ bundle' = bundle
      BY <1>4, <2>2 DEF ReadLayer, Goto, input
    <3>3. layout \in Layouts /\ HasConfig /\ bundle = NoBundle
      BY <3>2 DEF ReadInv, BeforeBundle
    <3>4. IsLayer(layout, manifest, b)
      BY <3>1, ReadBlobIsNamed DEF IsLayer
    <3>5. HasConfig'
      BY <3>2, <3>3 DEF HasConfig, HasManifest
    <3>6. HasLayer'
      BY <3>1, <3>2, <3>4, <3>5 DEF HasLayer
    <3> QED
      BY <3>2, <3>3, <3>6 DEF ReadInv, BeforeBundle
  <2> QED
    BY <2>1, <2>2
<1>5. CASE MakeRootfs
  BY <1>5, ReadingKept DEF MakeRootfs, Goto
<1>6. CASE Unpack
  <2>1. /\ place = "unpack" /\ place' = "run" /\ Unpackable /\ bundle' = BundleOf(config)
        /\ layout' = layout /\ UNCHANGED << layout, blobVars >>
    BY <1>6 DEF Unpack, Goto, input
  <2>2. HasLayer' /\ layout \in Layouts
    BY <2>1, FoundStays DEF ReadInv
  <2>3. HasBundle'
    BY <2>1, <2>2 DEF HasBundle, Unpackable, blobVars
  <2> QED
    BY <2>1, <2>2, <2>3 DEF ReadInv, BeforeBundle
<1>7. CASE UnpackFails
  BY <1>7, ReadingKept DEF UnpackFails, Goto
<1>8. CASE ReadFails
  BY <1>8, ReadingKept DEF ReadFails
<1>9. CASE Run
  BY <1>9, ReadingKept DEF Run, Hand
<1>10. CASE InitProcess
  BY <1>10, ReadingKept DEF InitProcess, Hand
<1>11. CASE Exec
  BY <1>11, ReadingKept DEF Exec, Hand
<1>12. CASE Close
  BY <1>12, ReadingKept DEF Close, Goto
<1> QED
  BY <1>1, <1>2, <1>3, <1>4, <1>5, <1>6, <1>7, <1>8, <1>9, <1>10, <1>11, <1>12
     DEF Next, Prepare

\* Directory, faults and verdict follow the place; a directory that stays has its fault.
LEMMA PlaceInvPreserved ==
    ASSUME PlaceInv, NothingLeftBehind, Next
    PROVE  PlaceInv' /\ NothingLeftBehind'
<1> USE DEF PlaceInv, NothingLeftBehind, BeforeBundle
<1>1. ASSUME NEW p \in BeforeBundle \ {"unpack"}, Refuse(p)
      PROVE  PlaceInv' /\ NothingLeftBehind'
  <2>1. place = p /\ ~rootfs /\ place' = "over" /\ verdict' = "refused" /\ rootfs' = rootfs
        /\ faults' = faults
    BY <1>1 DEF Refuse, Goto
  <2> QED
    BY <2>1
<1>2. CASE ReadLayout
  <2>1. CASE Refuse("start")
    BY <1>1, <2>1
  <2>2. CASE ~Refuse("start")
    <3>1. /\ place = "start" /\ place' = "index"
          /\ rootfs' = rootfs /\ faults' = faults /\ verdict' = verdict
      BY <1>2, <2>2 DEF ReadLayout, Goto
    <3> QED
      BY <3>1
  <2> QED
    BY <2>1, <2>2
<1>3. CASE ReadManifest
  <2>1. CASE Refuse("index")
    BY <1>1, <2>1
  <2>2. CASE ~Refuse("index")
    <3>1. /\ place = "index" /\ place' = "config"
          /\ rootfs' = rootfs /\ faults' = faults /\ verdict' = verdict
      BY <1>3, <2>2 DEF ReadManifest, Goto
    <3> QED
      BY <3>1
  <2> QED
    BY <2>1, <2>2
<1>4. CASE ReadConfig
  <2>1. CASE Refuse("config")
    BY <1>1, <2>1
  <2>2. CASE ~Refuse("config")
    <3>1. /\ place = "config" /\ place' = "layer"
          /\ rootfs' = rootfs /\ faults' = faults /\ verdict' = verdict
      BY <1>4, <2>2 DEF ReadConfig, Goto
    <3> QED
      BY <3>1
  <2> QED
    BY <2>1, <2>2
<1>5. CASE ReadLayer
  <2>1. CASE Refuse("layer")
    BY <1>1, <2>1
  <2>2. CASE ~Refuse("layer")
    <3>1. /\ place = "layer" /\ place' = "mkdir"
          /\ rootfs' = rootfs /\ faults' = faults /\ verdict' = verdict
      BY <1>5, <2>2 DEF ReadLayer, Goto
    <3> QED
      BY <3>1
  <2> QED
    BY <2>1, <2>2
<1>6. CASE MakeRootfs
  BY <1>6 DEF MakeRootfs, Goto
<1>7. CASE Unpack
  BY <1>7 DEF Unpack, Goto
<1>8. CASE UnpackFails
  <2>1. PICK unpackFault \in BOOLEAN, removeFault \in BOOLEAN :
            /\ rootfs' = removeFault
            /\ faults' = faults \cup {f \in {"unpack"} : unpackFault}
                                \cup {f \in {"remove"} : removeFault}
    BY <1>8 DEF UnpackFails
  <2>2. rootfs' \in BOOLEAN /\ (rootfs' => "remove" \in faults')
    BY <2>1
  <2>3. faults' \subseteq {"read", "unpack", "remove"}
    BY <2>1
  <2>4. place' = "over" /\ verdict' = "refused"
    BY <1>8 DEF UnpackFails, Goto
  <2> QED
    BY <2>2, <2>3, <2>4
<1>9. CASE ReadFails
  <2>1. /\ place \in BeforeBundle \ {"unpack"} /\ place' = "over" /\ verdict' = "refused"
        /\ rootfs' = rootfs /\ faults' = faults \cup {"read"}
    BY <1>9 DEF ReadFails
  <2> QED
    BY <2>1
<1>10. CASE Run
  BY <1>10 DEF Run, Hand
<1>11. CASE InitProcess
  BY <1>11 DEF InitProcess, Hand
<1>12. CASE Exec
  BY <1>12 DEF Exec, Hand
<1>13. CASE Close
  <2>1. PICK removeFault \in BOOLEAN :
            /\ rootfs' = removeFault
            /\ faults' = faults \cup {f \in {"remove"} : removeFault}
    BY <1>13 DEF Close
  <2>2. rootfs' \in BOOLEAN /\ (rootfs' => "remove" \in faults')
    BY <2>1
  <2>3. faults' \subseteq {"read", "unpack", "remove"}
    BY <2>1
  <2>4. place' = "over" /\ verdict' = verdict
    BY <1>13 DEF Close, Goto
  <2> QED
    BY <2>2, <2>3, <2>4
<1> QED
  BY <1>2, <1>3, <1>4, <1>5, <1>6, <1>7, <1>8, <1>9, <1>10, <1>11, <1>12, <1>13
     DEF Next, Prepare

\* Where Prepare refuses, either a blob of every image is missing or a fault happened.
LEMMA CausePreserved ==
    ASSUME ReadInv, PlaceInv, RefusalHasCause, Next
    PROVE  RefusalHasCause'
<1>1. layout \in Layouts
  BY DEF ReadInv
<1>2. layout' = layout
  BY DEF Next, Prepare, ReadLayout, ReadManifest, ReadConfig, ReadLayer, MakeRootfs, Unpack,
         UnpackFails, ReadFails, Run, InitProcess, Exec, Close, Refuse, Hand, input
<1>3. ASSUME Images(layout) = {} PROVE RefusalHasCause'
  BY <1>2, <1>3 DEF RefusalHasCause
<1>4. ASSUME verdict' # "refused" PROVE RefusalHasCause'
  BY <1>4 DEF RefusalHasCause
<1>5. ASSUME verdict' = verdict, faults \subseteq faults' PROVE RefusalHasCause'
  BY <1>2, <1>5 DEF RefusalHasCause
<1>6. CASE ReadLayout
  <2>1. CASE Readable(layout)
    BY <1>5, <1>6, <2>1 DEF ReadLayout, Readable
  <2> QED
    BY <1>1, <1>3, <2>1, UnreadableHasNoImage
<1>7. CASE ReadManifest
  <2>1. CASE Refuse("index")
    <3>1. \/ layout.indexVersion # 2
          \/ {b \in UNION {ReadBlob(d) : d \in Selected} : ValidManifest(b.body)} = {}
      BY <1>7, <2>1 DEF ReadManifest, Refuse, Goto
    <3> QED
      BY <1>1, <1>3, <3>1, NoManifestNoImage
  <2> QED
    BY <1>5, <1>7, <2>1 DEF ReadManifest
<1>8. CASE ReadConfig
  <2>1. CASE Refuse("config")
    <3>1. {b \in ReadBlob(manifest.config) : ValidConfig(b.body)} = {}
      BY <1>8, <2>1 DEF ReadConfig, Refuse, Goto
    <3>2. HasManifest
      BY <1>8 DEF ReadConfig, Goto, Refuse, ReadInv
    <3> QED
      BY <1>1, <1>3, <3>1, <3>2, NoConfigNoImage
  <2> QED
    BY <1>5, <1>8, <2>1 DEF ReadConfig
<1>9. CASE ReadLayer
  <2>1. CASE Refuse("layer")
    <3>1. {b \in ReadBlob(manifest.layers[1]) :
              manifest.layers[1].media \in {"tar", "gzip"}} = {}
      BY <1>9, <2>1 DEF ReadLayer, Refuse, Goto
    <3>2. HasConfig
      BY <1>9 DEF ReadLayer, Goto, Refuse, ReadInv
    <3> QED
      BY <1>1, <1>3, <3>1, <3>2, NoLayerNoImage
  <2> QED
    BY <1>5, <1>9, <2>1 DEF ReadLayer
<1>10. CASE MakeRootfs
  BY <1>5, <1>10 DEF MakeRootfs
<1>11. CASE Unpack
  BY <1>5, <1>11 DEF Unpack
<1>12. CASE UnpackFails
  <2>1. CASE Unpackable
    <3>1. "unpack" \in faults'
      BY <1>12, <2>1 DEF UnpackFails
    <3> QED
      BY <3>1 DEF RefusalHasCause
  <2>2. CASE ~Unpackable
    <3>1. HasLayer
      BY <1>12 DEF UnpackFails, Goto, ReadInv
    <3> QED
      BY <1>1, <1>3, <2>2, <3>1, NotUnpackableNoImage
  <2> QED
    BY <2>1, <2>2
<1>13. CASE ReadFails
  <2>1. "read" \in faults'
    BY <1>13 DEF ReadFails
  <2> QED
    BY <2>1 DEF RefusalHasCause
<1>14. CASE Run
  BY <1>4, <1>14 DEF Run, Hand, PlaceInv
<1>15. CASE InitProcess
  BY <1>4, <1>15 DEF InitProcess, Hand, PlaceInv
<1>16. CASE Exec
  BY <1>4, <1>16 DEF Exec, Hand, PlaceInv
<1>17. CASE Close
  BY <1>5, <1>17 DEF Close
<1> QED
  BY <1>6, <1>7, <1>8, <1>9, <1>10, <1>11, <1>12, <1>13, <1>14, <1>15, <1>16, <1>17
     DEF Next, Prepare

\* What Run checks of a bundle, beyond the hostname and null bytes, Prepare has made sure of.
LEMMA RunAcceptsBundles ==
    ASSUME HasBundle, rootfs, ~RunAccepts
    PROVE  \/ ~ValidHostname(request.hostname)
           \/ "null" \in Range(EffectiveCommand) \cup {bundle.workingDir}
<1>1. EffectiveCommand # << >>
  BY BundleIsSound DEF EffectiveCommand
<1>2. ValidIdentity(bundle.uid, bundle.gid)
  BY BundleIsSound, IdAssumption DEF ValidIdentity
<1>3. bundle.workingDir # "relative"
  BY BundleIsSound
<1> QED
  BY <1>1, <1>2, <1>3 DEF RunAccepts

\* What InitProcess checks of a bundle, beyond the hostname, Prepare has made sure of.
LEMMA InitProcessAcceptsBundles ==
    ASSUME HasBundle, rootfs, ~InitProcessAccepts
    PROVE  ~ValidHostname(request.hostname)
<1>1. {bundle.uid, bundle.gid} \subseteq 1 .. IdLimit - 1 /\ bundle.workingDir # "relative"
  BY BundleIsSound
<1>2. ValidIdentity(bundle.uid, bundle.gid) /\ ParseID(bundle.uid) /\ ParseID(bundle.gid)
  BY <1>1, IdAssumption DEF ValidIdentity, ParseID
<1> QED
  BY <1>1, <1>2 DEF InitProcessAccepts

\* A rejection after Prepare is one that PreparedIsAccepted names.
LEMMA AcceptancePreserved ==
    ASSUME ReadInv, PlaceInv, PreparedIsAccepted, Next
    PROVE  PreparedIsAccepted'
<1>1. ASSUME verdict' # "rejected" PROVE PreparedIsAccepted'
  BY <1>1 DEF PreparedIsAccepted
<1>2. CASE Prepare
  <2>1. place \in BeforeBundle
    BY <1>2 DEF Prepare, ReadLayout, ReadManifest, ReadConfig, ReadLayer, MakeRootfs, Unpack,
                UnpackFails, ReadFails, Refuse, Goto, BeforeBundle
  <2>2. verdict' \in {verdict, "refused"}
    BY <1>2 DEF Prepare, ReadLayout, ReadManifest, ReadConfig, ReadLayer, MakeRootfs, Unpack,
                UnpackFails, ReadFails, Refuse
  <2> QED
    BY <1>1, <2>1, <2>2 DEF PlaceInv
<1>3. ASSUME UNCHANGED << request, bundle, layer >>
      PROVE  EffectiveCommand' = EffectiveCommand
  BY <1>3 DEF EffectiveCommand
<1>4. CASE Run
  <2>1. CASE RunAccepts
    BY <1>1, <1>4, <2>1 DEF Run, Hand, PlaceInv
  <2>2. CASE ~RunAccepts
    <3>1. HasBundle /\ rootfs
      BY <1>4 DEF Run, Hand, ReadInv, PlaceInv
    <3>2. request' = request /\ bundle' = bundle /\ layer' = layer
      BY <1>4 DEF Run, Hand, input, blobVars
    <3> QED
      BY <1>3, <2>2, <3>1, <3>2, RunAcceptsBundles DEF PreparedIsAccepted
  <2> QED
    BY <2>1, <2>2
<1>5. CASE InitProcess
  <2>1. CASE InitProcessAccepts
    BY <1>1, <1>5, <2>1 DEF InitProcess, Hand, PlaceInv
  <2>2. CASE ~InitProcessAccepts
    <3>1. HasBundle /\ rootfs
      BY <1>5 DEF InitProcess, Hand, ReadInv, PlaceInv
    <3>2. request' = request
      BY <1>5 DEF InitProcess, Hand, input
    <3> QED
      BY <2>2, <3>1, <3>2, InitProcessAcceptsBundles DEF PreparedIsAccepted
  <2> QED
    BY <2>1, <2>2
<1>6. CASE Exec
  <2>1. CASE Executable
    BY <1>1, <1>6, <2>1 DEF Exec, Hand
  <2>2. CASE ~Executable
    BY <1>6, <2>2 DEF Exec, Hand, blobVars, Executable, PreparedIsAccepted
  <2> QED
    BY <2>1, <2>2
<1>7. CASE Close
  <2>1. request' = request /\ bundle' = bundle /\ layer' = layer /\ verdict' = verdict
    BY <1>7 DEF Close, input, blobVars
  <2> QED
    BY <1>3, <2>1 DEF PreparedIsAccepted
<1> QED
  BY <1>2, <1>4, <1>5, <1>6, <1>7 DEF Next

-----------------------------------------------------------------------------
(* The invariant of the specification, and what it says.                   *)

\* The initial states satisfy the invariant.
LEMMA InitInv == Init => IInv
  BY DEF Init, IInv, ReadInv, PlaceInv, BeforeBundle, RefusalHasCause, NothingLeftBehind,
         PreparedIsAccepted

\* Every step preserves the invariant.
LEMMA NextInv == IInv /\ [Next]_vars => IInv'
<1> SUFFICES ASSUME IInv, [Next]_vars PROVE IInv'
  OBVIOUS
<1>1. CASE Next
  BY <1>1, ReadInvPreserved, PlaceInvPreserved, CausePreserved, AcceptancePreserved DEF IInv
<1>2. CASE UNCHANGED vars
  <2>1. UNCHANGED << input, blobVars, bundle >> /\ place' = place
    BY <1>2 DEF vars
  <2>2. /\ rootfs' = rootfs /\ faults' = faults /\ verdict' = verdict
        /\ layout' = layout /\ request' = request /\ bundle' = bundle /\ layer' = layer
    BY <1>2 DEF vars, input, blobVars
  <2>3. ReadInv'
    BY <2>1, ReadingKept DEF IInv
  <2>4. PlaceInv' /\ NothingLeftBehind' /\ RefusalHasCause'
    BY <2>1, <2>2 DEF IInv, PlaceInv, NothingLeftBehind, RefusalHasCause
  <2>5. PreparedIsAccepted'
    BY <2>2 DEF IInv, PreparedIsAccepted, EffectiveCommand
  <2> QED
    BY <2>3, <2>4, <2>5 DEF IInv
<1> QED
  BY <1>1, <1>2

\* The invariant holds in every reachable state.
LEMMA Invariant == Spec => []IInv
  BY InitInv, NextInv, PTL DEF Spec

\* Every variable has its type; an identity is not zero and fits into 32 bits.
THEOREM TypeCorrect == Spec => []TypeOK
<1>1. IInv => TypeOK
  <2> SUFFICES ASSUME IInv PROVE TypeOK
    OBVIOUS
  <2>1. bundle # NoBundle => {bundle.uid, bundle.gid} \subseteq 1 .. IdLimit - 1
    BY BundleIsSound DEF IInv, ReadInv
  <2> QED
    BY <2>1 DEF IInv, PlaceInv, BeforeBundle, TypeOK
<1> QED
  BY <1>1, Invariant, PTL

\* A bundle is made of the one image that the layout denotes, whatever blobs are stored.
THEOREM BundlesAreImages == Spec => []BundleIsTheImage
<1>1. IInv => BundleIsTheImage
  BY BundleOfImage DEF IInv, ReadInv, BundleIsTheImage
<1> QED
  BY <1>1, Invariant, PTL

\* Prepare refuses a layout only if it denotes no image or an I/O error happened.
THEOREM RefusalsHaveCause == Spec => []RefusalHasCause
<1>1. IInv => RefusalHasCause
  BY DEF IInv
<1> QED
  BY <1>1, Invariant, PTL

\* Nothing is left of a request that is over, unless the removal failed.
THEOREM NothingStays == Spec => []NothingLeftBehind
<1>1. IInv => NothingLeftBehind
  BY DEF IInv
<1> QED
  BY <1>1, Invariant, PTL

\* Run and InitProcess accept what Prepare accepts, but for the request's own faults.
THEOREM PreparedRunsAreAccepted == Spec => []PreparedIsAccepted
<1>1. IInv => PreparedIsAccepted
  BY DEF IInv
<1> QED
  BY <1>1, Invariant, PTL

-----------------------------------------------------------------------------
(* The root of a bundle keeps the contract of a directory.                 *)

\* At most the root moves in the contract: it is finished, or given up, or nothing happens.
LEMMA RootfsMoves ==
    ASSUME PlaceInv, Next
    PROVE  \/ /\ RootfsStatus' = RootfsStatus /\ ("remove" \in faults' <=> "remove" \in faults)
              /\ RootfsStatus = "asked" \/ rootfs' = rootfs
           \/ /\ RootfsStatus = "asked" /\ RootfsStatus' = "held"
              /\ rootfs' /\ ("remove" \in faults' <=> "remove" \in faults)
           \/ /\ \/ RootfsStatus = "asked" /\ RootfsStatus' = "refused"
                 \/ RootfsStatus = "held" /\ RootfsStatus' = "released"
              /\ IF rootfs' THEN "remove" \in faults'
                 ELSE ("remove" \in faults' <=> "remove" \in faults)
<1> USE DEF PlaceInv, BeforeBundle, RootfsStatus
<1>1. ASSUME NEW p \in BeforeBundle \ {"unpack"}, Refuse(p)
      PROVE  /\ RootfsStatus = "asked" /\ RootfsStatus' = "refused"
             /\ ~rootfs' /\ faults' = faults
  BY <1>1 DEF Refuse, Goto
<1>2. CASE ReadLayout \/ ReadManifest \/ ReadConfig \/ ReadLayer
  <2>1. CASE \E p \in BeforeBundle \ {"unpack"} : Refuse(p)
    BY <1>1, <2>1
  <2>2. CASE ~\E p \in BeforeBundle \ {"unpack"} : Refuse(p)
    <3>1. /\ place \in BeforeBundle /\ place' \in BeforeBundle
          /\ rootfs' = rootfs /\ faults' = faults
      BY <1>2, <2>2 DEF ReadLayout, ReadManifest, ReadConfig, ReadLayer, Goto
    <3> QED
      BY <3>1
  <2> QED
    BY <2>1, <2>2
<1>3. CASE MakeRootfs
  BY <1>3 DEF MakeRootfs, Goto
<1>4. CASE Unpack
  BY <1>4 DEF Unpack, Goto
<1>5. CASE UnpackFails
  BY <1>5 DEF UnpackFails, Goto
<1>6. CASE ReadFails
  BY <1>6 DEF ReadFails
<1>7. CASE Run
  BY <1>7 DEF Run, Hand
<1>8. CASE InitProcess
  BY <1>8 DEF InitProcess, Hand
<1>9. CASE Exec
  BY <1>9 DEF Exec, Hand
<1>10. CASE Close
  BY <1>10 DEF Close, Goto
<1> QED
  BY <1>2, <1>3, <1>4, <1>5, <1>6, <1>7, <1>8, <1>9, <1>10 DEF Next, Prepare

\* What RootfsMoves allows is a step of the contract or none.
LEMMA StepKeepsContract ==
    ASSUME PlaceInv, Next
    PROVE  Contract!Next \/ UNCHANGED Contract!contractVars
<1> DEFINE status == [d \in {"rootfs"} |-> RootfsStatus]
           existing == {d \in {"rootfs"} : rootfs /\ RootfsStatus # "asked"}
           stuck == {d \in {"rootfs"} : "remove" \in faults}
<1>1. CASE /\ RootfsStatus' = RootfsStatus /\ ("remove" \in faults' <=> "remove" \in faults)
           /\ RootfsStatus = "asked" \/ rootfs' = rootfs
  <2>1. status' = status /\ existing' = existing /\ stuck' = stuck
    BY <1>1
  <2> QED
    BY <2>1 DEF Contract!contractVars
<1>2. CASE /\ RootfsStatus = "asked" /\ RootfsStatus' = "held"
           /\ rootfs' /\ ("remove" \in faults' <=> "remove" \in faults)
  <2>1. status["rootfs"] = "asked" /\ status' = [status EXCEPT !["rootfs"] = "held"]
    BY <1>2
  <2>2. existing' = existing \cup {"rootfs"} /\ stuck' = stuck
    BY <1>2
  <2>3. Contract!Make("rootfs")
    BY <2>1, <2>2 DEF Contract!Make
  <2> QED
    BY <2>3 DEF Contract!Next
<1>3. ASSUME IF rootfs' THEN "remove" \in faults'
             ELSE ("remove" \in faults' <=> "remove" \in faults),
             NEW from, NEW to, RootfsStatus = from, RootfsStatus' = to, to # "asked"
      PROVE  Contract!End("rootfs", from, to)
  <2>1. status["rootfs"] = from /\ status' = [status EXCEPT !["rootfs"] = to]
    BY <1>3
  <2>2. \/ existing' = existing \ {"rootfs"} /\ stuck' = stuck
        \/ existing' = existing \cup {"rootfs"} /\ stuck' = stuck \cup {"rootfs"}
    <3>1. CASE rootfs'
      BY <1>3, <3>1
    <3>2. CASE ~rootfs'
      BY <1>3, <3>2
    <3> QED
      BY <3>1, <3>2
  <2> QED
    BY <2>1, <2>2 DEF Contract!End
<1>4. CASE /\ RootfsStatus = "asked" /\ RootfsStatus' = "refused"
           /\ IF rootfs' THEN "remove" \in faults'
              ELSE ("remove" \in faults' <=> "remove" \in faults)
  BY <1>3, <1>4 DEF Contract!Next, Contract!Refuse
<1>5. CASE /\ RootfsStatus = "held" /\ RootfsStatus' = "released"
           /\ IF rootfs' THEN "remove" \in faults'
              ELSE ("remove" \in faults' <=> "remove" \in faults)
  BY <1>3, <1>5 DEF Contract!Next, Contract!Release
<1> QED
  BY <1>1, <1>2, <1>4, <1>5, RootfsMoves

\* Prepare and Close keep the contract of a directory: a complete root or none, and none
\* after Close, unless a removal failed.
THEOREM ContractKept == Spec => KeepsContract
<1>1. Init => Contract!Init
  BY DEF Init, Contract!Init, RootfsStatus
<1>2. IInv /\ [Next]_vars => [Contract!Next]_Contract!contractVars
  <2> SUFFICES ASSUME IInv, [Next]_vars
               PROVE  Contract!Next \/ UNCHANGED Contract!contractVars
    OBVIOUS
  <2>1. CASE Next
    BY <2>1, StepKeepsContract DEF IInv
  <2>2. CASE UNCHANGED vars
    BY <2>2 DEF vars, Contract!contractVars, RootfsStatus
  <2> QED
    BY <2>1, <2>2
<1> QED
  BY <1>1, <1>2, Invariant, PTL DEF Spec, KeepsContract, Contract!Spec

-----------------------------------------------------------------------------
(* The steps of a resolution, and what holds after each of them.           *)

\* What holds of zero, and of each number after one of which it holds, holds of all.
LEMMA SetInduction ==
    ASSUME NEW S, 0 \in S, \A n \in Nat : n \in S => n + 1 \in S
    PROVE  Nat \subseteq S
<1> SUFFICES ASSUME NEW m \in Nat, m \notin S
             PROVE  FALSE
  OBVIOUS
<1> DEFINE A == S \cap 0 .. m
           next == [n \in A |-> n + 1]
<1>1. IsFiniteSet(A)
  BY FS_Interval, FS_Subset, A \in SUBSET (0 .. m), 0 \in Int, m \in Int
<1>2. next \in Injection(A, A \ {0})
  BY DEF Injection, IsInjective
<1>3. /\ IsFiniteSet(A \ {0}) /\ Cardinality(A \ {0}) = Cardinality(A) - 1
      /\ Cardinality(A) \in Nat
  <2> HIDE DEF A
  <2>1. Cardinality(A) \in Nat
    BY <1>1, FS_CardinalityType
  <2>2. 0 \in A
    BY DEF A
  <2> QED
    BY <1>1, <2>1, <2>2, FS_RemoveElement
<1>4. Cardinality(A) <= Cardinality(A \ {0})
  <2> HIDE DEF A, next
  <2> QED
    BY <1>2, <1>3, FS_Injection
<1> QED
  BY <1>3, <1>4

\* The first n steps of a resolution.
Begins(s, n, g) == g = [i \in 0 .. n |-> IF i = 0 THEN s ELSE Follow(g[i - 1])]

\* Two beginnings agree as far as both go.
LEMMA BeginningsAgree ==
    ASSUME NEW s, NEW n \in Nat, NEW m \in Nat, NEW g, NEW h, Begins(s, n, g), Begins(s, m, h)
    PROVE  \A i \in Nat : i <= n /\ i <= m => g[i] = h[i]
<1> DEFINE S == {i \in Nat : i <= n /\ i <= m => g[i] = h[i]}
<1>1. \A i \in 0 .. n : g[i] = IF i = 0 THEN s ELSE Follow(g[i - 1])
  BY DEF Begins
<1>2. \A i \in 0 .. m : h[i] = IF i = 0 THEN s ELSE Follow(h[i - 1])
  BY DEF Begins
<1>3. 0 \in S
  BY <1>1, <1>2
<1>4. ASSUME NEW i \in Nat, i \in S
      PROVE  i + 1 \in S
  BY <1>1, <1>2, <1>4
<1>5. Nat \subseteq S
  <2> HIDE DEF S
  <2> QED
    BY <1>3, <1>4, SetInduction
<1> QED
  BY <1>5

\* There is a beginning of every length.
LEMMA BeginningExists ==
    ASSUME NEW s
    PROVE  \A n \in Nat : \E g : Begins(s, n, g)
<1> DEFINE S == {n \in Nat : \E g : Begins(s, n, g)}
<1>1. 0 \in S
  <2>1. Begins(s, 0, [i \in 0 .. 0 |-> s])
    BY DEF Begins
  <2> QED
    BY <2>1
<1>2. ASSUME NEW n \in Nat, n \in S
      PROVE  n + 1 \in S
  <2>1. PICK g : Begins(s, n, g)
    BY <1>2
  <2> DEFINE h == [i \in 0 .. n + 1 |-> IF i <= n THEN g[i] ELSE Follow(g[n])]
  <2>2. \A i \in 0 .. n : g[i] = IF i = 0 THEN s ELSE Follow(g[i - 1])
    BY <2>1 DEF Begins
  <2>3. \A i \in 0 .. n + 1 : h[i] = IF i = 0 THEN s ELSE Follow(h[i - 1])
    BY <2>2
  <2>4. Begins(s, n + 1, h)
    BY <2>3 DEF Begins
  <2> QED
    BY <2>4
<1>3. Nat \subseteq S
  <2> HIDE DEF S
  <2> QED
    BY <1>1, <1>2, SetInduction
<1> QED
  BY <1>3

\* The recursive function that Resolution defines exists, and satisfies its definition.
LEMMA ResolutionSteps ==
    ASSUME NEW s
    PROVE  \A n \in Nat : Resolution(s)[n] =
                              IF n = 0 THEN s ELSE Follow(Resolution(s)[n - 1])
<1> DEFINE Begin(n) == CHOOSE g : Begins(s, n, g)
           f == [n \in Nat |-> Begin(n)[n]]
<1>1. \A n \in Nat : Begins(s, n, Begin(n))
  BY BeginningExists
<1> HIDE DEF Begin
<1>2. ASSUME NEW n \in Nat, n # 0
      PROVE  f[n] = Follow(f[n - 1])
  <2>1. Begin(n)[n] = Follow(Begin(n)[n - 1])
    BY <1>1, <1>2 DEF Begins
  <2>2. Begin(n)[n - 1] = Begin(n - 1)[n - 1]
    BY <1>1, <1>2, BeginningsAgree
  <2> QED
    BY <1>2, <2>1, <2>2
<1>3. f[0] = s
  BY <1>1 DEF Begins
<1>4. f = [n \in Nat |-> IF n = 0 THEN s ELSE Follow(f[n - 1])]
  BY <1>2, <1>3
<1>5. \E g : g = [n \in Nat |-> IF n = 0 THEN s ELSE Follow(g[n - 1])]
  BY <1>4
<1>6. Resolution(s) =
          [n \in Nat |-> IF n = 0 THEN s ELSE Follow(Resolution(s)[n - 1])]
  BY <1>5 DEF Resolution
<1> QED
  BY <1>6

-----------------------------------------------------------------------------
(* Names and their beginnings.                                             *)

\* The first l components of a name are l components.
LEMMA LengthOfBeginning ==
    ASSUME NEW p \in Seq(STRING), NEW l \in 0 .. Len(p)
    PROVE  Len(SubSeq(p, 1, l)) = l
  OBVIOUS

\* Names that begin alike have the same beginnings.
LEMMA SameBeginning ==
    ASSUME NEW p \in Seq(STRING), NEW q \in Seq(STRING),
           NEW l \in 0 .. Len(p), l <= Len(q), \A i \in 1 .. l : p[i] = q[i]
    PROVE  SubSeq(p, 1, l) = SubSeq(q, 1, l)
  OBVIOUS

\* A name with one more component begins as it did.
LEMMA BeginningOfAppend ==
    ASSUME NEW p \in Seq(STRING), NEW x \in STRING
    PROVE  /\ Append(p, x) \in Seq(STRING) /\ Len(Append(p, x)) = Len(p) + 1
           /\ \A i \in 1 .. Len(p) : Append(p, x)[i] = p[i]
           /\ Append(p, x)[Len(p) + 1] = x
           /\ \A l \in 0 .. Len(p) : SubSeq(Append(p, x), 1, l) = SubSeq(p, 1, l)
<1> DEFINE a == Append(p, x)
<1>1. a \in Seq(STRING)
  BY AppendProperties, Zenon
<1>2. Len(p) \in Nat
  OBVIOUS
<1>3. Len(a) = Len(p) + 1
  OBVIOUS
<1>6. a[Len(p) + 1] = x
  BY AppendProperties, Zenon
<1>7. \A i \in 1 .. Len(p) : a[i] = p[i]
  OBVIOUS
<1> HIDE DEF a
<1>4. \A l \in 0 .. Len(p) : SubSeq(a, 1, l) = SubSeq(p, 1, l)
  BY <1>1, <1>2, <1>3, <1>7, SameBeginning
<1>5. /\ a \in Seq(STRING) /\ Len(a) = Len(p) + 1
      /\ \A i \in 1 .. Len(p) : a[i] = p[i]
      /\ a[Len(p) + 1] = x
      /\ \A l \in 0 .. Len(p) : SubSeq(a, 1, l) = SubSeq(p, 1, l)
  BY <1>1, <1>3, <1>4, <1>6, <1>7
<1> QED
  BY <1>5, Zenon DEF a

\* A name without its last component.
LEMMA FrontOfName ==
    ASSUME NEW p \in Seq(STRING), p # << >>
    PROVE  /\ Front(p) \in Seq(STRING) /\ Last(p) \in STRING
           /\ Len(Front(p)) = Len(p) - 1
           /\ Front(p) = SubSeq(p, 1, Len(p) - 1)
           /\ \A i \in 1 .. Len(p) - 1 : Front(p)[i] = p[i]
           /\ \A l \in 0 .. Len(p) - 1 : SubSeq(Front(p), 1, l) = SubSeq(p, 1, l)
<1> DEFINE f == SubSeq(p, 1, Len(p) - 1)
<1>1. f \in Seq(STRING)
  OBVIOUS
<1>5. Len(f) = Len(p) - 1
  <2>1. Len(p) \in Nat /\ Len(p) # 0
    OBVIOUS
  <2>2. Len(p) - 1 \in 0 .. Len(p)
    BY <2>1
  <2> QED
    BY <2>2, LengthOfBeginning, Zenon
<1>2. \A i \in 1 .. Len(p) - 1 : f[i] = p[i]
  OBVIOUS
<1>3. p[Len(p)] \in STRING
  OBVIOUS
<1>4. \A l \in 0 .. Len(p) - 1 : SubSeq(f, 1, l) = SubSeq(p, 1, l)
  OBVIOUS
<1> QED
  BY <1>1, <1>2, <1>3, <1>4, <1>5, Zenon DEF Front, Last

-----------------------------------------------------------------------------
(* Trees.                                                                  *)

\* What may be at a place after n entries.
Nodes(n) ==
    [kind : {"dir", "file", "symlink"}, ino : 0 .. n, owner : Nat,
     mode : {"plain", "setuid"}, target : Seq(STRING)]

\* Every link leads somewhere, and not from the root of the file system.
LinkIsRelative(node) ==
    node.kind = "symlink" =>
        Len(node.target) \in 1 .. LongestTarget /\ Head(node.target) # ""

Ordinary == STRING \ {"", ".", ".."}

IsPlace(t, p) ==
    /\ p \in Seq(STRING)
    /\ \A i \in 1 .. Len(p) : p[i] \in Ordinary
    /\ \A l \in 0 .. Len(p) - 1 : SubSeq(p, 1, l) \in DOMAIN t /\ t[SubSeq(p, 1, l)].kind = "dir"

IsTree(t, n) ==
    /\ t = [p \in DOMAIN t |-> t[p]]
    /\ Root \in DOMAIN t /\ t[Root].kind = "dir"
    /\ \A p \in DOMAIN t : IsPlace(t, p) /\ t[p] \in Nodes(n) /\ LinkIsRelative(t[p])

\* A tree has a root.
LEMMA TreeIsThere ==
    ASSUME NEW t, NEW n, IsTree(t, n)
    PROVE  t # Refused /\ Nowhere \notin DOMAIN t
<1>1. t # Refused
  BY DEF IsTree, Refused, Root
<1>2. Nowhere \notin DOMAIN t
  <2>1. ASSUME << ".." >> \in DOMAIN t
        PROVE  FALSE
    <3>1. IsPlace(t, << ".." >>)
      BY <2>1 DEF IsTree
    <3>2. \A i \in 1 .. Len(<< ".." >>) : << ".." >>[i] \in Ordinary
      BY <3>1, Zenon DEF IsPlace
    <3>3. 1 \in 1 .. Len(<< ".." >>) /\ << ".." >>[1] = ".."
      OBVIOUS
    <3> QED
      BY <3>2, <3>3, Zenon DEF Ordinary
  <2> QED
    BY <2>1 DEF Nowhere
<1> QED
  BY <1>1, <1>2

\* Something is put into a directory of the tree.
LEMMA PutKeepsTree ==
    ASSUME NEW t, NEW n \in Nat, IsTree(t, n), NEW p \in DOMAIN t, t[p].kind = "dir",
           NEW x \in Ordinary, Append(p, x) \notin DOMAIN t,
           NEW node \in Nodes(n), LinkIsRelative(node)
    PROVE  IsTree(Put(t, Append(p, x), node), n)
<1> DEFINE u == Put(t, Append(p, x), node)
<1>1. p \in Seq(STRING) /\ x \in STRING /\ Len(p) \in Nat
  BY LenProperties DEF IsTree, IsPlace, Ordinary
<1>2. /\ u = [q \in DOMAIN u |-> u[q]] /\ DOMAIN u = DOMAIN t \cup {Append(p, x)}
      /\ \A q \in DOMAIN t : u[q] = t[q]
      /\ u[Append(p, x)] = node
  BY DEF Put
<1>3. ASSUME NEW q \in DOMAIN t
      PROVE  IsPlace(u, q)
  BY <1>2, <1>3 DEF IsTree, IsPlace
<1>4. IsPlace(u, Append(p, x))
  <2>1. \A i \in 1 .. Len(p) + 1 : Append(p, x)[i] \in Ordinary
    BY <1>1 DEF IsTree, IsPlace
  <2>2. ASSUME NEW l \in 0 .. Len(p)
        PROVE  SubSeq(Append(p, x), 1, l) \in DOMAIN t /\ t[SubSeq(Append(p, x), 1, l)].kind = "dir"
    <3>1. SubSeq(Append(p, x), 1, l) = SubSeq(p, 1, l)
      BY <1>1, <2>2, BeginningOfAppend, Zenon
    <3>0. SubSeq(p, 1, Len(p)) = p
      BY <1>1
    <3>2. CASE l = Len(p)
      BY <3>0, <3>1, <3>2
    <3>3. CASE l # Len(p)
      <4>1. l \in 0 .. Len(p) - 1
        BY <1>1, <2>2, <3>3
      <4> QED
        BY <3>1, <4>1 DEF IsTree, IsPlace
    <3> QED
      BY <3>2, <3>3
  <2> HIDE DEF u
  <2> QED
    BY <1>1, <1>2, <2>1, <2>2, BeginningOfAppend DEF IsPlace
<1> HIDE DEF u
<1>5. \A q \in DOMAIN u : IsPlace(u, q) /\ u[q] \in Nodes(n) /\ LinkIsRelative(u[q])
  BY <1>2, <1>3, <1>4 DEF IsTree
<1>6. IsTree(u, n)
  BY <1>2, <1>5 DEF IsTree
<1> QED
  BY <1>6 DEF u

-----------------------------------------------------------------------------
(* A resolution stays in the tree.                                         *)

\* What was in t is in u as well.
Grown(t, u) == \A p \in DOMAIN t : p \in DOMAIN u /\ u[p] = t[p]

\* A resolution that has begun in t.
InTree(s, t, n) ==
    /\ s = Resolving(s.tree, s.at, s.todo, s.hops, s.making)
    /\ IsTree(s.tree, n) /\ Grown(t, s.tree)
    /\ s.todo \in Seq(STRING) /\ s.hops \in 0 .. MaxSymlinks /\ s.making \in BOOLEAN
    /\ \/ s.at \in DOMAIN s.tree
       \/ s.at = Nowhere /\ s.todo = << >>
    /\ s.todo # << >> => s.tree[s.at].kind = "dir"

Part(s) == Head(s.todo)

Onward(s) == Append(s.at, Part(s))

\* What a step of a resolution may be: to stay, to go up, to go down, to make a directory,
\* to reach the symbolic link at the end, to follow one, and to give up.
Stays(s) ==
    /\ Part(s) \in {"", "."}
    /\ Follow(s) = Resolving(s.tree, s.at, Tail(s.todo), s.hops, s.making)

GoesUp(s) ==
    /\ Part(s) = ".." /\ s.at # Root
    /\ Follow(s) = Resolving(s.tree, Front(s.at), Tail(s.todo), s.hops, s.making)

GoesDown(s) ==
    /\ Part(s) \notin {"", ".", ".."} /\ Onward(s) \in DOMAIN s.tree
    /\ \/ s.tree[Onward(s)].kind = "dir"
       \/ s.tree[Onward(s)].kind = "file" /\ Len(s.todo) = 1 /\ ~s.making
    /\ Follow(s) = Resolving(s.tree, Onward(s), Tail(s.todo), s.hops, s.making)

Makes(s) ==
    /\ Part(s) \notin {"", ".", ".."} /\ Onward(s) \notin DOMAIN s.tree /\ s.making
    /\ Follow(s) =
           Resolving(Put(s.tree, Onward(s), Directory), Onward(s), Tail(s.todo),
                           s.hops, TRUE)

EndsInLink(s) ==
    /\ Part(s) \notin {"", ".", ".."} /\ Onward(s) \in DOMAIN s.tree
    /\ s.tree[Onward(s)].kind = "symlink" /\ s.making /\ Len(s.todo) = 1
    /\ Follow(s) = Resolving(s.tree, s.at, s.todo, s.hops, FALSE)

FollowsLink(s) ==
    /\ Part(s) \notin {"", ".", ".."} /\ Onward(s) \in DOMAIN s.tree
    /\ s.tree[Onward(s)].kind = "symlink" /\ s.hops < MaxSymlinks
    /\ ~(s.making /\ Len(s.todo) = 1)
    /\ Follow(s) =
           Resolving(s.tree, s.at, s.tree[Onward(s)].target \o Tail(s.todo),
                           s.hops + 1, s.making)

GivesUp(s) == Follow(s) = Resolving(s.tree, Nowhere, << >>, s.hops, s.making)

\* These are all steps.
LEMMA FollowIsOneOf ==
    ASSUME NEW s, NEW t, NEW n, InTree(s, t, n), s.todo # << >>
    PROVE  \/ Stays(s) \/ GoesUp(s) \/ GoesDown(s) \/ Makes(s)
           \/ EndsInLink(s) \/ FollowsLink(s) \/ GivesUp(s)
<1>1. \A p \in DOMAIN s.tree : s.tree[p].kind \in {"dir", "file", "symlink"}
  BY DEF InTree, IsTree, Nodes
<1> QED
  BY <1>1 DEF InTree, Stays, GoesUp, GoesDown, Makes, EndsInLink, FollowsLink, GivesUp,
     Part, Onward, Follow, Kind

\* What remains of a name after its first component.
LEMMA TailOfName ==
    ASSUME NEW p \in Seq(STRING), p # << >>
    PROVE  /\ Head(p) \in STRING /\ Tail(p) \in Seq(STRING)
           /\ Len(p) = 1 => Tail(p) = << >>
<1>1. Head(p) \in STRING /\ Tail(p) \in Seq(STRING) /\ Len(Tail(p)) = Len(p) - 1
  BY HeadTailProperties
<1>2. Tail(p) # << >> => Len(Tail(p)) \in Nat \ {0}
  BY <1>1, EmptySeq, Zenon
<1> QED
  BY <1>1, <1>2

\* A directory that has just been made.
LEMMA DirectoryIsNode ==
    ASSUME NEW n \in Nat
    PROVE  Directory \in Nodes(n) /\ LinkIsRelative(Directory)
  BY DEF Directory, Node, Nodes, LinkIsRelative

\* The fields of a state.
LEMMA FieldsOfState ==
    ASSUME NEW u, NEW at, NEW todo, NEW hops, NEW making
    PROVE  /\ Resolving(u, at, todo, hops, making).tree = u
           /\ Resolving(u, at, todo, hops, making).at = at
           /\ Resolving(u, at, todo, hops, making).todo = todo
           /\ Resolving(u, at, todo, hops, making).hops = hops
           /\ Resolving(u, at, todo, hops, making).making = making
  BY DEF Resolving

\* What a state must be to be in the tree.
LEMMA StateInTree ==
    ASSUME NEW t, NEW n, NEW u, NEW at, NEW todo \in Seq(STRING),
           NEW hops \in 0 .. MaxSymlinks, NEW making \in BOOLEAN,
           IsTree(u, n), Grown(t, u),
           \/ at \in DOMAIN u /\ (todo # << >> => u[at].kind = "dir")
           \/ at = Nowhere /\ todo = << >>
    PROVE  InTree(Resolving(u, at, todo, hops, making), t, n)
<1> DEFINE s == Resolving(u, at, todo, hops, making)
<1>1. s.tree = u /\ s.at = at /\ s.todo = todo /\ s.hops = hops /\ s.making = making
  BY DEF Resolving
<1> HIDE DEF s
<1>2. s = Resolving(s.tree, s.at, s.todo, s.hops, s.making)
  BY <1>1 DEF s
<1>3. InTree(s, t, n)
  BY <1>1, <1>2 DEF InTree
<1> QED
  BY <1>3 DEF s

\* A step does not leave the tree, and removes nothing from it.
LEMMA FollowStaysInTree ==
    ASSUME NEW s, NEW t, NEW n \in Nat, InTree(s, t, n)
    PROVE  InTree(Follow(s), t, n)
<1>1. CASE s.todo = << >>
  BY <1>1 DEF Follow
<1>2. CASE s.todo # << >>
  <2>1. /\ Part(s) \in STRING /\ Tail(s.todo) \in Seq(STRING)
        /\ IsTree(s.tree, n) /\ Grown(t, s.tree) /\ s.making \in BOOLEAN
        /\ s.hops \in 0 .. MaxSymlinks
    BY <1>2, TailOfName DEF InTree, Part
  <2>a. s.at \in DOMAIN s.tree /\ s.tree[s.at].kind = "dir"
    BY <1>2, Zenon DEF InTree
  <2>2. s.at \in Seq(STRING) /\ IsPlace(s.tree, s.at)
    BY <2>1, <2>a DEF IsTree, IsPlace
  <2>3. CASE Stays(s)
    <3>1. InTree(Resolving(s.tree, s.at, Tail(s.todo), s.hops, s.making), t, n)
      BY <2>1, <2>a, StateInTree, Zenon
    <3> QED
      BY <2>3, <3>1 DEF Stays
  <2>4. CASE GoesUp(s)
    <3>1. s.at # << >>
      BY <2>4 DEF GoesUp, Root
    <3>2. Len(s.at) - 1 \in 0 .. Len(s.at) - 1 /\ Front(s.at) = SubSeq(s.at, 1, Len(s.at) - 1)
      <4>1. Len(s.at) \in Nat /\ Len(s.at) # 0
        BY <2>2, <3>1
      <4>2. Front(s.at) = SubSeq(s.at, 1, Len(s.at) - 1)
        BY <2>2, <3>1, FrontOfName, Zenon
      <4> QED
        BY <4>1, <4>2
    <3>3. Front(s.at) \in DOMAIN s.tree /\ s.tree[Front(s.at)].kind = "dir"
      BY <2>2, <3>2 DEF IsPlace
    <3>4. InTree(Resolving(s.tree, Front(s.at), Tail(s.todo), s.hops, s.making), t, n)
      BY <2>1, <3>3, StateInTree, Zenon
    <3> QED
      BY <2>4, <3>4 DEF GoesUp
  <2>5. CASE GoesDown(s)
    <3>1. Tail(s.todo) # << >> => s.tree[Onward(s)].kind = "dir"
      <4>1. Len(s.todo) = 1 => Tail(s.todo) = << >>
        BY <1>2, TailOfName, Zenon DEF InTree
      <4> QED
        BY <4>1, <2>5 DEF GoesDown
    <3>2. Onward(s) \in DOMAIN s.tree
      BY <2>5 DEF GoesDown
    <3>3. InTree(Resolving(s.tree, Onward(s), Tail(s.todo), s.hops, s.making), t, n)
      BY <2>1, <3>1, <3>2, StateInTree, Zenon
    <3> QED
      BY <2>5, <3>3 DEF GoesDown
  <2>6. CASE Makes(s)
    <3> DEFINE u == Put(s.tree, Onward(s), Directory)
    <3>1. IsTree(u, n)
      BY <2>1, <2>a, <2>6, PutKeepsTree, DirectoryIsNode DEF Makes, Onward, Ordinary
    <3>2. Grown(t, u) /\ Onward(s) \in DOMAIN u /\ u[Onward(s)].kind = "dir"
      BY <2>1, <2>6 DEF Makes, Grown, Put, Directory, Node
    <3> HIDE DEF u
    <3>3. InTree(Resolving(u, Onward(s), Tail(s.todo), s.hops, TRUE), t, n)
      BY <2>1, <3>1, <3>2, StateInTree, Zenon
    <3> QED
      BY <2>6, <3>3 DEF Makes, u
  <2>7. CASE EndsInLink(s)
    <3>1. InTree(Resolving(s.tree, s.at, s.todo, s.hops, FALSE), t, n)
      BY <2>1, <2>a, StateInTree, Zenon DEF InTree
    <3> QED
      BY <2>7, <3>1 DEF EndsInLink
  <2>8. CASE FollowsLink(s)
    <3> DEFINE todo == s.tree[Onward(s)].target \o Tail(s.todo)
    <3>1. s.tree[Onward(s)].target \in Seq(STRING)
      BY <2>1, <2>8 DEF FollowsLink, IsTree, Nodes
    <3>2. todo \in Seq(STRING)
      BY <2>1, <3>1, ConcatProperties, Zenon
    <3>3. s.hops + 1 \in 0 .. MaxSymlinks
      <4>1. s.hops \in 0 .. MaxSymlinks /\ s.hops < MaxSymlinks
        BY <2>1, <2>8, Zenon DEF FollowsLink
      <4> QED
        BY <4>1 DEF MaxSymlinks
    <3> HIDE DEF todo
    <3>4. InTree(Resolving(s.tree, s.at, todo, s.hops + 1, s.making), t, n)
      BY <2>1, <2>a, <3>2, <3>3, StateInTree, Zenon
    <3> QED
      BY <2>8, <3>4 DEF FollowsLink, todo
  <2>9. CASE GivesUp(s)
    <3>1. << >> \in Seq(STRING)
      OBVIOUS
    <3>2. InTree(Resolving(s.tree, Nowhere, << >>, s.hops, s.making), t, n)
      BY <2>1, <3>1, StateInTree, Zenon
    <3> QED
      BY <2>9, <3>2 DEF GivesUp
  <2> QED
    BY <1>2, <2>3, <2>4, <2>5, <2>6, <2>7, <2>8, <2>9, FollowIsOneOf, Zenon
<1> QED
  BY <1>1, <1>2

\* No number of steps does.
LEMMA ResolutionStaysInTree ==
    ASSUME NEW s, NEW t, NEW n \in Nat, InTree(s, t, n)
    PROVE  \A k \in Nat : InTree(Resolution(s)[k], t, n)
<1> DEFINE S == {k \in Nat : InTree(Resolution(s)[k], t, n)}
<1>1. 0 \in S
  BY ResolutionSteps
<1>2. ASSUME NEW k \in Nat, k \in S
      PROVE  k + 1 \in S
  <2>1. k + 1 \in Nat /\ k + 1 # 0 /\ (k + 1) - 1 = k
    OBVIOUS
  <2>2. Resolution(s)[k + 1] = Follow(Resolution(s)[k])
    BY <2>1, ResolutionSteps
  <2>3. InTree(Follow(Resolution(s)[k]), t, n)
    BY <1>2, FollowStaysInTree
  <2> QED
    BY <2>1, <2>2, <2>3
<1>3. Nat \subseteq S
  <2> HIDE DEF S
  <2> QED
    BY <1>1, <1>2, SetInduction
<1> QED
  BY <1>3

\* Only Makes changes the tree, and only EndsInLink ceases to make directories.
LEMMA FollowMakesNothing ==
    ASSUME NEW s, Stays(s) \/ GoesUp(s) \/ GoesDown(s) \/ FollowsLink(s) \/ GivesUp(s)
    PROVE  Follow(s).tree = s.tree /\ Follow(s).making = s.making
<1> DEFINE Unchanged(f) == f.tree = s.tree /\ f.making = s.making
<1>1. \A at, todo, hops : Unchanged(Resolving(s.tree, at, todo, hops, s.making))
  BY DEF Resolving
<1> HIDE DEF Unchanged
<1>2. Unchanged(Follow(s))
  <2>1. CASE Stays(s)
    BY <1>1, <2>1 DEF Stays
  <2>2. CASE GoesUp(s)
    BY <1>1, <2>2 DEF GoesUp
  <2>3. CASE GoesDown(s)
    BY <1>1, <2>3 DEF GoesDown
  <2>4. CASE FollowsLink(s)
    BY <1>1, <2>4 DEF FollowsLink
  <2>5. CASE GivesUp(s)
    BY <1>1, <2>5 DEF GivesUp
  <2> QED
    BY <2>1, <2>2, <2>3, <2>4, <2>5
<1> QED
  BY <1>2 DEF Unchanged

\* A resolution that makes no directories changes nothing.
LEMMA ResolutionMakesNothing ==
    ASSUME NEW s, NEW t, NEW n \in Nat, InTree(s, t, n), s.making = FALSE
    PROVE  \A k \in Nat : /\ Resolution(s)[k].tree = s.tree
                          /\ Resolution(s)[k].making = FALSE
<1> DEFINE r == Resolution(s)
           S == {k \in Nat : r[k].tree = s.tree /\ r[k].making = FALSE}
<1>1. 0 \in S
  BY ResolutionSteps
<1>2. ASSUME NEW k \in Nat, k \in S
      PROVE  k + 1 \in S
  <2>1. k + 1 \in Nat /\ k + 1 # 0 /\ (k + 1) - 1 = k
    OBVIOUS
  <2>2. r[k + 1] = Follow(r[k])
    BY <2>1, ResolutionSteps
  <2>3. InTree(r[k], t, n)
    BY ResolutionStaysInTree
  <2>4. CASE r[k].todo = << >>
    BY <1>2, <2>1, <2>2, <2>4 DEF Follow
  <2>5. CASE r[k].todo # << >>
    <3> HIDE DEF r
    <3>1. ~Makes(r[k]) /\ ~EndsInLink(r[k])
      BY <1>2 DEF Makes, EndsInLink, r
    <3>2. Stays(r[k]) \/ GoesUp(r[k]) \/ GoesDown(r[k]) \/ FollowsLink(r[k]) \/ GivesUp(r[k])
      BY <2>3, <2>5, <3>1, FollowIsOneOf, Zenon
    <3>3. r[k + 1].tree = r[k].tree /\ r[k + 1].making = r[k].making
      BY <2>2, <3>2, FollowMakesNothing
    <3> QED
      BY <1>2, <2>1, <3>3 DEF r
  <2> QED
    BY <2>4, <2>5
<1>3. Nat \subseteq S
  <2> HIDE DEF S
  <2> QED
    BY <1>1, <1>2, SetInduction
<1> QED
  BY <1>3

\* Where a resolution begins.
LEMMA ResolutionBegins ==
    ASSUME NEW t, NEW n \in Nat, IsTree(t, n), NEW name \in Seq(STRING), NEW making \in BOOLEAN
    PROVE  InTree(Resolving(t, Root, name, 0, making), t, n)
<1>1. Grown(t, t) /\ 0 \in 0 .. MaxSymlinks
  BY DEF Grown, MaxSymlinks
<1>2. Root \in DOMAIN t /\ t[Root].kind = "dir"
  BY DEF IsTree
<1> QED
  BY <1>1, <1>2, StateInTree, Zenon

\* There is a number of steps that is enough.
LEMMA EnoughIsANumber ==
    ASSUME NEW name \in Seq(STRING)
    PROVE  EnoughSteps(name) \in Nat
<1>1. LongestTarget \in Nat /\ Len(name) \in Nat
  BY EntriesAssumption
<1> QED
  BY <1>1 DEF EnoughSteps, MaxSymlinks

\* What is left to a resolution: components, links that may be followed, and the end of making.
Left(s) ==
    Len(s.todo) + (MaxSymlinks - s.hops) * LongestTarget + IF s.making THEN 1 ELSE 0

\* Every step leaves less.
LEMMA FollowLeavesLess ==
    ASSUME NEW s, NEW t, NEW n \in Nat, InTree(s, t, n), s.todo # << >>
    PROVE  Follow(s).todo = << >> \/ Left(Follow(s)) <= Left(s) - 1
<1> DEFINE f == Follow(s)
           rest == Tail(s.todo)
<1>1. /\ LongestTarget \in Nat /\ s.hops \in 0 .. 8 /\ s.making \in BOOLEAN
      /\ Len(s.todo) \in Nat
      /\ MaxSymlinks = 8
  BY EntriesAssumption DEF InTree, MaxSymlinks
<1>2. Len(rest) = Len(s.todo) - 1 /\ rest \in Seq(STRING)
  BY HeadTailProperties DEF InTree
<1> HIDE DEF rest
<1>3. ASSUME NEW u, NEW at, f = Resolving(u, at, rest, s.hops, s.making)
      PROVE  Left(f) <= Left(s) - 1
  <2>1. f.todo = rest /\ f.hops = s.hops /\ f.making = s.making
    BY <1>3 DEF Resolving
  <2> HIDE DEF f
  <2>2. Left(f) = Len(rest) + (8 - s.hops) * LongestTarget + IF s.making THEN 1 ELSE 0
    BY <1>1, <2>1, Zenon DEF Left
  <2>3. Left(s) = Len(s.todo) + (8 - s.hops) * LongestTarget + IF s.making THEN 1 ELSE 0
    BY <1>1, Zenon DEF Left
  <2> DEFINE links == (8 - s.hops) * LongestTarget
             last == IF s.making THEN 1 ELSE 0
  <2>4. links \in Int /\ last \in Int
    BY <1>1
  <2> HIDE DEF links, last
  <2> QED
    BY <1>1, <1>2, <2>2, <2>3, <2>4 DEF links, last
<1> HIDE DEF f
<1>4. CASE Stays(s)
  BY <1>3, <1>4, Zenon DEF Stays, f, rest
<1>5. CASE GoesUp(s)
  BY <1>3, <1>5, Zenon DEF GoesUp, f, rest
<1>6. CASE GoesDown(s)
  BY <1>3, <1>6, Zenon DEF GoesDown, f, rest
<1>7. CASE Makes(s)
  <2>1. s.making = TRUE
    BY <1>7 DEF Makes
  <2> QED
    BY <1>3, <1>7, <2>1, Zenon DEF Makes, f, rest
<1>8. CASE EndsInLink(s)
  <2>1. f.todo = s.todo /\ f.hops = s.hops /\ f.making = FALSE /\ s.making = TRUE
    <3>1. f = Resolving(s.tree, s.at, s.todo, s.hops, FALSE)
      BY <1>8, Zenon DEF EndsInLink, f
    <3>2. f.todo = s.todo /\ f.hops = s.hops /\ f.making = FALSE
      BY <3>1 DEF Resolving
    <3>3. s.making = TRUE
      BY <1>1, <1>8 DEF EndsInLink
    <3> QED
      BY <3>2, <3>3
  <2> DEFINE links == (8 - s.hops) * LongestTarget
  <2>2. links \in Int
    BY <1>1
  <2>3. Left(f) = Len(s.todo) + links + 0 /\ Left(s) = Len(s.todo) + links + 1
    BY <1>1, <2>1 DEF Left
  <2> HIDE DEF links
  <2>4. Left(f) <= Left(s) - 1
    BY <1>1, <2>2, <2>3
  <2> QED
    BY <2>4 DEF f
<1>9. CASE FollowsLink(s)
  <2> DEFINE target == s.tree[Onward(s)].target
             last == IF s.making THEN 1 ELSE 0
             links == (8 - s.hops) * LongestTarget
  <2>1. target \in Seq(STRING) /\ Len(target) \in 1 .. LongestTarget
    BY <1>9 DEF FollowsLink, InTree, IsTree, Nodes, LinkIsRelative
  <2>2. Len(target \o rest) = Len(target) + Len(rest)
    BY <1>2, <2>1, ConcatProperties, Zenon
  <2>3. f.todo = target \o rest /\ f.hops = s.hops + 1 /\ f.making = s.making
    <3>1. f = Resolving(s.tree, s.at, target \o rest, s.hops + 1, s.making)
      BY <1>9, Zenon DEF FollowsLink, f, rest
    <3> HIDE DEF target
    <3> QED
      BY <3>1 DEF Resolving
  <2> HIDE DEF target
  <2>4. links \in Int /\ last \in Int /\ (8 - (s.hops + 1)) * LongestTarget = links - LongestTarget
    BY <1>1
  <2>5. Left(f) = Len(target) + Len(rest) + (8 - (s.hops + 1)) * LongestTarget + last
    BY <1>1, <2>2, <2>3, Zenon DEF Left
  <2>6. Left(s) = Len(s.todo) + links + last
    BY <1>1, Zenon DEF Left
  <2> HIDE DEF links, last
  <2>7. Left(f) <= Left(s) - 1
    BY <1>1, <1>2, <2>1, <2>4, <2>5, <2>6
  <2> QED
    BY <2>7 DEF f
<1>10. CASE GivesUp(s)
  BY <1>10 DEF GivesUp, Resolving
<1> QED
  BY <1>4, <1>5, <1>6, <1>7, <1>8, <1>9, <1>10, FollowIsOneOf DEF f

\* Every name leads somewhere or is refused after the steps that are enough: the symbolic links
\* that an archive makes, of which os.Root follows no more than MaxSymlinks, lead nobody around
\* forever, and no resolution is cut short (image.go:414-500).
THEOREM EveryResolutionEnds ==
    ASSUME NEW t, NEW n \in Nat, IsTree(t, n), NEW name \in Seq(STRING),
           NEW making \in BOOLEAN
    PROVE  Resolve(t, name, making).todo = << >>
<1> DEFINE s == Resolving(t, Root, name, 0, making)
           r(k) == Resolution(s)[k]
           enough == EnoughSteps(name)
           S == {k \in Nat : r(k).todo = << >> \/ Left(r(k)) + k <= enough}
<1>1. InTree(s, t, n)
  BY ResolutionBegins
<1>2. enough \in Nat
  BY EnoughIsANumber
<1>3. \A k \in Nat : InTree(r(k), t, n)
  <2> HIDE DEF s
  <2> QED
    BY <1>1, ResolutionStaysInTree
<1>4. ASSUME NEW q, InTree(q, t, n)
      PROVE  Left(q) \in Nat /\ Left(q) >= Len(q.todo)
  <2>1. /\ q.hops \in 0 .. 8 /\ q.making \in BOOLEAN /\ LongestTarget \in Nat
        /\ Len(q.todo) \in Nat
        /\ MaxSymlinks = 8
    BY <1>4, EntriesAssumption DEF InTree, MaxSymlinks
  <2> DEFINE links == (8 - q.hops) * LongestTarget
             last == IF q.making THEN 1 ELSE 0
  <2>2. links \in Nat /\ last \in Nat
    BY <2>1
  <2>3. Left(q) = Len(q.todo) + links + last
    BY <2>1, Zenon DEF Left
  <2> HIDE DEF links, last
  <2> QED
    BY <2>1, <2>2, <2>3
<1>5. 0 \in S
  <2>1. Left(s) <= enough
    <3>1. s.todo = name /\ s.hops = 0 /\ s.making = making
      BY DEF Resolving
    <3> HIDE DEF s
    <3>2. Left(s) = Len(name) + 8 * LongestTarget + IF making THEN 1 ELSE 0
      BY <3>1, EntriesAssumption DEF Left, MaxSymlinks
    <3>3. Len(name) \in Nat /\ LongestTarget \in Nat
      BY EntriesAssumption
    <3> QED
      BY <3>2, <3>3 DEF EnoughSteps, MaxSymlinks
  <2>2. r(0) = s
    BY ResolutionSteps
  <2>3. Left(s) \in Nat
    BY <1>1, <1>4
  <2> HIDE DEF s, r, enough
  <2> QED
    BY <1>2, <2>1, <2>2, <2>3
<1>6. ASSUME NEW k \in Nat, k \in S
      PROVE  k + 1 \in S
  <2>1. k + 1 \in Nat /\ k + 1 # 0 /\ (k + 1) - 1 = k
    OBVIOUS
  <2>2. r(k + 1) = Follow(r(k))
    BY <2>1, ResolutionSteps
  <2>3. InTree(r(k), t, n) /\ InTree(r(k + 1), t, n)
    BY <1>3, <2>1
  <2> HIDE DEF r, enough
  <2>4. CASE r(k).todo = << >>
    BY <2>1, <2>2, <2>4 DEF Follow
  <2>5. CASE r(k).todo # << >>
    <3>1. r(k + 1).todo = << >> \/ Left(r(k + 1)) <= Left(r(k)) - 1
      BY <2>2, <2>3, <2>5, FollowLeavesLess
    <3>2. Left(r(k)) \in Nat /\ Left(r(k + 1)) \in Nat /\ Left(r(k)) + k <= enough
      BY <1>4, <1>6, <2>3, <2>5
    <3> QED
      BY <1>2, <2>1, <3>1, <3>2
  <2> QED
    BY <2>4, <2>5
<1>7. Nat \subseteq S
  <2> HIDE DEF S
  <2> QED
    BY <1>5, <1>6, SetInduction
<1>8. r(enough).todo = << >>
  <2> SUFFICES ASSUME r(enough).todo # << >>
               PROVE  FALSE
    OBVIOUS
  <2>1. Left(r(enough)) + enough <= enough
    BY <1>2, <1>7
  <2>2. InTree(r(enough), t, n)
    BY <1>2, <1>3
  <2>3. r(enough).todo \in Seq(STRING)
    BY <2>2 DEF InTree
  <2> HIDE DEF r, enough
  <2>4. Len(r(enough).todo) \in Nat \ {0}
    BY <2>3, EmptySeq
  <2>5. Left(r(enough)) \in Nat /\ Left(r(enough)) >= Len(r(enough).todo)
    BY <1>4, <2>2
  <2> QED
    BY <1>2, <2>1, <2>4, <2>5
<1> QED
  BY <1>8 DEF Resolve

\* A name is found in the tree, or nowhere.
LEMMA FindInTree ==
    ASSUME NEW t, NEW n \in Nat, IsTree(t, n), NEW name \in Seq(STRING)
    PROVE  Find(t, name) \in DOMAIN t \cup {Nowhere}
<1> DEFINE s == Resolving(t, Root, name, 0, FALSE)
           k == EnoughSteps(name)
           end == Resolution(s)[k]
<1>1. k \in Nat
  BY EnoughIsANumber
<1>2. InTree(s, t, n) /\ s.making = FALSE /\ s.tree = t
  <2>1. InTree(s, t, n)
    BY ResolutionBegins, Zenon
  <2>2. s.making = FALSE /\ s.tree = t
    BY DEF Resolving
  <2> QED
    BY <2>1, <2>2
<1> HIDE DEF s, k
<1>3. InTree(end, t, n) /\ end.tree = t
  BY <1>1, <1>2, ResolutionStaysInTree, ResolutionMakesNothing
<1>4. end.at \in DOMAIN t \cup {Nowhere}
  BY <1>3 DEF InTree
<1> QED
  BY <1>4, TreeIsThere DEF Find, Resolve, s, k

-----------------------------------------------------------------------------
(* What the operations do to the tree.                                     *)

\* What is in t is in u as well, perhaps of another owner or with another mode.
Similar(t, u) ==
    \A p \in DOMAIN t : p \in DOMAIN u /\ u[p].kind = t[p].kind /\ u[p].target = t[p].target

\* An operation fails, or there is a tree after it.
TreeOrRefused(t, n) == t = Refused \/ IsTree(t, n)

\* MkdirAll only adds to the tree.
LEMMA MkdirAllKeepsTree ==
    ASSUME NEW t, NEW n \in Nat, TreeOrRefused(t, n),
           NEW name \in Seq(STRING)
    PROVE  /\ TreeOrRefused(MkdirAll(t, name), n)
           /\ MkdirAll(t, name) # Refused =>
                  IsTree(t, n) /\ Grown(t, MkdirAll(t, name))
<1>1. CASE t = Refused
  BY <1>1 DEF MkdirAll, TreeOrRefused
<1>2. CASE IsTree(t, n)
  <2> DEFINE s == Resolving(t, Root, name, 0, TRUE)
             end == Resolution(s)[EnoughSteps(name)]
  <2>1. InTree(s, t, n)
    BY <1>2, ResolutionBegins
  <2>2. InTree(end, t, n)
    <3> HIDE DEF s
    <3> QED
      BY <2>1, EnoughIsANumber, ResolutionStaysInTree
  <2>3. IsTree(end.tree, n) /\ Grown(t, end.tree)
    BY <2>2 DEF InTree
  <2>4. MkdirAll(t, name) \in {end.tree, Refused}
    BY DEF MkdirAll, Resolve
  <2> HIDE DEF end
  <2> QED
    BY <1>2, <2>3, <2>4 DEF TreeOrRefused
<1> QED
  BY <1>1, <1>2 DEF TreeOrRefused

\* The tree in which nothing has been made.
LEMMA EmptyTreeIsTree ==
    ASSUME NEW n \in Nat
    PROVE  IsTree(EmptyTree, n)
<1> DEFINE t == EmptyTree
<1>1. t = [p \in {<< >>} |-> Directory]
  BY DEF EmptyTree, Root
<1> HIDE DEF t
<1>2. DOMAIN t = {<< >>} /\ t[<< >>] = Directory
  BY <1>1
<1>3. IsPlace(t, << >>)
  BY EmptySeq DEF IsPlace
<1> QED
  BY <1>1, <1>2, <1>3, DirectoryIsNode DEF IsTree, Root, t, Directory, Node

\* The components of a name that has been cleaned are ordinary.
Plain(name) == name \in Seq(STRING) /\ \A i \in 1 .. Len(name) : name[i] \in Ordinary

\* Clean takes every component for a directory, so that none of "", "." and ".." is left.
LEMMA CleanIsPlain ==
    ASSUME NEW name \in Seq(STRING)
    PROVE  Clean(name) = Nowhere \/ Plain(Clean(name))
<1> DEFINE s == Resolving(EmptyTree, Root, name, 0, TRUE)
           end == Resolution(s)[Len(name)]
<1>1. InTree(s, EmptyTree, 0) /\ Len(name) \in Nat
  <2>1. IsTree(EmptyTree, 0)
    BY EmptyTreeIsTree
  <2>2. InTree(s, EmptyTree, 0)
    BY <2>1, ResolutionBegins, Zenon
  <2>3. Len(name) \in Nat
    OBVIOUS
  <2> QED
    BY <2>2, <2>3
<1>2. InTree(end, EmptyTree, 0)
  <2> HIDE DEF s
  <2> QED
    BY <1>1, ResolutionStaysInTree
<1>3. end.at = Nowhere \/ Plain(end.at)
  <2> HIDE DEF end
  <2> QED
    BY <1>2 DEF InTree, IsTree, IsPlace, Plain
<1> QED
  BY <1>3 DEF Clean
\* One place is beneath another if its name begins with the other's.
LEMMA BeneathMeans ==
    ASSUME NEW q \in Seq(STRING), NEW p \in Seq(STRING)
    PROVE  IsPrefix(q, p) <=> Len(q) <= Len(p) /\ SubSeq(p, 1, Len(q)) = q
<1>1. SubSeq(q, 1, Len(q)) = q
  BY SubSeqFull, Zenon
<1> QED
  BY <1>1 DEF IsPrefix

\* What is beneath a place is also above nothing that is not beneath it.
LEMMA BeneathIsTransitive ==
    ASSUME NEW q \in Seq(STRING), NEW p \in Seq(STRING), NEW l \in 0 .. Len(p),
           IsPrefix(q, SubSeq(p, 1, l))
    PROVE  IsPrefix(q, p)
<1> DEFINE b == SubSeq(p, 1, l)
<1>1. b \in Seq(STRING) /\ Len(p) \in Nat /\ Len(q) \in Nat
  OBVIOUS
<1>2. Len(b) = l
  BY LengthOfBeginning, Zenon
<1>3. \A i \in 1 .. l : b[i] = p[i]
  OBVIOUS
<1> HIDE DEF b
<1>4. Len(q) <= Len(b) /\ SubSeq(b, 1, Len(q)) = q
  BY <1>1, BeneathMeans, Zenon DEF b
<1>5. SubSeq(b, 1, Len(q)) = SubSeq(p, 1, Len(q))
  BY <1>1, <1>2, <1>3, <1>4, SameBeginning
<1>6. Len(q) <= Len(p) /\ SubSeq(p, 1, Len(q)) = q
  BY <1>1, <1>2, <1>4, <1>5
<1> QED
  BY <1>1, <1>6, BeneathMeans, Zenon

\* A name has a place in a directory of the tree, or none.
LEMMA PlaceIsInDirectory ==
    ASSUME NEW t, NEW n \in Nat, TreeOrRefused(t, n),
           NEW name \in Seq(STRING), name # << >>
    PROVE  \/ Place(t, name) = Nowhere
           \/ /\ IsTree(t, n)
              /\ \E d \in DOMAIN t : /\ t[d].kind = "dir"
                                     /\ Place(t, name) = Append(d, Last(name))
<1> DEFINE d == Find(t, Front(name))
<1>1. CASE t = Refused
  BY <1>1 DEF Find, Place, Kind, Refused, Root
<1>2. CASE IsTree(t, n) /\ Kind(t, d) = "dir"
  BY <1>2 DEF Place, Kind, Root
<1>3. CASE Kind(t, d) # "dir"
  BY <1>3 DEF Place, Root
<1> QED
  BY <1>1, <1>2, <1>3 DEF TreeOrRefused

\* RemoveAll removes a name with everything beneath it, so that nothing loses its directory.
LEMMA RemoveAllKeepsTree ==
    ASSUME NEW t, NEW n \in Nat, IsTree(t, n),
           NEW name \in Seq(STRING), name # << >>
    PROVE  IsTree(RemoveAll(t, name), n)
<1> DEFINE u == RemoveAll(t, name)
           top == Place(t, name)
<1>1. /\ \A p \in DOMAIN t : \A l \in 0 .. Len(p) :
             IsPrefix(top, SubSeq(p, 1, l)) => IsPrefix(top, p)
      /\ ~IsPrefix(top, << >>)
  <2>1. CASE top = Nowhere
    <3>1. Len(top) = 1 /\ SubSeq(top, 1, 1)[1] = ".."
      BY <2>1 DEF Nowhere
    <3>2. ~IsPrefix(top, << >>)
      BY <3>1 DEF IsPrefix
    <3>3. ASSUME NEW p \in DOMAIN t
          PROVE  ~IsPrefix(top, p)
      <4>1. p \in Seq(STRING) /\ \A i \in 1 .. Len(p) : p[i] # ".."
        BY DEF IsTree, IsPlace, Ordinary
      <4>2. Len(p) \in Nat /\ (Len(p) >= 1 => SubSeq(p, 1, 1)[1] = p[1])
        BY <4>1
      <4> QED
        BY <3>1, <4>1, <4>2 DEF IsPrefix
    <3>4. ASSUME NEW p \in DOMAIN t, NEW l \in 0 .. Len(p)
          PROVE  SubSeq(p, 1, l) \in DOMAIN t
      <4>1. p \in Seq(STRING) /\ SubSeq(p, 1, Len(p)) = p /\ Len(p) \in Nat
        BY SubSeqFull DEF IsTree, IsPlace
      <4>2. l = Len(p) \/ l \in 0 .. Len(p) - 1
        <5>1. Len(p) \in Nat
          BY <4>1
        <5> QED
          BY <5>1
      <4> QED
        BY <4>1, <4>2 DEF IsTree, IsPlace
    <3> QED
      BY <3>2, <3>3, <3>4
  <2>2. CASE top # Nowhere
    <3>1. PICK d \in DOMAIN t : top = Append(d, Last(name))
      BY <2>2, PlaceIsInDirectory DEF TreeOrRefused
    <3>2. d \in Seq(STRING) /\ Last(name) \in STRING
      BY FrontOfName, Zenon DEF IsTree, IsPlace
    <3>3. top \in Seq(STRING) /\ Len(top) = Len(d) + 1 /\ Len(d) \in Nat
      BY <3>1, <3>2, AppendProperties
    <3>4. ~IsPrefix(top, << >>)
      BY <3>3 DEF IsPrefix
    <3>5. \A p \in DOMAIN t : p \in Seq(STRING)
      BY DEF IsTree, IsPlace
    <3> HIDE DEF top
    <3> QED
      BY <3>3, <3>4, <3>5, BeneathIsTransitive
  <2> QED
    BY <2>1, <2>2
<1> HIDE DEF top
<1>2. /\ u = [p \in DOMAIN u |-> u[p]]
      /\ DOMAIN u = {p \in DOMAIN t : ~IsPrefix(top, p)}
      /\ \A p \in DOMAIN u : u[p] = t[p]
  BY DEF RemoveAll, top
<1> HIDE DEF u
<1>3. \A p \in DOMAIN t : p \in Seq(STRING)
  BY DEF IsTree, IsPlace
<1>4. Root \in DOMAIN u /\ u[Root].kind = "dir"
  BY <1>1, <1>2 DEF IsTree, Root
<1>5. ASSUME NEW p \in DOMAIN u
      PROVE  IsPlace(u, p)
  <2>1. p \in DOMAIN t /\ IsPlace(t, p) /\ ~IsPrefix(top, p) /\ p \in Seq(STRING)
    BY <1>2, <1>3 DEF IsTree
  <2>2. Len(p) \in Nat
    BY <2>1
  <2>3. ASSUME NEW l \in 0 .. Len(p) - 1
        PROVE  SubSeq(p, 1, l) \in DOMAIN u
    <3>1. l \in 0 .. Len(p)
      BY <2>2
    <3>2. ~IsPrefix(top, SubSeq(p, 1, l))
      BY <1>1, <2>1, <3>1
    <3> QED
      BY <1>2, <2>1, <3>2 DEF IsPlace
  <2> QED
    BY <1>2, <2>1, <2>3 DEF IsPlace
<1>6. IsTree(u, n)
  BY <1>2, <1>4, <1>5 DEF IsTree
<1> QED
  BY <1>6 DEF u

\* Create puts a node where nothing is.
LEMMA CreateKeepsTree ==
    ASSUME NEW t, NEW n \in Nat, TreeOrRefused(t, n),
           NEW name, Plain(name), name # << >>, NEW node \in Nodes(n), LinkIsRelative(node)
    PROVE  /\ TreeOrRefused(Create(t, name, node), n)
           /\ Create(t, name, node) # Refused =>
                  Place(t, name) # Nowhere /\ Similar(t, Create(t, name, node))
<1> DEFINE p == Place(t, name)
<1>1. CASE p \in {Nowhere} \cup DOMAIN t
  BY <1>1 DEF Create, TreeOrRefused
<1>2. CASE p \notin {Nowhere} \cup DOMAIN t
  <2>1. name \in Seq(STRING)
    BY DEF Plain
  <2>2. IsTree(t, n)
    BY <1>2, <2>1, PlaceIsInDirectory
  <2>3. PICK d \in DOMAIN t : t[d].kind = "dir" /\ p = Append(d, Last(name))
    BY <1>2, <2>1, PlaceIsInDirectory
  <2>4. Last(name) \in Ordinary
    <3>1. Len(name) \in Nat \ {0}
      BY <2>1, EmptySeq
    <3> QED
      BY <3>1 DEF Plain, Last
  <2> HIDE DEF p
  <2>5. IsTree(Put(t, p, node), n)
    BY <1>2, <2>2, <2>3, <2>4, PutKeepsTree
  <2>6. Similar(t, Put(t, p, node))
    BY <1>2 DEF Put, Similar
  <2> QED
    BY <1>2, <2>5, <2>6 DEF Create, TreeOrRefused, p
<1> QED
  BY <1>1, <1>2

\* Link puts the node of another place where nothing is.
LEMMA LinkKeepsTree ==
    ASSUME NEW t, NEW n \in Nat, TreeOrRefused(t, n),
           NEW name, Plain(name), name # << >>, NEW target \in Seq(STRING), target # << >>
    PROVE  /\ TreeOrRefused(Link(t, target, name), n)
           /\ Link(t, target, name) # Refused =>
                  Place(t, name) # Nowhere /\ Similar(t, Link(t, target, name))
<1> DEFINE q == Place(t, target)
<1>1. CASE q \notin DOMAIN t
  BY <1>1 DEF Link, Kind, TreeOrRefused
<1>2. CASE q \in DOMAIN t
  <2>1. IsTree(t, n)
    BY <1>2 DEF TreeOrRefused, Refused
  <2>2. t[q] \in Nodes(n) /\ LinkIsRelative(t[q])
    BY <1>2, <2>1 DEF IsTree
  <2>3. /\ TreeOrRefused(Create(t, name, t[q]), n)
        /\ Create(t, name, t[q]) # Refused =>
               Place(t, name) # Nowhere /\ Similar(t, Create(t, name, t[q]))
    BY <2>2, CreateKeepsTree
  <2> QED
    BY <2>3 DEF Link, TreeOrRefused
<1> QED
  BY <1>1, <1>2

\* Owners and modes change no tree.
LEMMA SameShapeKeepsTree ==
    ASSUME NEW t, NEW n \in Nat, IsTree(t, n),
           NEW u, u = [p \in DOMAIN t |-> u[p]],
           \A p \in DOMAIN t : /\ u[p] \in Nodes(n)
                               /\ u[p].kind = t[p].kind /\ u[p].target = t[p].target
    PROVE  IsTree(u, n)
<1>1. DOMAIN u = DOMAIN t
  OBVIOUS
<1>2. \A p \in DOMAIN t : IsPlace(u, p) /\ LinkIsRelative(u[p])
  BY <1>1 DEF IsTree, IsPlace, LinkIsRelative
<1> QED
  BY <1>1, <1>2 DEF IsTree

\* Lchown changes owners, and clears the mode of files.
LEMMA LchownKeepsTree ==
    ASSUME NEW t, NEW n \in Nat, TreeOrRefused(t, n), NEW name, NEW owner \in Nat
    PROVE  /\ TreeOrRefused(Lchown(t, name, owner), n)
           /\ Lchown(t, name, owner) # Refused =>
                  Similar(t, Lchown(t, name, owner))
<1> DEFINE p == Place(t, name)
           u == Lchown(t, name, owner)
<1>1. CASE p \notin DOMAIN t
  BY <1>1 DEF Lchown, TreeOrRefused
<1>2. CASE p \in DOMAIN t
  <2>1. IsTree(t, n)
    BY <1>2 DEF TreeOrRefused, Refused
  <2>2. /\ u = [q \in DOMAIN t |-> u[q]]
        /\ \A q \in DOMAIN t :
              u[q] = IF q \notin SameFile(t, p) THEN t[q] ELSE Owned(t[q], owner)
    BY <1>2 DEF Lchown
  <2>3. \A node \in Nodes(n) :
            LET changed == Owned(node, owner) IN
            changed \in Nodes(n) /\ changed.kind = node.kind /\ changed.target = node.target
    BY DEF Nodes, Owned
  <2>4. \A q \in DOMAIN t : t[q] \in Nodes(n)
    BY <2>1 DEF IsTree
  <2> HIDE DEF u
  <2>5. \A q \in DOMAIN t :
            u[q] \in Nodes(n) /\ u[q].kind = t[q].kind /\ u[q].target = t[q].target
    BY <2>2, <2>3, <2>4
  <2>6. IsTree(u, n)
    BY <2>1, <2>2, <2>5, SameShapeKeepsTree
  <2>7. Similar(t, u)
    BY <2>2, <2>5 DEF Similar
  <2> QED
    BY <2>6, <2>7 DEF TreeOrRefused, u
<1> QED
  BY <1>1, <1>2

\* Chmod changes modes.
LEMMA ChmodKeepsTree ==
    ASSUME NEW t, NEW n \in Nat, TreeOrRefused(t, n), NEW name, NEW mode \in {"plain", "setuid"}
    PROVE  /\ TreeOrRefused(Chmod(t, name, mode), n)
           /\ Chmod(t, name, mode) # Refused => Similar(t, Chmod(t, name, mode))
<1> DEFINE p == Find(t, name)
           u == Chmod(t, name, mode)
<1>1. CASE p \notin DOMAIN t
  BY <1>1 DEF Chmod, TreeOrRefused
<1>2. CASE p \in DOMAIN t
  <2>1. IsTree(t, n)
    BY <1>2 DEF TreeOrRefused, Refused
  <2>2. /\ u = [q \in DOMAIN t |-> u[q]]
        /\ \A q \in DOMAIN t :
              u[q] = IF q \in SameFile(t, p) THEN [t[q] EXCEPT !.mode = mode] ELSE t[q]
    BY <1>2 DEF Chmod
  <2>3. \A node \in Nodes(n) :
            LET changed == [node EXCEPT !.mode = mode] IN
            changed \in Nodes(n) /\ changed.kind = node.kind /\ changed.target = node.target
    BY DEF Nodes
  <2>4. \A q \in DOMAIN t : t[q] \in Nodes(n)
    BY <2>1 DEF IsTree
  <2> HIDE DEF u
  <2>5. \A q \in DOMAIN t :
            u[q] \in Nodes(n) /\ u[q].kind = t[q].kind /\ u[q].target = t[q].target
    BY <2>2, <2>3, <2>4
  <2>6. IsTree(u, n)
    BY <2>1, <2>2, <2>5, SameShapeKeepsTree
  <2>7. Similar(t, u)
    BY <2>2, <2>5 DEF Similar
  <2> QED
    BY <2>6, <2>7 DEF TreeOrRefused, u
<1> QED
  BY <1>1, <1>2
\* The function of no places is Refused.
LEMMA NoPlaces ==
    ASSUME NEW f, f = [p \in {} |-> f[p]]
    PROVE  f = Refused
<1>1. f \in [1 .. 0 -> STRING]
  OBVIOUS
<1>2. f \in Seq(STRING) /\ Len(f) = 0
  BY <1>1
<1>3. f = << >>
  BY <1>2, EmptySeq
<1> QED
  BY <1>3 DEF Refused

\* RemoveAll does not fail where there is nothing.
LEMMA RemoveAllOrRefused ==
    ASSUME NEW t, NEW n \in Nat, TreeOrRefused(t, n),
           NEW name \in Seq(STRING), name # << >>
    PROVE  TreeOrRefused(RemoveAll(t, name), n)
<1>1. CASE t = Refused
  <2> DEFINE u == RemoveAll(t, name)
  <2>1. u = [p \in {} |-> u[p]]
    BY <1>1 DEF RemoveAll, Refused
  <2> HIDE DEF u
  <2>2. u = Refused
    BY <2>1, NoPlaces, Zenon
  <2> QED
    BY <2>2 DEF u, TreeOrRefused
<1>2. CASE IsTree(t, n)
  BY <1>2, RemoveAllKeepsTree DEF TreeOrRefused
<1> QED
  BY <1>1, <1>2 DEF TreeOrRefused

\* What an entry of the archive is.
LEMMA EntryFields ==
    ASSUME NEW e \in Entries
    PROVE  /\ e.name \in Seq(STRING) /\ e.target \in Seq(STRING)
           /\ e.name # << >> /\ Len(e.target) \in 1 .. LongestTarget
           /\ e.owner \in Nat /\ e.mode \in {"plain", "setuid"}
           /\ e.type \in EntryTypes
  BY EntriesAssumption

\* A name of the archive that has been accepted is plain.
LEMMA CleanArchivePathIsPlain ==
    ASSUME NEW name \in Seq(STRING)
    PROVE  CleanArchivePath(name) = Nowhere \/ Plain(CleanArchivePath(name))
  BY CleanIsPlain DEF CleanArchivePath

\* Owner and mode are applied to a tree.
LEMMA ApplyMetadataKeepsTree ==
    ASSUME NEW t, NEW n \in Nat, TreeOrRefused(t, n), NEW name,
           NEW e \in Entries, NEW symbolicLink
    PROVE  /\ TreeOrRefused(ApplyMetadata(t, name, e, symbolicLink), n)
           /\ ApplyMetadata(t, name, e, symbolicLink) # Refused =>
                  t # Refused /\ Similar(t, ApplyMetadata(t, name, e, symbolicLink))
<1>1. e.owner \in Nat /\ e.mode \in {"plain", "setuid"}
  BY EntryFields
<1> DEFINE u == Lchown(t, name, e.owner)
           v == Chmod(u, name, e.mode)
<1>2. TreeOrRefused(u, n) /\ (u # Refused => Similar(t, u))
  BY <1>1, LchownKeepsTree
<1>3. t = Refused => u = Refused
  BY DEF Lchown, Refused
<1> HIDE DEF u
<1>4. TreeOrRefused(v, n) /\ (v # Refused => Similar(u, v))
  BY <1>1, <1>2, ChmodKeepsTree
<1>5. u = Refused => v = Refused
  BY DEF Chmod, Refused
<1> HIDE DEF v
<1>6. v # Refused => u # Refused /\ Similar(t, v)
  BY <1>2, <1>4, <1>5 DEF Similar
<1>7. ApplyMetadata(t, name, e, symbolicLink) = IF symbolicLink THEN u ELSE v
  BY DEF ApplyMetadata, u, v
<1> QED
  BY <1>2, <1>3, <1>4, <1>6, <1>7

\* Two resolutions that make nothing stand at the same place, unless that in t has given up.
Together(a, b, t, u) ==
    /\ a.tree = t /\ a.making = FALSE
    /\ \/ /\ b.tree = u /\ b.making = FALSE
          /\ b.at = a.at /\ b.todo = a.todo /\ b.hops = a.hops
       \/ a.at = Nowhere /\ a.todo = << >>

\* They do so after another step.
LEMMA FollowTogether ==
    ASSUME NEW t, NEW u, NEW n \in Nat, Similar(t, u), NEW a, NEW b,
           InTree(a, t, n), Together(a, b, t, u)
    PROVE  Together(Follow(a), Follow(b), t, u)
<1> DEFINE f == Follow(a)
           g == Follow(b)
<1>1. CASE a.todo = << >>
  <2>1. Follow(a) = a
    BY <1>1 DEF Follow
  <2>2. CASE b.todo = a.todo
    <3>1. Follow(b) = b
      BY <1>1, <2>2 DEF Follow
    <3> QED
      BY <2>1, <3>1
  <2>3. CASE a.at = Nowhere
    BY <1>1, <2>1, <2>3, Zenon DEF Together
  <2> QED
    BY <2>2, <2>3 DEF Together
<1>2. CASE a.todo # << >>
  <2>1. a.tree = t /\ a.making = FALSE
    BY DEF Together
  <2>2. /\ b.tree = u /\ b.at = a.at /\ b.todo = a.todo /\ b.hops = a.hops
        /\ b.making = FALSE
    BY <1>2, Zenon DEF Together
  <2>3. Part(b) = Part(a) /\ Onward(b) = Onward(a)
    BY <2>2 DEF Part, Onward
  <2>4. \/ Stays(a) \/ GoesUp(a) \/ GoesDown(a) \/ FollowsLink(a) \/ GivesUp(a)
    BY <1>2, <2>1, FollowIsOneOf DEF Makes, EndsInLink
  <2>5. \A at, todo, hops :
            /\ f = Resolving(t, at, todo, hops, FALSE)
            /\ g = Resolving(u, at, todo, hops, FALSE)
            => Together(f, g, t, u)
    BY DEF Resolving, Together
  <2>6. \A at, todo, hops :
            f = Resolving(t, Nowhere, << >>, hops, FALSE) => Together(f, g, t, u)
    BY DEF Resolving, Together
  <2> HIDE DEF f, g
  <2>7. CASE Stays(a)
    <3>1. g = Resolving(u, a.at, Tail(a.todo), a.hops, FALSE)
      BY <1>2, <2>2, <2>3, <2>7 DEF Stays, Part, Follow, g
    <3>3. f = Resolving(t, a.at, Tail(a.todo), a.hops, FALSE)
      BY <2>1, <2>7, Zenon DEF Stays, f
    <3> QED
      BY <2>5, <3>1, <3>3, Zenon DEF f, g
  <2>8. CASE GoesUp(a)
    <3>1. g = Resolving(u, Front(a.at), Tail(a.todo), a.hops, FALSE)
      BY <1>2, <2>2, <2>3, <2>8 DEF GoesUp, Part, Follow, g
    <3>3. f = Resolving(t, Front(a.at), Tail(a.todo), a.hops, FALSE)
      BY <2>1, <2>8, Zenon DEF GoesUp, f
    <3> QED
      BY <2>5, <3>1, <3>3, Zenon DEF f, g
  <2>9. CASE GoesDown(a)
    <3>1. Onward(a) \in DOMAIN u /\ u[Onward(a)].kind = t[Onward(a)].kind
      BY <2>1, <2>9 DEF GoesDown, Similar
    <3>2. g = Resolving(u, Onward(a), Tail(a.todo), a.hops, FALSE)
      BY <1>2, <2>1, <2>2, <2>3, <2>9, <3>1
         DEF GoesDown, Part, Onward, Follow, Kind, g
    <3>3. f = Resolving(t, Onward(a), Tail(a.todo), a.hops, FALSE)
      BY <2>1, <2>9, Zenon DEF GoesDown, f
    <3> QED
      BY <2>5, <3>2, <3>3, Zenon DEF f, g
  <2>10. CASE FollowsLink(a)
    <3>1. /\ Onward(a) \in DOMAIN u /\ u[Onward(a)].kind = t[Onward(a)].kind
          /\ u[Onward(a)].target = t[Onward(a)].target
      BY <2>1, <2>10 DEF FollowsLink, Similar
    <3>2. g = Resolving(u, a.at, t[Onward(a)].target \o Tail(a.todo), a.hops + 1, FALSE)
      BY <1>2, <2>1, <2>2, <2>3, <2>10, <3>1
         DEF FollowsLink, Part, Onward, Follow, Kind, g
    <3>3. f = Resolving(t, a.at, t[Onward(a)].target \o Tail(a.todo), a.hops + 1, FALSE)
      BY <2>1, <2>10, Zenon DEF FollowsLink, f
    <3> QED
      BY <2>5, <3>2, <3>3, Zenon DEF f, g
  <2>11. CASE GivesUp(a)
    <3>1. f = Resolving(t, Nowhere, << >>, a.hops, FALSE)
      BY <2>1, <2>11, Zenon DEF GivesUp, f
    <3> QED
      BY <2>6, <3>1, Zenon DEF f, g
  <2> QED
    BY <2>4, <2>7, <2>8, <2>9, <2>10, <2>11 DEF f, g
<1> QED
  BY <1>1, <1>2

\* What a name leads to, it leads to in every tree that has grown out of this one.
LEMMA FindAgrees ==
    ASSUME NEW t, NEW n \in Nat, IsTree(t, n), NEW u, Similar(t, u),
           NEW name \in Seq(STRING), Find(t, name) # Nowhere
    PROVE  Find(u, name) = Find(t, name)
<1> DEFINE a == Resolving(t, Root, name, 0, FALSE)
           b == Resolving(u, Root, name, 0, FALSE)
           after(s, k) == Resolution(s)[k]
           S == {k \in Nat : Together(after(a, k), after(b, k), t, u)}
           enough == EnoughSteps(name)
<1>1. InTree(a, t, n)
  BY ResolutionBegins
<1>2. Together(a, b, t, u)
  BY DEF Resolving, Together
<1> HIDE DEF a, b
<1>3. 0 \in S
  BY <1>2, ResolutionSteps
<1>4. ASSUME NEW k \in Nat, k \in S
      PROVE  k + 1 \in S
  <2>1. k + 1 \in Nat /\ k + 1 # 0 /\ (k + 1) - 1 = k
    OBVIOUS
  <2>2. after(a, k + 1) = Follow(after(a, k)) /\ after(b, k + 1) = Follow(after(b, k))
    BY <2>1, ResolutionSteps
  <2>3. InTree(after(a, k), t, n)
    BY <1>1, ResolutionStaysInTree
  <2>4. Together(after(a, k), after(b, k), t, u)
    BY <1>4
  <2> HIDE DEF after
  <2>5. Together(after(a, k + 1), after(b, k + 1), t, u)
    BY <2>2, <2>3, <2>4, FollowTogether
  <2> QED
    BY <2>1, <2>5
<1>5. Nat \subseteq S
  <2> HIDE DEF S
  <2> QED
    BY <1>3, <1>4, SetInduction
<1>6. Together(after(a, enough), after(b, enough), t, u)
  BY <1>5, EnoughIsANumber
<1>7. t # Refused /\ u # Refused
  <2>1. Root \in DOMAIN t /\ Root \in DOMAIN u
    BY DEF IsTree, Similar
  <2> QED
    BY <2>1 DEF Refused
<1>8. Find(t, name) = after(a, enough).at /\ Find(u, name) = after(b, enough).at
  BY <1>7 DEF Find, Resolve, a, b
<1> HIDE DEF after
<1> QED
  BY <1>6, <1>8 DEF Together

\* So is the place of a name.
LEMMA PlaceAgrees ==
    ASSUME NEW t, NEW n \in Nat, IsTree(t, n), NEW u, Similar(t, u),
           NEW name \in Seq(STRING), name # << >>, Place(t, name) # Nowhere
    PROVE  Place(u, name) = Place(t, name)
<1> DEFINE d == Find(t, Front(name))
<1>1. Kind(t, d) = "dir"
  BY DEF Place, Root
<1>2. d \in DOMAIN t
  BY <1>1 DEF Kind
<1>3. Front(name) \in Seq(STRING) /\ d # Nowhere
  BY <1>2, FrontOfName, TreeIsThere
<1>4. Find(u, Front(name)) = d
  BY <1>3, FindAgrees
<1>5. Kind(u, d) = "dir"
  BY <1>1, <1>2 DEF Kind, Similar
<1> QED
  BY <1>1, <1>4, <1>5 DEF Place

\* What an entry has removed is beneath the place where it now is.
LEMMA RemovedIsBeneath ==
    ASSUME NEW n \in Nat, NEW made, IsTree(made, n), NEW final,
           NEW name \in Seq(STRING), name # << >>,
           Similar(RemoveAll(made, name), final),
           Place(RemoveAll(made, name), name) # Nowhere
    PROVE  \A p \in DOMAIN made \ DOMAIN final : IsPrefix(Place(final, name), p)
<1> DEFINE removed == RemoveAll(made, name)
           top == Place(made, name)
<1>1. IsTree(removed, n)
  BY RemoveAllKeepsTree
<1>2. /\ DOMAIN removed = {p \in DOMAIN made : ~IsPrefix(top, p)}
      /\ \A p \in DOMAIN removed : removed[p] = made[p]
  BY DEF RemoveAll
<1> HIDE DEF removed, top
<1>3. Similar(removed, made)
  BY <1>2 DEF Similar
<1>4. Similar(removed, final) /\ Place(removed, name) # Nowhere
  BY DEF removed
<1>5. top = Place(removed, name) /\ Place(final, name) = Place(removed, name)
  BY <1>1, <1>3, <1>4, PlaceAgrees DEF top
<1>6. \A p \in DOMAIN made : p \notin DOMAIN final => IsPrefix(top, p)
  BY <1>2, <1>4 DEF Similar
<1> QED
  BY <1>5, <1>6

\* An operation has failed, or there is a tree after it, in which nothing is missing but what
\* was beneath the place of the name.
RemovesBeneath(t, name, u, n) ==
    /\ TreeOrRefused(u, n)
    /\ u # Refused =>
          \A p \in DOMAIN t \ DOMAIN u : IsPrefix(Place(u, name), p)

\* So it is when an entry has been removed and made anew.
LEMMA MadeAnew ==
    ASSUME NEW t, NEW n \in Nat, NEW e \in Entries, NEW symbolicLink,
           NEW name \in Seq(STRING), name # << >>,
           NEW made, TreeOrRefused(made, n), made # Refused => Grown(t, made),
           NEW created, TreeOrRefused(created, n),
           created # Refused =>
               /\ Place(RemoveAll(made, name), name) # Nowhere
               /\ Similar(RemoveAll(made, name), created)
    PROVE  RemovesBeneath(t, name, ApplyMetadata(created, name, e, symbolicLink), n)
<1> DEFINE removed == RemoveAll(made, name)
           final == ApplyMetadata(created, name, e, symbolicLink)
<1>1. /\ TreeOrRefused(final, n)
      /\ final # Refused => created # Refused /\ Similar(created, final)
  BY ApplyMetadataKeepsTree
<1> HIDE DEF final
<1>2. ASSUME final # Refused
      PROVE  \A p \in DOMAIN t \ DOMAIN final : IsPrefix(Place(final, name), p)
  <2>1. Place(removed, name) # Nowhere /\ Similar(removed, final)
    BY <1>1, <1>2 DEF Similar
  <2>2. DOMAIN removed \subseteq DOMAIN made
    BY DEF RemoveAll
  <2>3. TreeOrRefused(removed, n)
    BY RemoveAllOrRefused
  <2> HIDE DEF removed
  <2>4. Root \in DOMAIN removed
    BY <2>1, <2>3, PlaceIsInDirectory DEF IsTree
  <2>5. IsTree(made, n)
    BY <2>2, <2>4 DEF TreeOrRefused, Refused
  <2>6. \A p \in DOMAIN made \ DOMAIN final : IsPrefix(Place(final, name), p)
    BY <2>1, <2>5, RemovedIsBeneath DEF removed
  <2>7. Grown(t, made)
    BY <2>5, TreeIsThere
  <2> QED
    BY <2>6, <2>7 DEF Grown
<1> QED
  BY <1>1, <1>2 DEF RemovesBeneath, final

\* An entry that makes something makes it in a tree, and removes only its own.
LEMMA CreateArchiveEntryKeepsTree ==
    ASSUME NEW t, NEW n \in Nat, IsTree(t, n), NEW e \in Entries,
           NEW name, Plain(name), name # << >>
    PROVE  RemovesBeneath(t, name, CreateArchiveEntry(t, e, name, n), n)
<1> DEFINE made == IF Len(name) = 1 THEN t ELSE MkdirAll(t, Front(name))
           again == MkdirAll(made, name)
           target == CleanArchivePath(e.target)
           removed == RemoveAll(made, name)
           file == Create(removed, name, File(n))
           link == Create(removed, name, Symlink(n, e.target))
           hard == Link(removed, target, name)
           result == CreateArchiveEntry(t, e, name, n)
           Good(u) == RemovesBeneath(t, name, u, n)
           Fresh(u) == /\ TreeOrRefused(u, n)
                       /\ u # Refused =>
                             Place(removed, name) # Nowhere /\ Similar(removed, u)
<1>1. name \in Seq(STRING) /\ Front(name) \in Seq(STRING)
  BY FrontOfName DEF Plain
<1>2. TreeOrRefused(made, n) /\ (made # Refused => Grown(t, made))
  <2>1. Grown(t, t)
    BY DEF Grown
  <2> QED
    BY <1>1, <2>1, MkdirAllKeepsTree DEF TreeOrRefused
<1> HIDE DEF made
<1>3. /\ TreeOrRefused(again, n)
      /\ again # Refused => made # Refused /\ Grown(made, again)
  BY <1>1, <1>2, MkdirAllKeepsTree, TreeIsThere
<1>4. TreeOrRefused(removed, n)
  BY <1>1, <1>2, RemoveAllOrRefused
<1> HIDE DEF again
<1>5. Good(ApplyMetadata(again, name, e, FALSE))
  <2> DEFINE final == ApplyMetadata(again, name, e, FALSE)
  <2>1. /\ TreeOrRefused(final, n)
        /\ final # Refused => again # Refused /\ Similar(again, final)
    BY <1>3, ApplyMetadataKeepsTree
  <2> HIDE DEF final
  <2>2. final # Refused => DOMAIN t \subseteq DOMAIN final
    BY <1>2, <1>3, <2>1 DEF Grown, Similar
  <2> QED
    BY <2>1, <2>2 DEF RemovesBeneath, final
<1> HIDE DEF removed, Good
<1>6. \A u, symbolicLink : Fresh(u) => Good(ApplyMetadata(u, name, e, symbolicLink))
  BY <1>1, <1>2, MadeAnew DEF removed, Good
<1>7. Fresh(file)
  <2>1. File(n) \in Nodes(n) /\ LinkIsRelative(File(n))
    BY EmptySeq DEF File, Node, Nodes, LinkIsRelative
  <2> QED
    BY <1>4, <2>1, CreateKeepsTree
<1>8. ValidSymlink(name, e.target) => Fresh(link)
  <2> SUFFICES ASSUME ValidSymlink(name, e.target)
               PROVE  Fresh(link)
    OBVIOUS
  <2>1. e.target \in Seq(STRING) /\ Len(e.target) \in 1 .. LongestTarget /\ Head(e.target) # ""
    BY EntryFields DEF ValidSymlink
  <2>2. Symlink(n, e.target) \in Nodes(n)
    <3>1. n \in 0 .. n /\ 0 \in Nat
      OBVIOUS
    <3> HIDE DEF target
    <3> QED
      BY <2>1, <3>1 DEF Symlink, Node, Nodes
  <2>3. Symlink(n, e.target).target = e.target
    BY DEF Symlink, Node
  <2>4. LinkIsRelative(Symlink(n, e.target))
    BY <2>1, <2>3, Zenon DEF LinkIsRelative
  <2> QED
    BY <1>4, <2>2, <2>4, CreateKeepsTree
<1>9. target \notin {Nowhere, Root} => Fresh(hard)
  <2> SUFFICES ASSUME target \notin {Nowhere, Root}
               PROVE  Fresh(hard)
    OBVIOUS
  <2>1. target \in Seq(STRING) /\ target # << >>
    BY EntryFields, CleanArchivePathIsPlain DEF Plain, Root
  <2> HIDE DEF target
  <2> QED
    BY <1>4, <2>1, LinkKeepsTree
<1>10. \/ result = ApplyMetadata(again, name, e, FALSE)
       \/ result = ApplyMetadata(file, name, e, FALSE)
       \/ ValidSymlink(name, e.target) /\ result = ApplyMetadata(link, name, e, TRUE)
       \/ /\ target \notin {Nowhere, Root}
          /\ result = ApplyMetadata(hard, name, e, FALSE)
       \/ result = Refused
  BY DEF CreateArchiveEntry, made, again, removed
<1>11. Good(Refused)
  BY DEF Good, RemovesBeneath, TreeOrRefused
<1> HIDE DEF target, file, link, hard, result, Fresh
<1>12. Good(result)
  BY <1>5, <1>6, <1>7, <1>8, <1>9, <1>10, <1>11
<1> QED
  BY <1>12 DEF Good, result

\* An entry is refused, or there is a tree after it.
LEMMA ExtractEntryKeepsTree ==
    ASSUME NEW t, NEW n \in Nat, IsTree(t, n), NEW e \in Entries
    PROVE  RemovesBeneath(t, CleanArchivePath(e.name), ExtractEntry(t, e, n), n)
<1> DEFINE name == CleanArchivePath(e.name)
           result == ExtractEntry(t, e, n)
           root == ApplyMetadata(t, Root, e, FALSE)
<1>1. name = Nowhere \/ Plain(name)
  BY EntryFields, CleanArchivePathIsPlain
<1>2. \/ result = root
      \/ /\ name \notin {Root, Nowhere}
         /\ result = CreateArchiveEntry(t, e, name, n)
      \/ result = Refused
  BY DEF ExtractEntry
<1> HIDE DEF name, result
<1>3. CASE result = root
  <2>1. /\ TreeOrRefused(root, n)
        /\ root # Refused => Similar(t, root)
    BY ApplyMetadataKeepsTree DEF TreeOrRefused
  <2> HIDE DEF root
  <2>2. RemovesBeneath(t, name, result, n)
    BY <1>3, <2>1 DEF RemovesBeneath, Similar
  <2> QED
    BY <2>2 DEF name, result
<1>4. CASE /\ name \notin {Root, Nowhere}
           /\ result = CreateArchiveEntry(t, e, name, n)
  BY <1>1, <1>4, CreateArchiveEntryKeepsTree DEF Root, name, result
<1>5. CASE result = Refused
  BY <1>5 DEF RemovesBeneath, TreeOrRefused, name, result
<1> QED
  BY <1>2, <1>3, <1>4, <1>5

-----------------------------------------------------------------------------
(* Every archive.                                                          *)

\* What is in a tree after n entries may be there after more.
LEMMA LaterTree ==
    ASSUME NEW t, NEW n \in Nat, IsTree(t, n)
    PROVE  IsTree(t, n + 1)
<1>1. Nodes(n) \subseteq Nodes(n + 1)
  BY DEF Nodes
<1> QED
  BY <1>1 DEF IsTree

\* The inductive invariant of the extraction: LayerTypeOK, of a tree with its root.
LayerInv ==
    /\ phase \in {"open", "extract", "finish", "verify", "unpacked", "refused"}
    /\ archive \in Seq(Entries) /\ Len(archive) <= MaxEntries
    /\ IsTree(tree, Len(archive))
    /\ unread \in BOOLEAN
    /\ flaw \subseteq {"data", "diffID"}

\* It holds in the empty root.
LEMMA LayerInitInv ==
    ASSUME LayerInit
    PROVE  LayerInv
<1>1. << >> \in Seq(Entries) /\ Len(<< >>) = 0 /\ 0 <= MaxEntries
  BY EmptySeq, EntriesAssumption
<1>2. IsTree(EmptyTree, 0)
  BY EmptyTreeIsTree
<1> QED
  BY <1>1, <1>2 DEF LayerInit, LayerInv

\* Every entry keeps it, and removes only its own.
LEMMA LayerEntryKeepsInv ==
    ASSUME LayerInv, NEW e \in Entries, NextEntry(e)
    PROVE  /\ LayerInv'
           /\ \A p \in DOMAIN tree \ DOMAIN tree' :
                  IsPrefix(Place(tree', CleanArchivePath(Last(archive').name)), p)
<1> DEFINE n == Len(archive) + 1
           result == ExtractEntry(tree, e, n)
<1>1. n \in Nat /\ Len(archive) \in Nat
  BY DEF LayerInv
<1>2. archive' \in Seq(Entries) /\ Len(archive') = n /\ Last(archive') = e
  BY AppendProperties DEF LayerInv, NextEntry, Last
<1>3. n <= MaxEntries
  BY <1>1, EntriesAssumption DEF NextEntry
<1>4. IsTree(tree, n)
  BY <1>1, LaterTree DEF LayerInv
<1>5. RemovesBeneath(tree, CleanArchivePath(e.name), result, n)
  BY <1>1, <1>4, ExtractEntryKeepsTree
<1>6. \/ tree' = tree /\ phase' = "refused"
      \/ tree' = result /\ result # Refused /\ phase' = phase
  BY DEF NextEntry
<1> HIDE DEF n, result
<1>7. IsTree(tree', n)
  BY <1>4, <1>5, <1>6 DEF RemovesBeneath, TreeOrRefused
<1>8. \A p \in DOMAIN tree \ DOMAIN tree' :
          IsPrefix(Place(tree', CleanArchivePath(e.name)), p)
  BY <1>5, <1>6 DEF RemovesBeneath
<1>9. LayerInv'
  BY <1>2, <1>3, <1>6, <1>7 DEF LayerInv, NextEntry
<1> QED
  BY <1>2, <1>8, <1>9

\* Every step keeps it, and no other step changes the tree.
LEMMA LayerStepKeepsInv ==
    ASSUME LayerInv, [LayerNext]_layerVars
    PROVE  /\ LayerInv'
           /\ (\E e \in Entries : NextEntry(e)) \/ tree' = tree
<1>1. CASE \E e \in Entries : NextEntry(e)
  BY <1>1, LayerEntryKeepsInv
<1>2. CASE OpenLayer
  BY <1>2 DEF OpenLayer, LayerInv
<1>3. CASE EndOfArchive
  BY <1>3 DEF EndOfArchive, LayerInv
<1>4. CASE FinishReading
  BY <1>4 DEF FinishReading, LayerInv
<1>5. CASE StreamFails
  BY <1>5 DEF StreamFails, LayerInv
<1>6. CASE CompareDiffID
  BY <1>6 DEF CompareDiffID, LayerInv
<1>7. CASE UNCHANGED layerVars
  BY <1>7 DEF layerVars, LayerInv
<1> QED
  BY <1>1, <1>2, <1>3, <1>4, <1>5, <1>6, <1>7 DEF LayerNext

\* A tree is what LayerTypeOK takes it for.
LEMMA LayerInvIsTyped ==
    ASSUME LayerInv
    PROVE  LayerTypeOK
<1> DEFINE n == Len(archive)
<1>1. IsTree(tree, n)
  BY DEF LayerInv
<1>2. ASSUME NEW p \in DOMAIN tree
      PROVE  /\ tree[p].kind \in {"dir", "file", "symlink"}
             /\ tree[p].ino \in 0 .. n
             /\ tree[p].mode \in {"plain", "setuid"}
             /\ tree[p].kind = "symlink" => Head(tree[p].target) # ""
  BY <1>1 DEF IsTree, Nodes, LinkIsRelative
<1>3. ASSUME NEW p \in DOMAIN tree
      PROVE  /\ \A q \in Prefixes(p) \ {p} : Kind(tree, q) = "dir"
             /\ \A i \in DOMAIN p : p[i] \notin {"", ".", ".."}
  <2>1. p \in Seq(STRING) /\ IsPlace(tree, p)
    BY <1>1 DEF IsTree, IsPlace
  <2>2. Len(p) \in Nat /\ DOMAIN p = 1 .. Len(p) /\ SubSeq(p, 1, Len(p)) = p
    BY <2>1, SubSeqFull, LenProperties
  <2>3. ASSUME NEW l \in 0 .. Len(p), SubSeq(p, 1, l) # p
        PROVE  Kind(tree, SubSeq(p, 1, l)) = "dir"
    <3>1. l \in 0 .. Len(p) - 1
      <4>1. Len(p) \in Nat /\ l # Len(p)
        BY <2>2, <2>3
      <4> QED
        BY <4>1
    <3> QED
      BY <2>1, <3>1 DEF IsPlace, Kind
  <2>4. \A i \in DOMAIN p : p[i] \in Ordinary
    BY <2>1, <2>2 DEF IsPlace
  <2> QED
    BY <2>3, <2>4 DEF Prefixes, Ordinary
<1>4. TreeWellFormed
  BY <1>3 DEF TreeWellFormed
<1> QED
  BY <1>2, <1>4 DEF LayerInv, LayerTypeOK

\* Every variable has its type: whatever entries an archive holds, what has been made of it is
\* a tree beneath the root (image.go:373-500).
THEOREM LayerTypeCorrect == LayerSpec => []LayerTypeOK
<1>1. LayerInit => LayerInv
  BY LayerInitInv
<1>2. LayerInv /\ [LayerNext]_layerVars => LayerInv'
  BY LayerStepKeepsInv
<1>3. LayerInv => LayerTypeOK
  BY LayerInvIsTyped
<1> QED
  BY <1>1, <1>2, <1>3, PTL DEF LayerSpec

\* An entry removes nothing but what was beneath the place where it now is, whatever symbolic
\* links the archive has made (image.go:414-500).
THEOREM EntriesRemoveOnlyTheirOwn == LayerSpec => RemovesOnlyItsOwn
<1> DEFINE Own == \A p \in DOMAIN tree \ DOMAIN tree' :
                      IsPrefix(Place(tree', CleanArchivePath(Last(archive').name)), p)
<1>1. LayerInit => LayerInv
  BY LayerInitInv
<1>2. LayerInv /\ [LayerNext]_layerVars => LayerInv'
  BY LayerStepKeepsInv
<1>3. LayerInv /\ [LayerNext]_layerVars => [Own]_layerVars
  <2> SUFFICES ASSUME LayerInv, [LayerNext]_layerVars
               PROVE  Own
    OBVIOUS
  <2>1. CASE \E e \in Entries : NextEntry(e)
    BY <2>1, LayerEntryKeepsInv
  <2>2. CASE tree' = tree
    BY <2>2
  <2> QED
    BY <2>1, <2>2, LayerStepKeepsInv
<1> QED
  BY <1>1, <1>2, <1>3, PTL DEF LayerSpec, RemovesOnlyItsOwn

-----------------------------------------------------------------------------
(* Names and what is above them.                                           *)

\* A name begins with itself and with the root.
LEMMA PrefixReflexive ==
    ASSUME NEW p \in Seq(STRING)
    PROVE  IsPrefix(p, p) /\ IsPrefix(Root, p) /\ Root \in Seq(STRING)
<1>1. SubSeq(p, 1, Len(p)) = p /\ Len(p) \in Nat
  BY SubSeqFull, LenProperties
<1>2. SubSeq(p, 1, 0) = << >>
  BY SubSeqEmpty
<1>3. Len(Root) = 0 /\ Root = << >> /\ SubSeq(Root, 1, 0) = << >>
  BY EmptySeq DEF Root
<1> QED
  BY <1>1, <1>2, <1>3 DEF IsPrefix

\* Where a name begins with another, their components agree.
LEMMA PrefixComponents ==
    ASSUME NEW q \in Seq(STRING), NEW p \in Seq(STRING), IsPrefix(q, p)
    PROVE  /\ Len(q) \in Nat /\ Len(p) \in Nat /\ Len(q) <= Len(p)
           /\ \A i \in 1 .. Len(q) : q[i] = p[i]
<1>1. Len(q) \in Nat /\ Len(p) \in Nat
  OBVIOUS
<1>2. Len(q) <= Len(p) /\ SubSeq(p, 1, Len(q)) = q
  BY BeneathMeans, Zenon
<1>3. \A i \in 1 .. Len(q) : SubSeq(p, 1, Len(q))[i] = p[i]
  BY <1>1, <1>2
<1> QED
  BY <1>1, <1>2, <1>3

\* And then a name begins with the other.
LEMMA ComponentsPrefix ==
    ASSUME NEW q \in Seq(STRING), NEW p \in Seq(STRING), Len(q) <= Len(p),
           \A i \in 1 .. Len(q) : q[i] = p[i]
    PROVE  IsPrefix(q, p)
<1>1. Len(q) \in Nat /\ Len(p) \in Nat
  OBVIOUS
<1>2. SubSeq(q, 1, Len(q)) = SubSeq(p, 1, Len(q))
  BY <1>1, SameBeginning
<1> QED
  BY <1>2 DEF IsPrefix

\* The beginnings of a name.
LEMMA PrefixesMeans ==
    ASSUME NEW p \in Seq(STRING), NEW q
    PROVE  q \in Prefixes(p) <=> q \in Seq(STRING) /\ IsPrefix(q, p)
<1>1. ASSUME NEW l \in 0 .. Len(p)
      PROVE  SubSeq(p, 1, l) \in Seq(STRING) /\ IsPrefix(SubSeq(p, 1, l), p)
  <2> DEFINE b == SubSeq(p, 1, l)
  <2>1. b \in Seq(STRING) /\ Len(p) \in Nat
    OBVIOUS
  <2>2. Len(b) = l
    BY LengthOfBeginning, Zenon
  <2>3. \A i \in 1 .. l : b[i] = p[i]
    OBVIOUS
  <2> HIDE DEF b
  <2>4. IsPrefix(b, p)
    BY <2>1, <2>2, <2>3, ComponentsPrefix
  <2> QED
    BY <2>1, <2>4 DEF b
<1>2. ASSUME q \in Seq(STRING), IsPrefix(q, p)
      PROVE  q \in Prefixes(p)
  <2>1. Len(q) <= Len(p) /\ SubSeq(p, 1, Len(q)) = q
    BY <1>2, BeneathMeans, Zenon
  <2>2. Len(q) \in 0 .. Len(p)
    <3>1. Len(q) \in Nat /\ Len(p) \in Nat
      BY <1>2
    <3> QED
      BY <2>1, <3>1
  <2> QED
    BY <2>1, <2>2 DEF Prefixes
<1> QED
  BY <1>1, <1>2 DEF Prefixes

\* A beginning of a beginning.
LEMMA PrefixTransitive ==
    ASSUME NEW q \in Seq(STRING), NEW r \in Seq(STRING), NEW p \in Seq(STRING),
           IsPrefix(q, r), IsPrefix(r, p)
    PROVE  IsPrefix(q, p)
<1>1. /\ Len(q) \in Nat /\ Len(r) \in Nat /\ Len(q) <= Len(r)
      /\ \A i \in 1 .. Len(q) : q[i] = r[i]
  BY PrefixComponents
<1>2. Len(p) \in Nat /\ Len(r) <= Len(p) /\ \A i \in 1 .. Len(r) : r[i] = p[i]
  BY PrefixComponents
<1> QED
  BY <1>1, <1>2, ComponentsPrefix

\* Two beginnings of a name: one begins with the other.
LEMMA PrefixesCompare ==
    ASSUME NEW q \in Seq(STRING), NEW r \in Seq(STRING), NEW p \in Seq(STRING),
           IsPrefix(q, p), IsPrefix(r, p)
    PROVE  IsPrefix(q, r) \/ IsPrefix(r, q)
<1>1. Len(q) \in Nat /\ \A i \in 1 .. Len(q) : q[i] = p[i]
  BY PrefixComponents
<1>2. Len(r) \in Nat /\ \A i \in 1 .. Len(r) : r[i] = p[i]
  BY PrefixComponents
<1>3. CASE Len(q) <= Len(r)
  BY <1>1, <1>2, <1>3, ComponentsPrefix
<1>4. CASE Len(r) <= Len(q)
  BY <1>1, <1>2, <1>4, ComponentsPrefix
<1> QED
  BY <1>1, <1>2, <1>3, <1>4

\* Names that begin with each other are one.
LEMMA PrefixAntisymmetric ==
    ASSUME NEW q \in Seq(STRING), NEW p \in Seq(STRING), IsPrefix(q, p), IsPrefix(p, q)
    PROVE  q = p
<1>1. Len(q) = Len(p)
  BY PrefixComponents
<1>2. SubSeq(p, 1, Len(q)) = q
  BY BeneathMeans, Zenon
<1>3. SubSeq(p, 1, Len(p)) = p
  BY SubSeqFull
<1> QED
  BY <1>1, <1>2, <1>3

\* The shorter beginnings of a name are the beginnings of its front.
LEMMA PrefixesOfFront ==
    ASSUME NEW p \in Seq(STRING), p # << >>, NEW q \in Seq(STRING)
    PROVE  /\ IsPrefix(q, Front(p)) <=> IsStrictPrefix(q, p)
           /\ Front(p) # p
<1> DEFINE f == Front(p)
<1>1. f \in Seq(STRING) /\ Len(f) = Len(p) - 1 /\ \A i \in 1 .. Len(p) - 1 : f[i] = p[i]
  BY FrontOfName
<1>2. Len(p) \in Nat /\ Len(p) # 0 /\ Len(q) \in Nat
  OBVIOUS
<1> HIDE DEF f
<1>3. f # p
  BY <1>1, <1>2
<1>4. ASSUME IsPrefix(q, f)
      PROVE  IsPrefix(q, p) /\ q # p
  <2>1. Len(q) <= Len(f) /\ \A i \in 1 .. Len(q) : q[i] = f[i]
    BY <1>1, <1>4, PrefixComponents
  <2> QED
    BY <1>1, <1>2, <2>1, ComponentsPrefix
<1>5. ASSUME IsPrefix(q, p), q # p
      PROVE  IsPrefix(q, f)
  <2>1. Len(q) <= Len(p) /\ \A i \in 1 .. Len(q) : q[i] = p[i]
    BY <1>5, PrefixComponents
  <2>2. Len(q) # Len(p)
    <3>1. Len(q) = Len(p) => IsPrefix(p, q)
      BY <1>2, <2>1, ComponentsPrefix
    <3> QED
      BY <1>5, <3>1, PrefixAntisymmetric
  <2> QED
    BY <1>1, <1>2, <2>1, <2>2, ComponentsPrefix
<1> QED
  BY <1>3, <1>4, <1>5 DEF f, IsStrictPrefix

\* A name is its front with its last component.
LEMMA FrontAndLast ==
    ASSUME NEW p \in Seq(STRING), p # << >>
    PROVE  Append(Front(p), Last(p)) = p
<1>1. Len(p) \in Nat \ {0}
  BY EmptySeq
<1>2. Append(SubSeq(p, 1, Len(p) - 1), p[Len(p)]) = p
  BY <1>1
<1> QED
  BY <1>2, Zenon DEF Front, Last

-----------------------------------------------------------------------------
(* A name without symbolic links in its way.                               *)

\* No beginning of a name is a symbolic link.
NoLink(t, name) == \A q \in Seq(STRING) : IsPrefix(q, name) => Kind(t, q) # "symlink"

\* A tree in which the directories of a name have been made.
Grow(t, name) ==
    [q \in DOMAIN t \cup Prefixes(name) |-> IF q \in DOMAIN t THEN t[q] ELSE Directory]

\* Where the resolution of such a name stands after k components.
OnTheWay(t, name, k, making) ==
    Resolving(IF making THEN Grow(t, SubSeq(name, 1, k)) ELSE t, SubSeq(name, 1, k),
              SubSeq(name, k + 1, Len(name)), 0, making)

\* The step of an ordinary component that is no symbolic link.
LEMMA FollowOrdinary ==
    ASSUME NEW s, s.todo # << >>, Part(s) \in Ordinary, s.making \in BOOLEAN,
           NEW next, next = Onward(s), Kind(s.tree, next) \in {"dir", "file", "none"}
    PROVE  /\ \/ Kind(s.tree, next) = "dir"
              \/ Kind(s.tree, next) = "file" /\ Len(s.todo) = 1 /\ ~s.making
              => Follow(s) = Resolving(s.tree, next, Tail(s.todo), s.hops, s.making)
           /\ Kind(s.tree, next) = "none" /\ s.making =>
                  Follow(s) =
                      Resolving(Put(s.tree, next, Directory), next, Tail(s.todo), s.hops, TRUE)
           /\ \/ Kind(s.tree, next) = "file" /\ (Len(s.todo) # 1 \/ s.making)
              \/ Kind(s.tree, next) = "none" /\ ~s.making
              => GivesUp(s)
<1>1. Head(s.todo) \notin {"", ".", ".."}
  BY DEF Ordinary, Part
<1>2. next = Append(s.at, Head(s.todo))
  BY DEF Onward, Part
<1> QED
  BY <1>1, <1>2 DEF Follow, GivesUp

\* What is left of a name, one component later.
LEMMA RestOfName ==
    ASSUME NEW name, Plain(name), NEW k \in Nat, k < Len(name)
    PROVE  LET todo == SubSeq(name, k + 1, Len(name)) IN
           /\ todo # << >> /\ Head(todo) \in Ordinary
           /\ Append(SubSeq(name, 1, k), Head(todo)) = SubSeq(name, 1, k + 1)
           /\ Tail(todo) = SubSeq(name, k + 2, Len(name))
           /\ Len(todo) = Len(name) - k
<1> DEFINE todo == SubSeq(name, k + 1, Len(name))
<1>1. name \in Seq(STRING) /\ Len(name) \in Nat
  BY LenProperties DEF Plain
<1>2. k + 1 \in 1 .. Len(name) /\ Len(name) \in k + 1 .. Len(name) /\ (k + 1) + 1 = k + 2
  BY <1>1
<1>3. Head(todo) = name[k + 1] /\ Tail(todo) = SubSeq(name, k + 2, Len(name))
  BY <1>1, <1>2, HeadTailOfSubSeq
<1>4. Len(todo) = Len(name) - k
  BY <1>1, <1>2
<1>5. todo # << >>
  <2>1. Len(todo) # 0
    BY <1>1, <1>4
  <2> QED
    BY <2>1, EmptySeq, Zenon
<1>6. name[k + 1] \in Ordinary
  BY <1>2 DEF Plain
<1>7. Append(SubSeq(name, 1, k), name[k + 1]) = SubSeq(name, 1, k + 1)
  BY <1>1
<1> QED
  BY <1>3, <1>4, <1>5, <1>6, <1>7

\* The beginnings of a name are places, or nothing is there.
LEMMA KindsInTree ==
    ASSUME NEW t, NEW n, IsTree(t, n), NEW p
    PROVE  /\ Kind(t, p) \in {"dir", "file", "symlink", "none"}
           /\ Kind(t, p) = "none" <=> p \notin DOMAIN t
           /\ Kind(t, Root) = "dir" /\ Kind(t, Nowhere) = "none"
           /\ Root \in DOMAIN t
<1>1. Nowhere \notin DOMAIN t
  BY TreeIsThere
<1>2. Root \in DOMAIN t /\ t[Root].kind = "dir"
  BY DEF IsTree
<1>3. \A q \in DOMAIN t : t[q].kind \in {"dir", "file", "symlink"}
  BY DEF IsTree, Nodes
<1> QED
  BY <1>1, <1>2, <1>3 DEF Kind

\* Around a place there are directories.
LEMMA AroundPlaces ==
    ASSUME NEW t, NEW n, IsTree(t, n), NEW p \in DOMAIN t,
           NEW q \in Seq(STRING), IsStrictPrefix(q, p)
    PROVE  q \in DOMAIN t /\ t[q].kind = "dir" /\ Kind(t, q) = "dir"
<1>1. p \in Seq(STRING) /\ IsPlace(t, p)
  BY DEF IsTree, IsPlace
<1>2. IsPrefix(q, p) /\ q # p
  BY DEF IsStrictPrefix
<1>3. Len(q) <= Len(p) /\ SubSeq(p, 1, Len(q)) = q
  BY <1>1, <1>2, BeneathMeans, Zenon
<1>4. Len(q) \in Nat /\ Len(p) \in Nat /\ SubSeq(p, 1, Len(p)) = p
  BY <1>1, SubSeqFull, LenProperties
<1>5. Len(q) \in 0 .. Len(p) - 1
  <2>1. Len(q) # Len(p)
    BY <1>2, <1>3, <1>4
  <2>2. Len(q) \in Nat /\ Len(p) \in Nat /\ Len(q) <= Len(p)
    BY <1>3, <1>4
  <2> QED
    BY <2>1, <2>2
<1>6. q \in DOMAIN t /\ t[q].kind = "dir"
  BY <1>1, <1>3, <1>5 DEF IsPlace
<1> QED
  BY <1>6 DEF Kind

\* The first components of a plain name.
LEMMA BeginningIsPrefix ==
    ASSUME NEW p \in Seq(STRING), NEW k \in 0 .. Len(p)
    PROVE  /\ SubSeq(p, 1, k) \in Seq(STRING) /\ Len(SubSeq(p, 1, k)) = k
           /\ IsPrefix(SubSeq(p, 1, k), p)
           /\ k < Len(p) => IsStrictPrefix(SubSeq(p, 1, k), p)
<1> DEFINE b == SubSeq(p, 1, k)
<1>1. b \in Seq(STRING) /\ Len(p) \in Nat
  OBVIOUS
<1>2. Len(b) = k
  BY LengthOfBeginning, Zenon
<1>3. b \in Prefixes(p)
  BY DEF Prefixes
<1> HIDE DEF b
<1>4. IsPrefix(b, p)
  BY <1>3, PrefixesMeans
<1>5. k < Len(p) => IsStrictPrefix(b, p)
  BY <1>2, <1>4 DEF IsStrictPrefix
<1> QED
  BY <1>1, <1>2, <1>4, <1>5 DEF b

\* A plain name that leads through no symbolic link is its own place.
LEMMA FindPlain ==
    ASSUME NEW t, NEW n \in Nat, IsTree(t, n), NEW name, Plain(name), NoLink(t, name)
    PROVE  Find(t, name) = IF Kind(t, name) \in {"dir", "file"} THEN name ELSE Nowhere
<1> DEFINE s == Resolving(t, Root, name, 0, FALSE)
           r == Resolution(s)
           L == Len(name)
           Lost == Resolving(t, Nowhere, << >>, 0, FALSE)
           Way(k) == OnTheWay(t, name, k, FALSE)
           at(k) == SubSeq(name, 1, k)
           enough == EnoughSteps(name)
<1>1. name \in Seq(STRING) /\ L \in Nat /\ enough \in Nat /\ L <= enough
  <2>1. name \in Seq(STRING) /\ L \in Nat
    BY LenProperties DEF Plain
  <2>2. LongestTarget \in Nat /\ MaxSymlinks * LongestTarget \in Nat
    BY EntriesAssumption DEF MaxSymlinks
  <2> QED
    BY <2>1, <2>2 DEF EnoughSteps
<1>2. s = Way(0)
  <2>1. SubSeq(name, 1, 0) = Root /\ SubSeq(name, 0 + 1, Len(name)) = name
    BY <1>1, SubSeqEmpty, SubSeqFull DEF Root
  <2> QED
    BY <2>1 DEF OnTheWay
<1> HIDE DEF s
<1>3. r[0] = s /\ \A k \in Nat : r[k + 1] = Follow(r[k])
  <2>1. \A k \in Nat : k + 1 \in Nat /\ k + 1 # 0 /\ (k + 1) - 1 = k
    OBVIOUS
  <2> QED
    BY <2>1, ResolutionSteps
<1> HIDE DEF r
<1>4. ASSUME NEW k \in Nat, k < L
      PROVE  /\ \/ Kind(t, at(k + 1)) = "dir"
                \/ Kind(t, at(k + 1)) = "file" /\ k + 1 = L
                => Follow(Way(k)) = Way(k + 1)
             /\ \/ Kind(t, at(k + 1)) = "file" /\ k + 1 # L
                \/ Kind(t, at(k + 1)) = "none"
                => Follow(Way(k)) = Lost
  <2> DEFINE todo == SubSeq(name, k + 1, L)
  <2>1. /\ todo # << >> /\ Head(todo) \in Ordinary
        /\ Append(at(k), Head(todo)) = at(k + 1)
        /\ Tail(todo) = SubSeq(name, k + 2, L)
        /\ Len(todo) = L - k
    BY <1>4, RestOfName
  <2>2. Way(k) = Resolving(t, at(k), todo, 0, FALSE)
    BY DEF OnTheWay
  <2>3. (k + 1) + 1 = k + 2 /\ (L - k = 1 <=> k + 1 = L)
    BY <1>1
  <2>4. Way(k + 1) = Resolving(t, at(k + 1), SubSeq(name, k + 2, L), 0, FALSE)
    BY <2>3 DEF OnTheWay
  <2> DEFINE f == Way(k)
             next == at(k + 1)
  <2>5. /\ f.tree = t /\ f.at = at(k) /\ f.todo = todo /\ f.hops = 0 /\ f.making = FALSE
    BY DEF OnTheWay, Resolving
  <2>6. Part(f) \in Ordinary /\ next = Onward(f)
    BY <2>1, <2>5 DEF Part, Onward
  <2> HIDE DEF todo, f, next
  <2>7. Kind(t, next) = "dir" \/ (Kind(t, next) = "file" /\ k + 1 = L) =>
            Follow(f) = Resolving(f.tree, next, Tail(f.todo), f.hops, f.making)
    BY <2>1, <2>3, <2>5, <2>6, FollowOrdinary
  <2>8. (Kind(t, next) = "file" /\ k + 1 # L) \/ Kind(t, next) = "none" => GivesUp(f)
    BY <2>1, <2>3, <2>5, <2>6, FollowOrdinary
  <2>9. Resolving(f.tree, next, Tail(f.todo), f.hops, f.making) = Way(k + 1)
    BY <2>1, <2>4, <2>5, Zenon DEF next
  <2>10. Resolving(f.tree, Nowhere, << >>, f.hops, f.making) = Lost
    BY <2>5, Zenon
  <2> HIDE DEF Way, Lost
  <2> QED
    BY <2>7, <2>8, <2>9, <2>10 DEF GivesUp, f, next
<1>5. /\ Way(L).todo = << >> /\ Way(L).at = name /\ Lost.todo = << >> /\ Lost.at = Nowhere
      /\ Follow(Way(L)) = Way(L) /\ Follow(Lost) = Lost
  <2>1. SubSeq(name, L + 1, L) = << >> /\ SubSeq(name, 1, L) = name
    <3>1. L + 1 > L
      BY <1>1
    <3> QED
      BY <1>1, <3>1, SubSeqEmpty, SubSeqFull
  <2>2. Way(L).todo = << >> /\ Way(L).at = name
    BY <2>1 DEF OnTheWay, Resolving
  <2>3. Lost.todo = << >> /\ Lost.at = Nowhere
    BY DEF Resolving
  <2>4. \A f : f.todo = << >> => Follow(f) = f
    BY DEF Follow
  <2> QED
    BY <2>2, <2>3, <2>4, Zenon
<1>6. at(L) = name
  BY <1>1, SubSeqFull
<1>7. Find(t, name) = r[enough].at
  BY TreeIsThere DEF Find, Resolve, r, s
<1> HIDE DEF Way, Lost, enough
<1>8. CASE Kind(t, name) \in {"dir", "file"}
  <2> DEFINE S == {k \in Nat : r[k] = IF k < L THEN Way(k) ELSE Way(L)}
  <2>1. 0 \in S
    <3>1. CASE L = 0
      BY <1>2, <1>3, <3>1
    <3>2. CASE L # 0
      <4>1. 0 < L
        BY <1>1, <3>2
      <4> QED
        BY <1>2, <1>3, <4>1
    <3> QED
      BY <3>1, <3>2
  <2>2. ASSUME NEW k \in Nat, k \in S
        PROVE  k + 1 \in S
    <3>1. CASE k < L
      <4>1. Kind(t, at(k + 1)) = "dir" \/ (Kind(t, at(k + 1)) = "file" /\ k + 1 = L)
        <5>1. CASE k + 1 = L
          BY <1>6, <1>8, <5>1
        <5>2. CASE k + 1 # L
          <6>1. k + 1 \in 0 .. L /\ k + 1 < L
            BY <1>1, <3>1, <5>2
          <6>2. at(k + 1) \in Seq(STRING) /\ IsStrictPrefix(at(k + 1), name)
            BY <1>1, <6>1, BeginningIsPrefix
          <6>3. name \in DOMAIN t
            BY <1>8 DEF Kind
          <6> QED
            BY <6>2, <6>3, AroundPlaces
        <5> QED
          BY <5>1, <5>2
      <4>2. r[k + 1] = Way(k + 1)
        BY <1>3, <1>4, <2>2, <3>1, <4>1
      <4> QED
        BY <1>1, <3>1, <4>2
    <3>2. CASE ~(k < L)
      <4>1. r[k + 1] = Way(L) /\ ~(k + 1 < L)
        <5>1. r[k] = Way(L) /\ ~(k + 1 < L)
          BY <1>1, <2>2, <3>2
        <5> QED
          BY <1>3, <1>5, <5>1, Zenon
      <4> QED
        BY <4>1
    <3> QED
      BY <3>1, <3>2
  <2>3. Nat \subseteq S
    <3> HIDE DEF S
    <3> QED
      BY <2>1, <2>2, SetInduction
  <2>4. r[enough] = Way(L)
    BY <1>1, <2>3
  <2> QED
    BY <1>5, <1>7, <1>8, <2>4
<1>9. CASE Kind(t, name) \notin {"dir", "file"}
  <2> DEFINE S == {k \in Nat : r[k] = Lost \/ (k < L /\ r[k] = Way(k))}
  <2>0. L # 0
    <3>1. L = 0 => name = Root
      BY <1>1, EmptySeq DEF Root
    <3> QED
      BY <1>9, <3>1, KindsInTree
  <2>1. 0 \in S
    BY <1>1, <1>2, <1>3, <2>0
  <2>2. ASSUME NEW k \in Nat, k \in S
        PROVE  k + 1 \in S
    <3>1. CASE k < L /\ r[k] = Way(k)
      <4>1. k + 1 \in 0 .. L
        BY <1>1, <3>1
      <4>2. at(k + 1) \in Seq(STRING) /\ IsPrefix(at(k + 1), name)
        BY <1>1, <4>1, BeginningIsPrefix
      <4>3. Kind(t, at(k + 1)) \in {"dir", "file", "none"}
        BY <4>2, KindsInTree DEF NoLink
      <4>4. Kind(t, at(k + 1)) = "none" \/ k + 1 # L
        BY <1>6, <1>9, <4>3
      <4>5. r[k + 1] = Lost \/ (k + 1 # L /\ r[k + 1] = Way(k + 1))
        BY <1>3, <1>4, <3>1, <4>3, <4>4
      <4> QED
        BY <1>1, <3>1, <4>5
    <3>2. CASE r[k] = Lost
      <4>1. r[k + 1] = Lost
        BY <1>3, <1>5, <3>2, Zenon
      <4> QED
        BY <4>1
    <3> QED
      BY <2>2, <3>1, <3>2
  <2>3. Nat \subseteq S
    <3> HIDE DEF S
    <3> QED
      BY <2>1, <2>2, SetInduction
  <2>4. r[enough] = Lost
    BY <1>1, <2>3
  <2> QED
    BY <1>5, <1>7, <1>9, <2>4
<1> QED
  BY <1>8, <1>9

\* The place of such a name.
LEMMA PlacePlain ==
    ASSUME NEW t, NEW n \in Nat, IsTree(t, n), NEW name, Plain(name), name # << >>,
           NoLink(t, Front(name))
    PROVE  /\ Plain(Front(name))
           /\ Place(t, name) = IF Kind(t, Front(name)) = "dir" THEN name ELSE Nowhere
<1> DEFINE f == Front(name)
<1>1. name \in Seq(STRING) /\ f \in Seq(STRING) /\ Len(f) = Len(name) - 1
  BY FrontOfName DEF Plain
<1>2. \A i \in 1 .. Len(name) - 1 : f[i] = name[i]
  BY FrontOfName DEF Plain
<1>3. Plain(f)
  <2>1. Len(name) \in Nat
    BY <1>1
  <2> HIDE DEF f
  <2> QED
    BY <1>1, <1>2, <2>1 DEF Plain
<1>4. Append(f, Last(name)) = name
  BY <1>1, FrontAndLast
<1>5. Find(t, f) = IF Kind(t, f) \in {"dir", "file"} THEN f ELSE Nowhere
  BY <1>3, FindPlain
<1>6. Kind(t, Nowhere) # "dir"
  BY KindsInTree
<1> HIDE DEF f
<1>7. Place(t, name) =
          IF Kind(t, Find(t, f)) = "dir" THEN Append(Find(t, f), Last(name)) ELSE Nowhere
  BY DEF Place, Root, f
<1> QED
  BY <1>3, <1>4, <1>5, <1>6, <1>7 DEF f

\* One more component is one more beginning.
LEMMA PrefixesOfAppend ==
    ASSUME NEW p \in Seq(STRING), NEW x \in STRING
    PROVE  Prefixes(Append(p, x)) = Prefixes(p) \cup {Append(p, x)}
<1> DEFINE a == Append(p, x)
<1>1. a \in Seq(STRING) /\ Len(a) = Len(p) + 1 /\ Len(p) \in Nat
  BY BeginningOfAppend, LenProperties
<1>2. \A l \in 0 .. Len(p) : SubSeq(a, 1, l) = SubSeq(p, 1, l)
  BY BeginningOfAppend
<1>3. SubSeq(a, 1, Len(a)) = a
  BY <1>1, SubSeqFull
<1> HIDE DEF a
<1>4. 0 .. Len(a) = (0 .. Len(p)) \cup {Len(a)}
  BY <1>1
<1>5. Prefixes(a) = Prefixes(p) \cup {a}
  BY <1>1, <1>2, <1>3, <1>4 DEF Prefixes
<1> QED
  BY <1>5 DEF a

\* A tree grows by one directory, or not at all.
LEMMA GrowStep ==
    ASSUME NEW t, NEW p \in Seq(STRING), NEW x \in STRING, NEW q, q = Append(p, x)
    PROVE  /\ Kind(Grow(t, p), q) = Kind(t, q)
           /\ q \in DOMAIN t => Grow(t, q) = Grow(t, p)
           /\ q \notin DOMAIN t => Grow(t, q) = Put(Grow(t, p), q, Directory)
<1>1. Prefixes(q) = Prefixes(p) \cup {q}
  BY PrefixesOfAppend
<1>2. q \notin Prefixes(p)
  <2>1. Len(q) = Len(p) + 1 /\ Len(p) \in Nat /\ q \in Seq(STRING)
    BY BeginningOfAppend, LenProperties
  <2>2. ASSUME q \in Prefixes(p)
        PROVE  FALSE
    <3>1. IsPrefix(q, p)
      BY <2>2, PrefixesMeans
    <3>2. Len(q) <= Len(p)
      BY <3>1 DEF IsPrefix
    <3> QED
      BY <2>1, <3>2
  <2> QED
    BY <2>2
<1> QED
  BY <1>1, <1>2 DEF Grow, Kind, Put

\* The directory of everything is there.
LEMMA GrowRoot ==
    ASSUME NEW t, NEW n, IsTree(t, n)
    PROVE  Grow(t, Root) = t
<1>1. Prefixes(Root) = {Root}
  <2>1. Root \in Seq(STRING) /\ Len(Root) = 0 /\ SubSeq(Root, 1, 0) = Root
    BY EmptySeq, SubSeqEmpty DEF Root
  <2>2. 0 .. Len(Root) = {0}
    BY <2>1
  <2> QED
    BY <2>1, <2>2 DEF Prefixes
<1>2. t = [p \in DOMAIN t |-> t[p]] /\ Root \in DOMAIN t
  BY DEF IsTree
<1> QED
  BY <1>1, <1>2 DEF Grow

\* MkdirAll makes the directories of such a name, unless something else is in its way.
LEMMA MkdirAllPlain ==
    ASSUME NEW t, NEW n \in Nat, IsTree(t, n), NEW name, Plain(name), NoLink(t, name)
    PROVE  MkdirAll(t, name) =
               IF \E q \in Prefixes(name) : Kind(t, q) = "file" THEN Refused ELSE Grow(t, name)
<1> DEFINE s == Resolving(t, Root, name, 0, TRUE)
           r == Resolution(s)
           L == Len(name)
           Way(k) == OnTheWay(t, name, k, TRUE)
           at(k) == SubSeq(name, 1, k)
           enough == EnoughSteps(name)
<1>1. name \in Seq(STRING) /\ L \in Nat /\ enough \in Nat /\ L <= enough
  <2>1. name \in Seq(STRING) /\ L \in Nat
    BY LenProperties DEF Plain
  <2>2. LongestTarget \in Nat /\ MaxSymlinks * LongestTarget \in Nat
    BY EntriesAssumption DEF MaxSymlinks
  <2> QED
    BY <2>1, <2>2 DEF EnoughSteps
<1>2. s = Way(0)
  <2>1. SubSeq(name, 1, 0) = Root /\ SubSeq(name, 0 + 1, Len(name)) = name
    BY <1>1, SubSeqEmpty, SubSeqFull DEF Root
  <2> QED
    BY <2>1, GrowRoot DEF OnTheWay
<1>a. InTree(s, t, n)
  BY <1>1, ResolutionBegins, Zenon
<1> HIDE DEF s
<1>3. r[0] = s /\ \A k \in Nat : r[k + 1] = Follow(r[k])
  <2>1. \A k \in Nat : k + 1 \in Nat /\ k + 1 # 0 /\ (k + 1) - 1 = k
    OBVIOUS
  <2> QED
    BY <2>1, ResolutionSteps
<1>b. IsTree(r[enough].tree, n)
  BY <1>1, <1>a, ResolutionStaysInTree DEF InTree
<1>c. MkdirAll(t, name) =
          IF Kind(r[enough].tree, r[enough].at) = "dir" THEN r[enough].tree ELSE Refused
  BY TreeIsThere DEF MkdirAll, Resolve, r, s
<1> HIDE DEF r
<1>4. ASSUME NEW k \in Nat, k < L
      PROVE  /\ Kind(t, at(k + 1)) \in {"dir", "none"} => Follow(Way(k)) = Way(k + 1)
             /\ Kind(t, at(k + 1)) = "file" =>
                    Follow(Way(k)).todo = << >> /\ Follow(Way(k)).at = Nowhere
  <2> DEFINE todo == SubSeq(name, k + 1, L)
  <2>1. /\ todo # << >> /\ Head(todo) \in Ordinary
        /\ Append(at(k), Head(todo)) = at(k + 1)
        /\ Tail(todo) = SubSeq(name, k + 2, L)
        /\ Len(todo) = L - k
    BY <1>4, RestOfName
  <2>3. (k + 1) + 1 = k + 2
    BY <1>1
  <2>4. Way(k + 1) = Resolving(Grow(t, at(k + 1)), at(k + 1), SubSeq(name, k + 2, L), 0, TRUE)
    BY <2>3 DEF OnTheWay
  <2> DEFINE f == Way(k)
             next == at(k + 1)
  <2>5. /\ f.tree = Grow(t, at(k)) /\ f.at = at(k) /\ f.todo = todo
        /\ f.hops = 0 /\ f.making = TRUE
    BY DEF OnTheWay, Resolving
  <2>6. Part(f) \in Ordinary /\ next = Onward(f)
    BY <2>1, <2>5 DEF Part, Onward
  <2>7. /\ Kind(f.tree, next) = Kind(t, next)
        /\ next \in DOMAIN t => Grow(t, next) = f.tree
        /\ next \notin DOMAIN t => Grow(t, next) = Put(f.tree, next, Directory)
    <3>1. at(k) \in Seq(STRING) /\ Head(todo) \in STRING
      <4>1. at(k) \in Seq(STRING)
        BY <1>1, <1>4, BeginningIsPrefix
      <4> QED
        BY <2>1, <4>1 DEF Ordinary
    <3> DEFINE here == at(k)
    <3>2. next = Append(here, Head(todo)) /\ f.tree = Grow(t, here)
      BY <2>1, <2>5
    <3>3. here \in Seq(STRING) /\ Head(todo) \in STRING
      BY <3>1
    <3> HIDE DEF here, todo, f, next
    <3>4. /\ Kind(Grow(t, here), next) = Kind(t, next)
          /\ next \in DOMAIN t => Grow(t, next) = Grow(t, here)
          /\ next \notin DOMAIN t => Grow(t, next) = Put(Grow(t, here), next, Directory)
      BY <3>2, <3>3, GrowStep
    <3> QED
      BY <3>2, <3>4, Zenon
  <2>8. Kind(t, next) = "none" <=> next \notin DOMAIN t
    BY KindsInTree
  <2> HIDE DEF todo, f, next
  <2>9. /\ Kind(t, next) = "dir" =>
               Follow(f) = Resolving(f.tree, next, Tail(f.todo), f.hops, f.making)
        /\ Kind(t, next) = "none" =>
               Follow(f) = Resolving(Put(f.tree, next, Directory), next, Tail(f.todo), f.hops, TRUE)
        /\ Kind(t, next) = "file" => GivesUp(f)
    <3>1. CASE Kind(t, next) \in {"dir", "none", "file"}
      BY <2>1, <2>5, <2>6, <2>7, <3>1, FollowOrdinary
    <3> QED
      BY <3>1
  <2>10. Kind(t, next) \in {"dir", "none"} =>
            Follow(f) = Resolving(Grow(t, next), next, Tail(todo), 0, TRUE)
    <3>1. CASE Kind(t, next) = "dir"
      <4>1. next \in DOMAIN t
        BY <2>8, <3>1
      <4>2. Grow(t, next) = f.tree
        BY <2>7, <4>1
      <4>3. Follow(f) = Resolving(f.tree, next, Tail(f.todo), f.hops, f.making)
        BY <2>9, <3>1
      <4> QED
        BY <2>5, <4>2, <4>3, Zenon
    <3>2. CASE Kind(t, next) = "none"
      <4>1. Grow(t, next) = Put(f.tree, next, Directory)
        BY <2>7, <2>8, <3>2
      <4>3. Follow(f) = Resolving(Put(f.tree, next, Directory), next, Tail(f.todo), f.hops, TRUE)
        BY <2>9, <3>2
      <4> QED
        BY <2>5, <4>1, <4>3, Zenon
    <3> QED
      BY <3>1, <3>2
  <2>11. Kind(t, next) = "file" => Follow(f).todo = << >> /\ Follow(f).at = Nowhere
    BY <2>9 DEF GivesUp, Resolving
  <2>12. Resolving(Grow(t, next), next, Tail(todo), 0, TRUE) = Way(k + 1)
    BY <2>1, <2>4, Zenon DEF next
  <2> HIDE DEF Way
  <2> QED
    BY <2>10, <2>11, <2>12 DEF f, next
<1>5. /\ Way(L).todo = << >> /\ Way(L).at = name /\ Way(L).tree = Grow(t, name)
      /\ Follow(Way(L)) = Way(L)
  <2>1. SubSeq(name, L + 1, L) = << >> /\ SubSeq(name, 1, L) = name
    <3>1. L + 1 > L
      BY <1>1
    <3> QED
      BY <1>1, <3>1, SubSeqEmpty, SubSeqFull
  <2>2. Way(L).todo = << >> /\ Way(L).at = name /\ Way(L).tree = Grow(t, name)
    BY <2>1 DEF OnTheWay, Resolving
  <2>4. \A f : f.todo = << >> => Follow(f) = f
    BY DEF Follow
  <2> QED
    BY <2>2, <2>4, Zenon
<1>6. ASSUME NEW k \in 0 .. L
      PROVE  /\ at(k) \in Seq(STRING) /\ at(k) \in Prefixes(name)
             /\ Kind(t, at(k)) \in {"dir", "file", "none"}
  <2>1. at(k) \in Seq(STRING) /\ IsPrefix(at(k), name)
    BY <1>1, <1>6, BeginningIsPrefix
  <2>2. at(k) \in Prefixes(name)
    BY <1>6 DEF Prefixes
  <2>3. Kind(t, at(k)) # "symlink"
    BY <2>1 DEF NoLink
  <2> QED
    BY <2>1, <2>2, <2>3, KindsInTree
<1>7. CASE \E q \in Prefixes(name) : Kind(t, q) = "file"
  <2>1. PICK m \in 0 .. L : Kind(t, at(m)) = "file"
    BY <1>7 DEF Prefixes
  <2>2. m # 0
    <3>1. at(0) = Root
      BY <1>1, SubSeqEmpty DEF Root
    <3> QED
      BY <2>1, <3>1, KindsInTree
  <2>3. m \in Nat /\ m > 0 /\ m <= L
    BY <1>1, <2>1, <2>2
  <2> DEFINE S == {k \in Nat : \/ r[k].todo = << >> /\ r[k].at = Nowhere
                               \/ k < m /\ r[k] = Way(k)}
  <2> HIDE DEF Way, enough
  <2>4. 0 \in S
    BY <1>2, <1>3, <2>3
  <2>5. ASSUME NEW k \in Nat, k \in S
        PROVE  k + 1 \in S
    <3>1. CASE k < m /\ r[k] = Way(k)
      <4>1. k + 1 \in 0 .. L /\ k < L
        BY <1>1, <2>3, <3>1
      <4>2. Kind(t, at(k + 1)) \in {"dir", "file", "none"}
        BY <1>6, <4>1
      <4>3. k + 1 = m => Kind(t, at(k + 1)) = "file"
        BY <2>1
      <4>4. r[k + 1] = Follow(Way(k))
        BY <1>3, <3>1
      <4>5. \/ r[k + 1].todo = << >> /\ r[k + 1].at = Nowhere
            \/ k + 1 # m /\ r[k + 1] = Way(k + 1)
        BY <1>4, <4>1, <4>2, <4>3, <4>4
      <4> QED
        BY <2>3, <3>1, <4>5
    <3>2. CASE r[k].todo = << >> /\ r[k].at = Nowhere
      <4>1. r[k + 1] = Follow(r[k])
        BY <1>3
      <4>2. Follow(r[k]) = r[k]
        BY <3>2 DEF Follow
      <4>3. r[k + 1].todo = << >> /\ r[k + 1].at = Nowhere
        BY <3>2, <4>1, <4>2
      <4> QED
        BY <4>3
    <3> QED
      BY <2>5, <3>1, <3>2
  <2>6. Nat \subseteq S
    <3> HIDE DEF S
    <3> QED
      BY <2>4, <2>5, SetInduction
  <2>7. r[enough].at = Nowhere
    BY <1>1, <2>3, <2>6
  <2>8. Kind(r[enough].tree, r[enough].at) # "dir"
    BY <1>b, <2>7, KindsInTree
  <2> QED
    BY <1>7, <1>c, <2>8
<1>8. CASE ~\E q \in Prefixes(name) : Kind(t, q) = "file"
  <2> DEFINE S == {k \in Nat : r[k] = IF k < L THEN Way(k) ELSE Way(L)}
  <2> HIDE DEF Way, enough
  <2>1. 0 \in S
    <3>1. CASE L = 0
      BY <1>2, <1>3, <3>1
    <3>2. CASE L # 0
      <4>1. 0 < L
        BY <1>1, <3>2
      <4> QED
        BY <1>2, <1>3, <4>1
    <3> QED
      BY <3>1, <3>2
  <2>2. ASSUME NEW k \in Nat, k \in S
        PROVE  k + 1 \in S
    <3>1. CASE k < L
      <4>1. k + 1 \in 0 .. L
        BY <1>1, <3>1
      <4>2. Kind(t, at(k + 1)) \in {"dir", "none"}
        BY <1>6, <1>8, <4>1
      <4>3. r[k + 1] = Way(k + 1)
        BY <1>3, <1>4, <2>2, <3>1, <4>2
      <4> QED
        BY <1>1, <3>1, <4>3
    <3>2. CASE ~(k < L)
      <4>1. r[k + 1] = Way(L) /\ ~(k + 1 < L)
        <5>1. r[k] = Way(L) /\ ~(k + 1 < L)
          BY <1>1, <2>2, <3>2
        <5> QED
          BY <1>3, <1>5, <5>1, Zenon
      <4> QED
        BY <4>1
    <3> QED
      BY <3>1, <3>2
  <2>3. Nat \subseteq S
    <3> HIDE DEF S
    <3> QED
      BY <2>1, <2>2, SetInduction
  <2>4. r[enough] = Way(L)
    BY <1>1, <2>3
  <2>5. name \in Prefixes(name)
    BY <1>1, PrefixesMeans, PrefixReflexive
  <2>6. Kind(Grow(t, name), name) = "dir"
    <3>1. Kind(t, name) \in {"dir", "none"}
      <4>1. Kind(t, name) # "symlink"
        BY <1>1, PrefixReflexive DEF NoLink
      <4> QED
        BY <1>8, <2>5, <4>1, KindsInTree
    <3>2. /\ name \in DOMAIN Grow(t, name)
          /\ Grow(t, name)[name] = IF name \in DOMAIN t THEN t[name] ELSE Directory
      BY <2>5 DEF Grow
    <3>3. Directory.kind = "dir"
      BY DEF Directory, Node
    <3>4. name \in DOMAIN t => t[name].kind = "dir"
      BY <3>1, KindsInTree DEF Kind
    <3> QED
      BY <3>2, <3>3, <3>4 DEF Kind
  <2> QED
    BY <1>5, <1>8, <1>c, <2>4, <2>6
<1> QED
  BY <1>7, <1>8

-----------------------------------------------------------------------------
(* Owner and mode.                                                         *)

\* A place of the tree is its own place, and what is there is found there.
LEMMA PlaceOfPlace ==
    ASSUME NEW t, NEW n \in Nat, IsTree(t, n), NEW p \in DOMAIN t
    PROVE  /\ Plain(p) /\ Place(t, p) = p
           /\ t[p].kind \in {"dir", "file"} => Find(t, p) = p
<1>1. Plain(p) /\ p \in Seq(STRING)
  BY DEF IsTree, IsPlace, Plain
<1>2. Place(t, p) = p
  <2>1. CASE p = Root
    BY <2>1 DEF Place
  <2>2. CASE p # Root
    <3>1. p # << >>
      BY <2>2 DEF Root
    <3>2. Front(p) \in Seq(STRING)
      BY <1>1, <3>1, FrontOfName
    <3>3. \A q \in Seq(STRING) : IsPrefix(q, Front(p)) => Kind(t, q) = "dir"
      BY <1>1, <3>1, PrefixesOfFront, AroundPlaces
    <3>4. NoLink(t, Front(p)) /\ Kind(t, Front(p)) = "dir"
      BY <3>2, <3>3, PrefixReflexive DEF NoLink
    <3> QED
      BY <1>1, <3>1, <3>4, PlacePlain
  <2> QED
    BY <2>1, <2>2
<1>3. ASSUME t[p].kind \in {"dir", "file"}
      PROVE  Find(t, p) = p
  <2>1. Kind(t, p) \in {"dir", "file"}
    BY <1>3 DEF Kind
  <2>2. \A q \in Seq(STRING) : IsPrefix(q, p) => Kind(t, q) # "symlink"
    BY <1>1, <2>1, AroundPlaces DEF IsStrictPrefix
  <2> QED
    BY <1>1, <2>1, <2>2, FindPlain DEF NoLink
<1> QED
  BY <1>1, <1>2, <1>3

\* Owner and mode are those of the entry wherever the file is, and nothing else has changed.
HasMetadata(u, name, e, symbolicLink, final) ==
    /\ DOMAIN final = DOMAIN u
    /\ \A q \in DOMAIN u \ SameFile(u, name) : final[q] = u[q]
    /\ \A q \in SameFile(u, name) :
          /\ final[q].kind = u[q].kind /\ final[q].ino = u[q].ino
          /\ final[q].owner = e.owner
          /\ ~symbolicLink => final[q].mode = e.mode

\* They can be applied to every place.
LEMMA MetadataOfPlace ==
    ASSUME NEW u, NEW n \in Nat, IsTree(u, n), NEW name \in DOMAIN u, NEW e \in Entries,
           NEW symbolicLink \in BOOLEAN, ~symbolicLink => u[name].kind \in {"dir", "file"}
    PROVE  /\ ApplyMetadata(u, name, e, symbolicLink) # Refused
           /\ HasMetadata(u, name, e, symbolicLink, ApplyMetadata(u, name, e, symbolicLink))
<1> DEFINE v == Lchown(u, name, e.owner)
           w == Chmod(v, name, e.mode)
<1>1. e.owner \in Nat /\ e.mode \in {"plain", "setuid"}
  BY EntryFields
<1>2. Place(u, name) = name
  BY PlaceOfPlace
<1>3. v = [q \in DOMAIN u |-> IF q \notin SameFile(u, name) THEN u[q] ELSE Owned(u[q], e.owner)]
  BY <1>2 DEF Lchown
<1>4. SameFile(u, name) \subseteq DOMAIN u
  BY DEF SameFile
<1>5. \A q \in DOMAIN u : /\ u[q] \in Nodes(n)
                          /\ Owned(u[q], e.owner).kind = u[q].kind
                          /\ Owned(u[q], e.owner).ino = u[q].ino
                          /\ Owned(u[q], e.owner).owner = e.owner
                          /\ Owned(u[q], e.owner) \in Nodes(n)
  BY <1>1 DEF IsTree, Nodes, Owned
<1>6. /\ DOMAIN v = DOMAIN u
      /\ \A q \in DOMAIN u \ SameFile(u, name) : v[q] = u[q]
      /\ \A q \in DOMAIN u : v[q].kind = u[q].kind /\ v[q].ino = u[q].ino /\ v[q] \in Nodes(n)
      /\ \A q \in SameFile(u, name) : v[q].owner = e.owner
  BY <1>3, <1>4, <1>5
<1>7. v # Refused
  BY <1>6, EmptySeq DEF Refused
<1>8. IsTree(v, n)
  BY <1>1, <1>7, LchownKeepsTree DEF TreeOrRefused
<1> HIDE DEF v
<1>9. CASE symbolicLink
  BY <1>4, <1>6, <1>7, <1>9 DEF ApplyMetadata, HasMetadata, v
<1>10. CASE ~symbolicLink
  <2>1. Find(v, name) = name
    BY <1>6, <1>8, <1>10, PlaceOfPlace
  <2>2. SameFile(v, name) = SameFile(u, name)
    BY <1>6 DEF SameFile
  <2>3. w = [q \in DOMAIN v |-> IF q \in SameFile(u, name) THEN [v[q] EXCEPT !.mode = e.mode]
                                ELSE v[q]]
    BY <1>6, <2>1, <2>2 DEF Chmod
  <2>4. \A q \in DOMAIN v : /\ [v[q] EXCEPT !.mode = e.mode].kind = v[q].kind
                            /\ [v[q] EXCEPT !.mode = e.mode].ino = v[q].ino
                            /\ [v[q] EXCEPT !.mode = e.mode].owner = v[q].owner
                            /\ [v[q] EXCEPT !.mode = e.mode].mode = e.mode
    BY <1>6 DEF Nodes
  <2>5. HasMetadata(u, name, e, symbolicLink, w)
    BY <1>4, <1>6, <2>3, <2>4 DEF HasMetadata
  <2>6. w # Refused
    BY <1>6, <2>3, EmptySeq DEF Refused
  <2> QED
    BY <1>10, <2>5, <2>6 DEF ApplyMetadata, v
<1> QED
  BY <1>9, <1>10

\* A tree in which the directories around a name have been made, and at the name a node,
\* with nothing beneath it.
Replaced(t, name, node) ==
    LET m == Grow(t, Front(name))
    IN  Put([p \in {q \in DOMAIN m : ~IsPrefix(name, q)} |-> m[p]], name, node)

\* The directories around a name have been made, if nothing else was in their way.
LEMMA ParentsMade ==
    ASSUME NEW t, NEW n \in Nat, IsTree(t, n), NEW name, Plain(name), name # << >>,
           NoLink(t, Front(name))
    PROVE  LET made == IF Len(name) = 1 THEN t ELSE MkdirAll(t, Front(name))
               m == Grow(t, Front(name)) IN
           IF \E q \in Prefixes(name) \ {name} : Kind(t, q) = "file" THEN made = Refused
           ELSE /\ made = m /\ IsTree(m, n)
                /\ Kind(m, Front(name)) = "dir"
<1> DEFINE f == Front(name)
           made == IF Len(name) = 1 THEN t ELSE MkdirAll(t, f)
           m == Grow(t, f)
<1>1. name \in Seq(STRING) /\ f \in Seq(STRING) /\ Len(f) = Len(name) - 1
  BY FrontOfName DEF Plain
<1>2. Plain(f)
  BY PlacePlain
<1>3. \A q \in Seq(STRING) : IsPrefix(q, f) <=> IsStrictPrefix(q, name)
  BY <1>1, PrefixesOfFront
<1>4. Prefixes(f) = Prefixes(name) \ {name}
  <2>1. \A q : q \in Prefixes(f) <=> q \in Seq(STRING) /\ IsPrefix(q, f)
    BY <1>1, PrefixesMeans
  <2>2. \A q : q \in Prefixes(name) <=> q \in Seq(STRING) /\ IsPrefix(q, name)
    BY <1>1, PrefixesMeans
  <2> QED
    BY <1>3, <2>1, <2>2 DEF IsStrictPrefix
<1>5. MkdirAll(t, f) = IF \E q \in Prefixes(f) : Kind(t, q) = "file" THEN Refused ELSE m
  BY <1>2, MkdirAllPlain
<1>6. made = IF \E q \in Prefixes(f) : Kind(t, q) = "file" THEN Refused ELSE m
  <2>1. CASE Len(name) = 1
    <3>1. f = Root
      BY <1>1, <2>1, EmptySeq DEF Root
    <3>2. m = t
      BY <3>1, GrowRoot
    <3>3. \A q \in Prefixes(f) : q = Root
      <4>1. \A q : q \in Prefixes(f) => q \in Seq(STRING) /\ IsPrefix(q, f)
        BY <1>1, PrefixesMeans
      <4> QED
        BY <1>1, <3>1, <4>1, PrefixReflexive, PrefixAntisymmetric
    <3>4. Kind(t, Root) # "file"
      BY KindsInTree
    <3> QED
      BY <2>1, <3>2, <3>3, <3>4
  <2>2. CASE Len(name) # 1
    BY <1>5, <2>2
  <2> QED
    BY <2>1, <2>2
<1>7. ASSUME ~\E q \in Prefixes(f) : Kind(t, q) = "file"
      PROVE  /\ IsTree(m, n)
             /\ Kind(m, f) = "dir"
  <2>1. MkdirAll(t, f) = m
    BY <1>5, <1>7
  <2>2. TreeOrRefused(MkdirAll(t, f), n)
    BY <1>1, MkdirAllKeepsTree DEF TreeOrRefused
  <2>3. m # Refused
    <3>1. Root \in DOMAIN m
      BY KindsInTree DEF Grow
    <3> QED
      BY <3>1, EmptySeq DEF Refused
  <2>4. Kind(m, f) = "dir"
    <3>1. f \in Prefixes(f) /\ IsPrefix(f, f)
      BY <1>1, PrefixReflexive, PrefixesMeans
    <3>2. Kind(t, f) \in {"dir", "none"}
      BY <1>1, <1>7, <3>1, KindsInTree DEF NoLink
    <3>3. f \in DOMAIN t => t[f].kind = "dir"
      BY <3>2, KindsInTree DEF Kind
    <3>4. f \in DOMAIN m /\ m[f] = IF f \in DOMAIN t THEN t[f] ELSE Directory
      BY <3>1 DEF Grow
    <3> QED
      BY <3>3, <3>4 DEF Kind, Directory, Node
  <2> QED
    BY <2>1, <2>2, <2>3, <2>4 DEF TreeOrRefused
<1> HIDE DEF made, m
<1>8. IF \E q \in Prefixes(name) \ {name} : Kind(t, q) = "file" THEN made = Refused
      ELSE /\ made = m /\ IsTree(m, n)
           /\ Kind(m, f) = "dir"
  BY <1>4, <1>6, <1>7
<1> QED
  BY <1>8 DEF made, m

-----------------------------------------------------------------------------
(* What replaces what.                                                     *)

\* The directories around a name are there.
InParents(t, name, n) ==
    LET m == Grow(t, Front(name)) IN IsTree(m, n) /\ Kind(m, Front(name)) = "dir"

\* They have been made, and what was at the name has been removed.
Cleared(t, name) == RemoveAll(Grow(t, Front(name)), name)

\* Something is created where everything beneath a name has been removed.
LEMMA CreateReplaces ==
    ASSUME NEW t, NEW n \in Nat, NEW name, Plain(name), name # << >>,
           InParents(t, name, n)
    PROVE  /\ IsTree(Cleared(t, name), n)
           /\ \A q : q \in DOMAIN Cleared(t, name) <=>
                         q \in DOMAIN Grow(t, Front(name)) /\ ~IsPrefix(name, q)
           /\ \A q \in DOMAIN Cleared(t, name) : Cleared(t, name)[q] = Grow(t, Front(name))[q]
           /\ \A node \in Nodes(n) : LinkIsRelative(node) =>
                  /\ Create(Cleared(t, name), name, node) = Replaced(t, name, node)
                  /\ IsTree(Replaced(t, name, node), n)
<1> DEFINE f == Front(name)
           m == Grow(t, f)
           removed == Cleared(t, name)
<1>0. IsTree(m, n) /\ Kind(m, f) = "dir" /\ removed = RemoveAll(m, name)
  BY DEF InParents, Cleared
<1> HIDE DEF m, removed
<1>1. name \in Seq(STRING) /\ f \in Seq(STRING)
  BY FrontOfName DEF Plain
<1>2. \A q \in Seq(STRING) : IsPrefix(q, f) <=> IsStrictPrefix(q, name)
  BY <1>1, PrefixesOfFront
<1>3. IsPrefix(f, f)
  BY <1>1, PrefixReflexive
<1>4. f \in DOMAIN m /\ NoLink(m, f)
  <2>1. f \in DOMAIN m
    BY <1>0, KindsInTree
  <2>2. \A q \in Seq(STRING) : IsPrefix(q, f) => Kind(m, q) = "dir"
    BY <1>0, <2>1, AroundPlaces DEF IsStrictPrefix
  <2> QED
    BY <2>1, <2>2 DEF NoLink
<1>5. Place(m, name) = name
  BY <1>0, <1>4, PlacePlain
<1>6. removed = [p \in {q \in DOMAIN m : ~IsPrefix(name, q)} |-> m[p]]
  BY <1>0, <1>5 DEF RemoveAll
<1>7. IsTree(removed, n)
  BY <1>0, <1>1, RemoveAllKeepsTree
<1>8. f \in DOMAIN removed /\ removed[f].kind = "dir"
  <2>1. ~IsPrefix(name, f)
    BY <1>1, <1>2, <1>3, PrefixAntisymmetric DEF IsStrictPrefix
  <2>2. f \in DOMAIN m /\ m[f].kind = "dir"
    BY <1>0, <1>4 DEF Kind
  <2> QED
    BY <1>6, <2>1, <2>2
<1>9. NoLink(removed, f) /\ Kind(removed, f) = "dir"
  <2>1. \A q \in Seq(STRING) : IsPrefix(q, f) => Kind(removed, q) = "dir"
    BY <1>7, <1>8, AroundPlaces DEF IsStrictPrefix, Kind
  <2> QED
    BY <1>1, <1>3, <2>1 DEF NoLink
<1>10. Place(removed, name) = name
  BY <1>7, <1>9, PlacePlain
<1>11. name \notin DOMAIN removed
  BY <1>1, <1>6, PrefixReflexive
<1>12. name # Nowhere
  <2>1. ASSUME name = Nowhere
        PROVE  FALSE
    <3>1. Len(name) = 1 /\ name[1] = ".."
      BY <2>1 DEF Nowhere
    <3>2. 1 \in 1 .. Len(name)
      BY <3>1
    <3>3. name[1] \in Ordinary
      BY <3>2 DEF Plain
    <3> QED
      BY <3>1, <3>3 DEF Ordinary
  <2> QED
    BY <2>1
<1>13. ASSUME NEW node \in Nodes(n), LinkIsRelative(node)
       PROVE  /\ Create(removed, name, node) = Replaced(t, name, node)
              /\ IsTree(Replaced(t, name, node), n)
  <2>1. Create(removed, name, node) = Put(removed, name, node)
    BY <1>10, <1>11, <1>12 DEF Create
  <2>2. Replaced(t, name, node) = Put(removed, name, node)
    BY <1>6 DEF Replaced, m
  <2>3. TreeOrRefused(Create(removed, name, node), n)
    BY <1>7, <1>13, CreateKeepsTree DEF TreeOrRefused
  <2>4. Put(removed, name, node) # Refused
    BY EmptySeq DEF Refused, Put
  <2> QED
    BY <2>1, <2>2, <2>3, <2>4 DEF TreeOrRefused
<1>14. /\ \A q : q \in DOMAIN removed <=> q \in DOMAIN m /\ ~IsPrefix(name, q)
       /\ \A q \in DOMAIN removed : removed[q] = m[q]
  BY <1>6
<1> QED
  BY <1>7, <1>13, <1>14, Zenon DEF m, removed

\* A directory is made in its parents, unless a file is there.
LEMMA DirectoryMade ==
    ASSUME NEW t, NEW n \in Nat, IsTree(t, n), NEW name, Plain(name), name # << >>,
           InParents(t, name, n),
           Kind(t, name) # "symlink"
    PROVE  IF Kind(t, name) = "file" THEN MkdirAll(Grow(t, Front(name)), name) = Refused
           ELSE /\ MkdirAll(Grow(t, Front(name)), name) = Grow(t, name)
                /\ IsTree(Grow(t, name), n)
<1> DEFINE f == Front(name)
           m == Grow(t, f)
<1>0. IsTree(m, n) /\ Kind(m, f) = "dir"
  BY DEF InParents
<1>1. name \in Seq(STRING) /\ f \in Seq(STRING)
  BY FrontOfName DEF Plain
<1>2. Prefixes(name) = Prefixes(f) \cup {name} /\ name \notin Prefixes(f)
  <2>1. \A q : q \in Prefixes(f) <=> q \in Seq(STRING) /\ IsPrefix(q, f)
    BY <1>1, PrefixesMeans
  <2>2. \A q : q \in Prefixes(name) <=> q \in Seq(STRING) /\ IsPrefix(q, name)
    BY <1>1, PrefixesMeans
  <2>3. \A q \in Seq(STRING) : IsPrefix(q, f) <=> IsStrictPrefix(q, name)
    BY <1>1, PrefixesOfFront
  <2>4. IsPrefix(name, name)
    BY <1>1, PrefixReflexive
  <2> QED
    BY <1>1, <2>1, <2>2, <2>3, <2>4 DEF IsStrictPrefix
<1>3. Kind(m, name) = Kind(t, name)
  BY <1>2 DEF Grow, Kind
<1>8. Grow(m, name) = Grow(t, name)
  BY <1>2 DEF Grow
<1> HIDE DEF m
<1>4. \A q \in Seq(STRING) : IsPrefix(q, name) => Kind(m, q) = "dir" \/ q = name
  <2>1. f \in DOMAIN m
    BY <1>0, KindsInTree
  <2>2. \A q \in Seq(STRING) : IsPrefix(q, f) => Kind(m, q) = "dir"
    BY <1>0, <2>1, AroundPlaces DEF IsStrictPrefix
  <2> QED
    BY <1>1, <2>2, PrefixesOfFront DEF IsStrictPrefix
<1>5. NoLink(m, name)
  BY <1>3, <1>4 DEF NoLink
<1>6. MkdirAll(m, name) =
          IF \E q \in Prefixes(name) : Kind(m, q) = "file" THEN Refused ELSE Grow(m, name)
  BY <1>0, <1>5, MkdirAllPlain
<1>7. (\E q \in Prefixes(name) : Kind(m, q) = "file") <=> Kind(t, name) = "file"
  <2>1. \A q \in Prefixes(name) : Kind(m, q) = "dir" \/ q = name
    BY <1>1, <1>4, PrefixesMeans
  <2> QED
    BY <1>2, <1>3, <2>1
<1>9. MkdirAll(m, name) = Grow(t, name) => IsTree(Grow(t, name), n)
  <2>1. TreeOrRefused(MkdirAll(m, name), n)
    BY <1>0, <1>1, MkdirAllKeepsTree DEF TreeOrRefused
  <2>2. Grow(t, name) # Refused
    <3>1. Root \in DOMAIN Grow(t, name)
      BY KindsInTree DEF Grow
    <3> QED
      BY <3>1, EmptySeq DEF Refused
  <2> QED
    BY <2>1, <2>2 DEF TreeOrRefused
<1> QED
  BY <1>6, <1>7, <1>8, <1>9 DEF m

\* A hard link is made to a file that is still there.
LEMMA LinkReplaces ==
    ASSUME NEW t, NEW n \in Nat, IsTree(t, n), NEW name, Plain(name), name # << >>,
           InParents(t, name, n),
           NEW target, Plain(target), target # << >>, NoLink(t, target)
    PROVE  IF IsPrefix(name, target) \/ Kind(t, target) # "file"
           THEN Link(Cleared(t, name), target, name) = Refused
           ELSE /\ target \in DOMAIN t /\ t[target].kind = "file"
                /\ Link(Cleared(t, name), target, name) = Replaced(t, name, t[target])
                /\ IsTree(Replaced(t, name, t[target]), n)
<1> DEFINE m == Grow(t, Front(name))
           removed == Cleared(t, name)
           found == Place(removed, target)
<1>1. /\ IsTree(removed, n)
      /\ \A q : q \in DOMAIN removed <=> q \in DOMAIN m /\ ~IsPrefix(name, q)
      /\ \A q \in DOMAIN removed : removed[q] = m[q]
  BY CreateReplaces, Zenon
<1>2. \A node \in Nodes(n) : LinkIsRelative(node) =>
          /\ Create(removed, name, node) = Replaced(t, name, node)
          /\ IsTree(Replaced(t, name, node), n)
  BY CreateReplaces, Zenon
<1>3. target \in Seq(STRING) /\ Front(target) \in Seq(STRING)
  BY FrontOfName DEF Plain
<1>4. DOMAIN m = DOMAIN t \cup Prefixes(Front(name))
      /\ \A q \in DOMAIN m : m[q] = IF q \in DOMAIN t THEN t[q] ELSE Directory
  BY DEF Grow
<1> HIDE DEF m, removed
<1>5. ASSUME NEW q, Kind(removed, q) # "none"
      PROVE  Kind(removed, q) = Kind(t, q) \/ Kind(removed, q) = "dir"
  BY <1>1, <1>4, <1>5 DEF Kind, Directory, Node
<1>6. NoLink(removed, target)
  <2>1. ASSUME NEW q \in Seq(STRING), IsPrefix(q, target)
        PROVE  Kind(removed, q) # "symlink"
    <3>1. Kind(t, q) # "symlink"
      BY <2>1 DEF NoLink
    <3> QED
      BY <1>5, <3>1
  <2> QED
    BY <2>1 DEF NoLink
<1>7. NoLink(removed, Front(target))
  <2>1. \A q \in Seq(STRING) : IsPrefix(q, Front(target)) => IsPrefix(q, target)
    BY <1>3, PrefixesOfFront DEF IsStrictPrefix
  <2> QED
    BY <1>6, <2>1 DEF NoLink
<1>8. found = IF Kind(removed, Front(target)) = "dir" THEN target ELSE Nowhere
  BY <1>1, <1>7, PlacePlain
<1>9. Kind(removed, target) = "file" => found = target
  <2>1. IsStrictPrefix(Front(target), target)
    BY <1>3, PrefixReflexive, PrefixesOfFront
  <2>2. Kind(removed, target) = "file" => target \in DOMAIN removed
    BY DEF Kind
  <2> QED
    BY <1>1, <1>3, <1>8, <2>1, <2>2, AroundPlaces
<1>10. Kind(removed, found) = "symlink" => FALSE
  <2>1. Kind(removed, target) # "symlink"
    BY <1>3, <1>6, PrefixReflexive DEF NoLink
  <2>2. Kind(removed, Nowhere) = "none"
    BY <1>1, KindsInTree
  <2> QED
    BY <1>8, <2>1, <2>2
<1>11. Kind(removed, found) = "file" => Kind(removed, target) = "file"
  BY <1>1, <1>8, KindsInTree
<1>12. Kind(removed, target) = "file" <=> ~IsPrefix(name, target) /\ Kind(t, target) = "file"
  <2>1. Kind(removed, target) = "file" => ~IsPrefix(name, target) /\ Kind(t, target) = "file"
    BY <1>1, <1>5 DEF Kind
  <2>2. ~IsPrefix(name, target) /\ Kind(t, target) = "file" => Kind(removed, target) = "file"
    BY <1>1, <1>4 DEF Kind
  <2> QED
    BY <2>1, <2>2
<1> HIDE DEF found
<1>13. Link(removed, target, name) =
           IF Kind(removed, found) \notin {"file", "symlink"} THEN Refused
           ELSE Create(removed, name, removed[found])
  BY DEF Link, found
<1>14. CASE IsPrefix(name, target) \/ Kind(t, target) # "file"
  BY <1>10, <1>11, <1>12, <1>13, <1>14 DEF removed
<1>15. CASE ~(IsPrefix(name, target) \/ Kind(t, target) # "file")
  <2>1. found = target /\ Kind(removed, target) = "file"
    BY <1>9, <1>12, <1>15
  <2>2. target \in DOMAIN t /\ t[target].kind = "file"
    BY <1>15 DEF Kind
  <2>3. removed[target] = t[target]
    BY <1>1, <1>4, <2>1, <2>2 DEF Kind
  <2>4. t[target] \in Nodes(n) /\ LinkIsRelative(t[target])
    BY <2>2 DEF IsTree
  <2>5. Link(removed, target, name) = Create(removed, name, t[target])
    BY <1>13, <2>1, <2>3
  <2> QED
    BY <1>2, <1>15, <2>2, <2>4, <2>5 DEF removed
<1> QED
  BY <1>14, <1>15 DEF removed

-----------------------------------------------------------------------------
(* What an entry makes.                                                    *)

\* Nothing is made of what has failed.
LEMMA RefusedStays ==
    ASSUME NEW name, NEW node, NEW target, NEW e, NEW symbolicLink
    PROVE  /\ MkdirAll(Refused, name) = Refused
           /\ RemoveAll(Refused, name) = Refused
           /\ name # Root => Create(Refused, name, node) = Refused
           /\ Link(Refused, target, name) = Refused
           /\ ApplyMetadata(Refused, name, e, symbolicLink) = Refused
<1>1. DOMAIN Refused = {}
  BY EmptySeq DEF Refused
<1>2. \A p : p \notin DOMAIN Refused
  BY <1>1
<1>3. MkdirAll(Refused, name) = Refused
  BY DEF MkdirAll
<1>4. RemoveAll(Refused, name) = Refused
  <2> DEFINE u == RemoveAll(Refused, name)
  <2>1. u = [p \in {} |-> u[p]]
    BY <1>2 DEF RemoveAll
  <2> HIDE DEF u
  <2>2. u = Refused
    BY <2>1, NoPlaces, Zenon
  <2> QED
    BY <2>2 DEF u
<1>5. \A p : Kind(Refused, p) = "none"
  BY <1>2 DEF Kind
<1>6. name # Root => Create(Refused, name, node) = Refused
  <2>1. name # Root => Place(Refused, name) = Nowhere
    BY <1>5 DEF Place
  <2> QED
    BY <2>1 DEF Create
<1>7. Link(Refused, target, name) = Refused
  BY <1>5 DEF Link
<1>8. \A owner : Lchown(Refused, name, owner) = Refused
  BY <1>2 DEF Lchown
<1>9. \A mode : Chmod(Refused, name, mode) = Refused
  BY <1>2 DEF Chmod
<1>10. ApplyMetadata(Refused, name, e, symbolicLink) = Refused
  BY <1>8, <1>9 DEF ApplyMetadata
<1> QED
  BY <1>3, <1>4, <1>6, <1>7, <1>10

\* An entry cannot be applied to a tree.
Blocked(t, e) ==
    LET name == CleanArchivePath(e.name)
        target == CleanArchivePath(e.target) IN
    \/ name = Nowhere \/ e.type = "other"
    \/ name = Root /\ e.type # "dir"
    \/ name # Root /\ Last(name) \in Whiteouts
    \/ \E p \in Prefixes(name) \ {name} : Kind(t, p) = "file"
    \/ e.type = "dir" /\ Kind(t, name) = "file"
    \/ e.type = "symlink" /\ ~ValidSymlink(name, e.target)
    \/ e.type = "link" /\ (IsPrefix(name, target) \/ Kind(t, target) # "file")

\* Neither its name nor its target leads through a symbolic link.
LeadsThroughNoLink(t, e) ==
    LET name == CleanArchivePath(e.name)
        target == CleanArchivePath(e.target) IN
    /\ name # Root => NoLink(t, Front(name))
    /\ e.type = "dir" => Kind(t, name) # "symlink"
    /\ e.type = "link" => NoLink(t, target)

\* What an entry makes, before its owner and mode are set.
MadeOf(t, e, n) ==
    LET name == CleanArchivePath(e.name) IN
    IF e.type = "dir" THEN Grow(t, name)
    ELSE Replaced(t, name, IF e.type = "file" THEN File(n)
                           ELSE IF e.type = "symlink" THEN Symlink(n, e.target)
                           ELSE t[CleanArchivePath(e.target)])

\* What has been replaced is there.
LEMMA ReplacedIsThere ==
    ASSUME NEW t, NEW name, NEW node
    PROVE  name \in DOMAIN Replaced(t, name, node) /\ Replaced(t, name, node)[name] = node
  BY DEF Replaced, Put

\* A name without links in its way: what an entry makes of a tree.
LEMMA CreateArchiveEntryPlain ==
    ASSUME NEW t, NEW n \in Nat, IsTree(t, n), NEW e \in Entries, LeadsThroughNoLink(t, e),
           NEW name, name = CleanArchivePath(e.name), Plain(name), name # Root,
           Last(name) \notin Whiteouts
    PROVE  LET made == MadeOf(t, e, n)
               result == CreateArchiveEntry(t, e, name, n) IN
           IF Blocked(t, e) THEN result = Refused
           ELSE /\ IsTree(made, n) /\ name \in DOMAIN made
                /\ e.type # "symlink" => made[name].kind \in {"dir", "file"}
                /\ result = ApplyMetadata(made, name, e, e.type = "symlink")
<1> DEFINE f == Front(name)
           m == Grow(t, f)
           first == IF Len(name) = 1 THEN t ELSE MkdirAll(t, f)
           target == CleanArchivePath(e.target)
           result == CreateArchiveEntry(t, e, name, n)
           made == MadeOf(t, e, n)
           inTheWay == \E q \in Prefixes(name) \ {name} : Kind(t, q) = "file"
<1>1. name \in Seq(STRING) /\ name # << >> /\ name # Nowhere
  <2>1. ASSUME name = Nowhere
        PROVE  FALSE
    <3>1. Len(name) = 1 /\ name[1] = ".."
      BY <2>1 DEF Nowhere
    <3>2. 1 \in 1 .. Len(name)
      BY <3>1
    <3>3. name[1] \in Ordinary
      BY <3>2 DEF Plain
    <3> QED
      BY <3>1, <3>3 DEF Ordinary
  <2> QED
    BY <2>1 DEF Plain, Root
<1>2. /\ NoLink(t, f)
      /\ e.type = "dir" => Kind(t, name) # "symlink"
      /\ e.type = "link" => NoLink(t, target)
  BY DEF LeadsThroughNoLink
<1>3. IF inTheWay THEN first = Refused
      ELSE first = m /\ IsTree(m, n) /\ Kind(m, f) = "dir"
  BY <1>1, <1>2, ParentsMade
<1>4. Blocked(t, e) <=>
          \/ e.type = "other" \/ inTheWay
          \/ e.type = "dir" /\ Kind(t, name) = "file"
          \/ e.type = "symlink" /\ ~ValidSymlink(name, e.target)
          \/ e.type = "link" /\ (IsPrefix(name, target) \/ Kind(t, target) # "file")
  BY <1>1 DEF Blocked
<1>5. result =
          IF e.type = "dir" THEN ApplyMetadata(MkdirAll(first, name), name, e, FALSE)
          ELSE IF e.type = "file"
               THEN ApplyMetadata(Create(RemoveAll(first, name), name, File(n)), name, e, FALSE)
          ELSE IF e.type = "symlink" /\ ValidSymlink(name, e.target)
               THEN ApplyMetadata(Create(RemoveAll(first, name), name, Symlink(n, e.target)),
                                  name, e, TRUE)
          ELSE IF e.type = "link" /\ target \notin {Nowhere, Root}
               THEN ApplyMetadata(Link(RemoveAll(first, name), target, name), name, e, FALSE)
          ELSE Refused
  BY DEF CreateArchiveEntry
<1>6. e.type \in {"dir", "file", "symlink", "link", "other"}
  BY EntryFields DEF EntryTypes
<1>7. made = IF e.type = "dir" THEN Grow(t, name)
             ELSE Replaced(t, name, IF e.type = "file" THEN File(n)
                                    ELSE IF e.type = "symlink" THEN Symlink(n, e.target)
                                    ELSE t[target])
  BY DEF MadeOf
<1>8. Kind(t, Nowhere) # "file" /\ Kind(t, Root) # "file"
  BY KindsInTree
<1>9. target = Nowhere \/ Plain(target)
  BY EntryFields, CleanArchivePathIsPlain
<1> HIDE DEF first, m, target, result, made, inTheWay
<1>10. CASE inTheWay
  <2>1. result = Refused
    BY <1>3, <1>5, <1>10, RefusedStays
  <2> QED
    BY <1>4, <1>10, <2>1 DEF result, made
<1>11. CASE ~inTheWay
  <2>1. first = m /\ IsTree(m, n) /\ Kind(m, f) = "dir"
    BY <1>3, <1>11
  <2>2. InParents(t, name, n)
    BY <2>1 DEF InParents, m
  <2>3. RemoveAll(first, name) = Cleared(t, name)
    BY <2>1 DEF Cleared, m
  <2>4. \A node \in Nodes(n) : LinkIsRelative(node) =>
            /\ Create(Cleared(t, name), name, node) = Replaced(t, name, node)
            /\ IsTree(Replaced(t, name, node), n)
    BY <1>1, <2>2, CreateReplaces
  <2> DEFINE Good == /\ IsTree(made, n) /\ name \in DOMAIN made
                     /\ e.type # "symlink" => made[name].kind \in {"dir", "file"}
                     /\ result = ApplyMetadata(made, name, e, e.type = "symlink")
  <2>5. CASE e.type = "dir"
    <3>1. IF Kind(t, name) = "file" THEN MkdirAll(first, name) = Refused
          ELSE MkdirAll(first, name) = Grow(t, name) /\ IsTree(Grow(t, name), n)
      BY <1>1, <1>2, <2>1, <2>2, <2>5, DirectoryMade DEF m
    <3>2. result = ApplyMetadata(MkdirAll(first, name), name, e, FALSE)
      BY <1>5, <2>5
    <3>3. CASE Kind(t, name) = "file"
      BY <1>4, <2>5, <3>1, <3>2, <3>3, RefusedStays DEF result
    <3>4. CASE Kind(t, name) # "file"
      <4>1. made = Grow(t, name) /\ IsTree(made, n)
        BY <1>7, <2>5, <3>1, <3>4
      <4>2. name \in DOMAIN made /\ made[name].kind = "dir"
        <5>1. name \in Prefixes(name)
          BY <1>1, PrefixReflexive, PrefixesMeans
        <5>2. name \in DOMAIN t => t[name].kind = "dir"
          BY <1>2, <2>5, <3>4, KindsInTree DEF Kind
        <5> QED
          BY <4>1, <5>1, <5>2 DEF Grow, Directory, Node
      <4>3. Good
        BY <2>5, <3>1, <3>2, <3>4, <4>1, <4>2
      <4>4. ~Blocked(t, e)
        BY <1>4, <1>11, <2>5, <3>4
      <4> QED
        BY <4>3, <4>4 DEF result, made
    <3> QED
      BY <3>3, <3>4
  <2>6. CASE e.type = "file"
    <3>1. File(n) \in Nodes(n) /\ LinkIsRelative(File(n)) /\ File(n).kind = "file"
      BY EmptySeq DEF File, Node, Nodes, LinkIsRelative
    <3>2. made = Replaced(t, name, File(n))
      BY <1>7, <2>6
    <3>3. Create(Cleared(t, name), name, File(n)) = made /\ IsTree(made, n)
      BY <2>4, <3>1, <3>2
    <3>4. result = ApplyMetadata(made, name, e, FALSE)
      BY <1>5, <2>3, <2>6, <3>3
    <3>5. name \in DOMAIN made /\ made[name].kind = "file"
      BY <3>1, <3>2, ReplacedIsThere
    <3>6. Good
      BY <2>6, <3>3, <3>4, <3>5
    <3>7. ~Blocked(t, e)
      BY <1>4, <1>11, <2>6
    <3> QED
      BY <3>6, <3>7 DEF result, made
  <2>7. CASE e.type = "symlink"
    <3>1. CASE ~ValidSymlink(name, e.target)
      <4>1. result = Refused /\ Blocked(t, e)
        BY <1>4, <1>5, <2>7, <3>1
      <4> QED
        BY <4>1 DEF result
    <3>2. CASE ValidSymlink(name, e.target)
      <4>1. e.target \in Seq(STRING) /\ Len(e.target) \in 1 .. LongestTarget
            /\ Head(e.target) # ""
        BY <3>2, EntryFields DEF ValidSymlink
      <4>2. Symlink(n, e.target) \in Nodes(n)
        <5>1. n \in 0 .. n /\ 0 \in Nat
          OBVIOUS
        <5> QED
          BY <4>1, <5>1 DEF Symlink, Node, Nodes
      <4>3. Symlink(n, e.target).target = e.target
        BY DEF Symlink, Node
      <4>4. LinkIsRelative(Symlink(n, e.target))
        BY <4>1, <4>3, Zenon DEF LinkIsRelative
      <4>5. made = Replaced(t, name, Symlink(n, e.target))
        BY <1>7, <2>7
      <4>6. Create(Cleared(t, name), name, Symlink(n, e.target)) = made /\ IsTree(made, n)
        BY <2>4, <4>2, <4>4, <4>5
      <4>7. result = ApplyMetadata(made, name, e, TRUE)
        BY <1>5, <2>3, <2>7, <3>2, <4>6
      <4>8. name \in DOMAIN made
        BY <4>5, ReplacedIsThere
      <4>9. Good
        BY <2>7, <4>6, <4>7, <4>8
      <4>10. ~Blocked(t, e)
        BY <1>4, <1>11, <2>7, <3>2
      <4> QED
        BY <4>9, <4>10 DEF result, made
    <3> QED
      BY <3>1, <3>2
  <2>8. CASE e.type = "link"
    <3>1. CASE target \in {Nowhere, Root}
      <4>1. result = Refused /\ Blocked(t, e)
        BY <1>4, <1>5, <1>8, <2>8, <3>1
      <4> QED
        BY <4>1 DEF result
    <3>2. CASE target \notin {Nowhere, Root}
      <4>1. Plain(target) /\ target # << >> /\ NoLink(t, target)
        BY <1>2, <1>9, <2>8, <3>2 DEF Root
      <4>2. IF IsPrefix(name, target) \/ Kind(t, target) # "file"
            THEN Link(Cleared(t, name), target, name) = Refused
            ELSE /\ target \in DOMAIN t /\ t[target].kind = "file"
                 /\ Link(Cleared(t, name), target, name) = Replaced(t, name, t[target])
                 /\ IsTree(Replaced(t, name, t[target]), n)
        BY <1>1, <2>2, <4>1, LinkReplaces
      <4>3. result = ApplyMetadata(Link(Cleared(t, name), target, name), name, e, FALSE)
        BY <1>5, <2>3, <2>8, <3>2
      <4>4. CASE IsPrefix(name, target) \/ Kind(t, target) # "file"
        <5>1. result = Refused /\ Blocked(t, e)
          BY <1>4, <2>8, <4>2, <4>3, <4>4, RefusedStays
        <5> QED
          BY <5>1 DEF result
      <4>5. CASE ~(IsPrefix(name, target) \/ Kind(t, target) # "file")
        <5>1. made = Replaced(t, name, t[target])
          BY <1>7, <2>8
        <5>2. result = ApplyMetadata(made, name, e, FALSE) /\ IsTree(made, n)
          BY <4>2, <4>3, <4>5, <5>1
        <5>3. name \in DOMAIN made /\ made[name].kind = "file"
          BY <4>2, <4>5, <5>1, ReplacedIsThere
        <5>4. Good
          BY <2>8, <5>2, <5>3
        <5>5. ~Blocked(t, e)
          BY <1>4, <1>11, <2>8, <4>5
        <5> QED
          BY <5>4, <5>5 DEF result, made
      <4> QED
        BY <4>4, <4>5
    <3> QED
      BY <3>1, <3>2
  <2>9. CASE e.type = "other"
    <3>1. result = Refused /\ Blocked(t, e)
      BY <1>4, <1>5, <2>9
    <3> QED
      BY <3>1 DEF result
  <2> QED
    BY <1>6, <2>5, <2>6, <2>7, <2>8, <2>9
<1> QED
  BY <1>10, <1>11

\* So does the whole body of the loop.
LEMMA ExtractEntryPlain ==
    ASSUME NEW t, NEW n \in Nat, IsTree(t, n), NEW e \in Entries, LeadsThroughNoLink(t, e)
    PROVE  LET name == CleanArchivePath(e.name)
               made == MadeOf(t, e, n)
               result == ExtractEntry(t, e, n) IN
           IF Blocked(t, e) THEN result = Refused
           ELSE /\ Plain(name) /\ name \in DOMAIN made
                /\ result # Refused
                /\ HasMetadata(made, name, e, e.type = "symlink", result)
<1> DEFINE name == CleanArchivePath(e.name)
           made == MadeOf(t, e, n)
           result == ExtractEntry(t, e, n)
           Good == /\ IsTree(made, n) /\ name \in DOMAIN made
                   /\ e.type # "symlink" => made[name].kind \in {"dir", "file"}
                   /\ result = ApplyMetadata(made, name, e, e.type = "symlink")
<1>1. name = Nowhere \/ Plain(name)
  BY EntryFields, CleanArchivePathIsPlain
<1>2. Root # Nowhere
  BY KindsInTree
<1>3. \A node : (e.type = "symlink") \in BOOLEAN
  OBVIOUS
<1>4. ASSUME Good
      PROVE  Plain(name) /\ result # Refused
             /\ HasMetadata(made, name, e, e.type = "symlink", result)
  <2>1. Plain(name)
    BY <1>4, PlaceOfPlace
  <2> HIDE DEF made, name, result
  <2>2. result # Refused /\ HasMetadata(made, name, e, e.type = "symlink", result)
    <3> DEFINE linking == e.type = "symlink"
    <3>1. linking \in BOOLEAN /\ (~linking => made[name].kind \in {"dir", "file"})
      BY <1>4
    <3>2. result = ApplyMetadata(made, name, e, linking)
      BY <1>4
    <3> HIDE DEF linking
    <3>3. result # Refused /\ HasMetadata(made, name, e, linking, result)
      BY <1>4, <3>1, <3>2, MetadataOfPlace
    <3> QED
      BY <3>3 DEF linking
  <2> QED
    BY <2>1, <2>2
<1>5. IF Blocked(t, e) THEN result = Refused ELSE Good
  <2>1. CASE name = Nowhere \/ (name # Root /\ Last(name) \in Whiteouts)
               \/ (name = Root /\ e.type # "dir")
    BY <1>2, <2>1 DEF Blocked, ExtractEntry
  <2>2. CASE name \notin {Nowhere, Root} /\ Last(name) \notin Whiteouts
    <3>1. result = CreateArchiveEntry(t, e, name, n)
      BY <2>2 DEF ExtractEntry
    <3>2. Plain(name) /\ name # Root
      BY <1>1, <2>2
    <3> HIDE DEF result
    <3> QED
      BY <2>2, <3>1, <3>2, CreateArchiveEntryPlain
  <2>3. CASE name = Root /\ e.type = "dir"
    <3>1. made = t /\ name \in DOMAIN t /\ t[name].kind = "dir"
      <4>1. Kind(t, Root) = "dir" /\ Root \in DOMAIN t
        BY KindsInTree
      <4> QED
        BY <2>3, <4>1, GrowRoot DEF MadeOf, Kind
    <3>2. result = ApplyMetadata(t, name, e, FALSE)
      BY <2>3 DEF ExtractEntry
    <3>3. ~Blocked(t, e)
      <4>1. Prefixes(name) \ {name} = {}
        <5>1. \A q : q \in Prefixes(Root) => q \in Seq(STRING) /\ IsPrefix(q, Root)
          BY PrefixesMeans, EmptySeq DEF Root
        <5>2. Root \in Seq(STRING)
          BY EmptySeq DEF Root
        <5>3. \A q \in Prefixes(Root) : q = Root
          BY <5>1, <5>2, PrefixReflexive, PrefixAntisymmetric
        <5> QED
          BY <2>3, <5>3
      <4> QED
        BY <1>2, <2>3, <3>1, <4>1 DEF Blocked, Kind
    <3> HIDE DEF made, result
    <3> QED
      BY <2>3, <3>1, <3>2, <3>3
  <2> QED
    BY <2>1, <2>2, <2>3
<1> HIDE DEF made, name, result
<1>6. IF Blocked(t, e) THEN result = Refused
      ELSE /\ Plain(name) /\ name \in DOMAIN made
           /\ result # Refused
           /\ HasMetadata(made, name, e, e.type = "symlink", result)
  BY <1>4, <1>5
<1> QED
  BY <1>6 DEF made, name, result

-----------------------------------------------------------------------------
(* What a longer archive says.                                             *)

\* A chain that leads to smaller numbers ends.
LEMMA ChainExists ==
    ASSUME NEW n \in Nat, NEW c, \A i \in 1 .. n : c[i] \in 1 .. i
    PROVE  \E g : g = [i \in 1 .. n |-> IF c[i] # i THEN g[c[i]] ELSE i]
<1> DEFINE Chain(m, g) == g = [i \in 1 .. m |-> IF c[i] # i THEN g[c[i]] ELSE i]
           S == {m \in Nat : m <= n => \E g : Chain(m, g)}
<1>1. 0 \in S
  <2>1. Chain(0, [i \in 1 .. 0 |-> i])
    OBVIOUS
  <2> QED
    BY <2>1
<1>2. ASSUME NEW m \in Nat, m \in S
      PROVE  m + 1 \in S
  <2> SUFFICES ASSUME m + 1 <= n
               PROVE  \E g : Chain(m + 1, g)
    OBVIOUS
  <2>1. PICK g : Chain(m, g)
    BY <1>2
  <2> DEFINE last == IF c[m + 1] # m + 1 THEN g[c[m + 1]] ELSE m + 1
             h == [i \in 1 .. m + 1 |-> IF i <= m THEN g[i] ELSE last]
  <2>2. \A i \in 1 .. m : g[i] = IF c[i] # i THEN g[c[i]] ELSE i
    BY <2>1
  <2>3. \A i \in 1 .. m : c[i] \in 1 .. m
    OBVIOUS
  <2>4. c[m + 1] \in 1 .. m + 1
    OBVIOUS
  <2>5. \A i \in 1 .. m + 1 : h[i] = IF i <= m THEN g[i] ELSE last
    OBVIOUS
  <2>6. DOMAIN h = 1 .. m + 1 /\ h = [i \in 1 .. m + 1 |-> h[i]]
    OBVIOUS
  <2> HIDE DEF h
  <2>7. \A i \in 1 .. m : h[i] = IF c[i] # i THEN h[c[i]] ELSE i
    BY <2>2, <2>3, <2>5
  <2>8. h[m + 1] = IF c[m + 1] # m + 1 THEN h[c[m + 1]] ELSE m + 1
    BY <2>4, <2>5
  <2>9. \A i \in 1 .. m + 1 : h[i] = IF c[i] # i THEN h[c[i]] ELSE i
    BY <2>7, <2>8
  <2>10. Chain(m + 1, h)
    BY <2>6, <2>9
  <2> QED
    BY <2>10
<1>3. n \in S
  <2> HIDE DEF S
  <2> QED
    BY <1>1, <1>2, SetInduction
<1> QED
  BY <1>3

\* An entry that has been claimed for a place is one, and came before.
LEMMA ClaimantComesBefore ==
    ASSUME NEW a, NEW p, NEW n \in Nat
    PROVE  /\ Claims(a, p, n) \subseteq Standing(a, n)
           /\ Standing(a, n) \subseteq 1 .. n - 1
           /\ Claims(a, p, n) # {} => Claimant(a, p, n) \in Claims(a, p, n)
  BY DEF Claims, Claimant, Standing

\* The recursive function that Origin defines exists, and satisfies its definition.
LEMMA OriginMeans ==
    ASSUME NEW a \in Seq(Entries), NEW i \in DOMAIN a
    PROVE  Origin(a)[i] =
               IF a[i].type = "link" /\ Claims(a, Target(a, i), i) # {}
               THEN Origin(a)[Claimant(a, Target(a, i), i)]
               ELSE i
<1> DEFINE Links(j) == a[j].type = "link" /\ Claims(a, Target(a, j), j) # {}
           To(j) == Claimant(a, Target(a, j), j)
           c == [j \in DOMAIN a |-> IF Links(j) THEN To(j) ELSE j]
<1>1. DOMAIN a = 1 .. Len(a) /\ Len(a) \in Nat
  BY LenProperties
<1>2. \A j \in DOMAIN a : Links(j) => To(j) \in 1 .. j - 1
  <2> SUFFICES ASSUME NEW j \in DOMAIN a, Links(j)
               PROVE  To(j) \in 1 .. j - 1
    OBVIOUS
  <2>1. j \in Nat
    BY <1>1
  <2>2. To(j) \in Standing(a, j)
    BY <2>1, ClaimantComesBefore
  <2> QED
    BY <2>1, <2>2, ClaimantComesBefore
<1> HIDE DEF Links, To
<1>3. \A j \in 1 .. Len(a) : c[j] \in 1 .. j
  BY <1>1, <1>2
<1>4. \A j \in DOMAIN a : IF Links(j) THEN c[j] = To(j) /\ c[j] # j ELSE c[j] = j
  BY <1>1, <1>2
<1> HIDE DEF c
<1>5. PICK g : g = [j \in 1 .. Len(a) |-> IF c[j] # j THEN g[c[j]] ELSE j]
  BY <1>1, <1>3, ChainExists
<1>6. g = [j \in DOMAIN a |-> IF Links(j) THEN g[To(j)] ELSE j]
  BY <1>1, <1>4, <1>5
<1>7. \E f : f = [j \in DOMAIN a |-> IF Links(j) THEN f[To(j)] ELSE j]
  BY <1>6
<1>8. Origin(a) = [j \in DOMAIN a |-> IF Links(j) THEN Origin(a)[To(j)] ELSE j]
  BY <1>7 DEF Origin, Links, To
<1> QED
  BY <1>8 DEF Links, To

\* An origin comes before what is made of it.
LEMMA OriginComesBefore ==
    ASSUME NEW a \in Seq(Entries)
    PROVE  \A i \in DOMAIN a : Origin(a)[i] \in 1 .. i
<1> DEFINE S == {k \in Nat : \A i \in DOMAIN a : i <= k => Origin(a)[i] \in 1 .. i}
<1>1. DOMAIN a = 1 .. Len(a) /\ Len(a) \in Nat
  BY LenProperties
<1>2. 0 \in S
  BY <1>1
<1>3. ASSUME NEW k \in Nat, k \in S
      PROVE  k + 1 \in S
  <2> SUFFICES ASSUME NEW i \in DOMAIN a, i <= k + 1
               PROVE  Origin(a)[i] \in 1 .. i
    OBVIOUS
  <2>1. i \in Nat /\ i >= 1
    BY <1>1
  <2> DEFINE j == Claimant(a, Target(a, i), i)
  <2>2. CASE a[i].type = "link" /\ Claims(a, Target(a, i), i) # {}
    <3>1. Origin(a)[i] = Origin(a)[j]
      BY <2>2, OriginMeans
    <3>2. j \in 1 .. i - 1
      <4>1. j \in Standing(a, i)
        BY <2>1, <2>2, ClaimantComesBefore
      <4> QED
        BY <2>1, <4>1, ClaimantComesBefore
    <3> HIDE DEF j
    <3>3. j \in DOMAIN a /\ j <= k
      BY <1>1, <2>1, <3>2
    <3>4. Origin(a)[j] \in 1 .. j
      BY <1>3, <3>3
    <3> QED
      BY <2>1, <3>1, <3>2, <3>4
  <2>3. CASE ~(a[i].type = "link" /\ Claims(a, Target(a, i), i) # {})
    <3>1. Origin(a)[i] = i
      BY <2>3, OriginMeans
    <3> QED
      BY <2>1, <3>1
  <2> QED
    BY <2>2, <2>3
<1>4. Nat \subseteq S
  <2> HIDE DEF S
  <2> QED
    BY <1>2, <1>3, SetInduction
<1> QED
  BY <1>1, <1>4

\* One more entry.
OneMore(a, e, b) == b = Append(a, e)

\* It comes after the others.
LEMMA OneMoreEntry ==
    ASSUME NEW a \in Seq(Entries), NEW e \in Entries, NEW b, OneMore(a, e, b)
    PROVE  /\ b \in Seq(Entries) /\ Len(a) \in Nat /\ Len(b) = Len(a) + 1
           /\ DOMAIN a = 1 .. Len(a) /\ DOMAIN b = 1 .. Len(a) + 1
           /\ b[Len(a) + 1] = e
           /\ \A i \in 1 .. Len(a) : b[i] = a[i]
           /\ \A i \in 1 .. Len(a) : /\ Name(b, i) = Name(a, i)
                                     /\ Target(b, i) = Target(a, i)
                                     /\ Replaces(b, i) = Replaces(a, i)
           /\ Name(b, Len(a) + 1) = CleanArchivePath(e.name)
           /\ Target(b, Len(a) + 1) = CleanArchivePath(e.target)
<1>1. b \in Seq(Entries) /\ Len(a) \in Nat /\ Len(b) = Len(a) + 1
  BY AppendProperties, LenProperties DEF OneMore
<1>2. DOMAIN a = 1 .. Len(a) /\ DOMAIN b = 1 .. Len(a) + 1
  BY <1>1, LenProperties
<1>3. b[Len(a) + 1] = e
  BY AppendProperties, Zenon DEF OneMore
<1>4. \A i \in 1 .. Len(a) : b[i] = a[i]
  BY AppendProperties DEF OneMore
<1>5. \A i \in 1 .. Len(a) : /\ Name(b, i) = Name(a, i)
                             /\ Target(b, i) = Target(a, i)
                             /\ Replaces(b, i) = Replaces(a, i)
  BY <1>4, Zenon DEF Name, Target, Replaces
<1>6. /\ Name(b, Len(a) + 1) = CleanArchivePath(e.name)
      /\ Target(b, Len(a) + 1) = CleanArchivePath(e.target)
  BY <1>3, Zenon DEF Name, Target
<1> QED
  BY <1>1, <1>2, <1>3, <1>4, <1>5, <1>6

\* What the entries before it say does not change.
LEMMA SaidBefore ==
    ASSUME NEW a \in Seq(Entries), NEW e \in Entries, NEW b, OneMore(a, e, b),
           NEW m \in 1 .. Len(a) + 1
    PROVE  /\ Standing(b, m) = Standing(a, m)
           /\ Present(b, m) = Present(a, m)
           /\ \A p : Claims(b, p, m) = Claims(a, p, m) /\ Claimant(b, p, m) = Claimant(a, p, m)
<1>1. /\ Len(a) \in Nat
      /\ \A i \in 1 .. Len(a) : Name(b, i) = Name(a, i) /\ Replaces(b, i) = Replaces(a, i)
  BY OneMoreEntry
<1>2. m - 1 \in 0 .. Len(a)
  BY <1>1
<1>3. \A i \in 1 .. m - 1 : Stands(b, i, m) <=> Stands(a, i, m)
  BY <1>1, <1>2 DEF Stands
<1>4. Standing(b, m) = Standing(a, m)
  BY <1>3 DEF Standing
<1>5. \A i \in Standing(a, m) : Name(b, i) = Name(a, i)
  BY <1>1, <1>2 DEF Standing
<1>6. Present(b, m) = Present(a, m)
  BY <1>4, <1>5 DEF Present
<1>7. \A p : Claims(b, p, m) = Claims(a, p, m)
  BY <1>4, <1>5 DEF Claims
<1>8. \A p : Claimant(b, p, m) = Claimant(a, p, m)
  BY <1>7 DEF Claimant
<1> QED
  BY <1>4, <1>6, <1>7, <1>8

\* Nor do their origins.
LEMMA OriginsKept ==
    ASSUME NEW a \in Seq(Entries), NEW e \in Entries, NEW b, OneMore(a, e, b)
    PROVE  \A i \in 1 .. Len(a) : Origin(b)[i] = Origin(a)[i]
<1> DEFINE S == {k \in Nat : \A i \in 1 .. Len(a) : i <= k => Origin(b)[i] = Origin(a)[i]}
<1>1. /\ b \in Seq(Entries) /\ Len(a) \in Nat
      /\ DOMAIN a = 1 .. Len(a) /\ DOMAIN b = 1 .. Len(a) + 1
      /\ \A i \in 1 .. Len(a) : b[i] = a[i] /\ Target(b, i) = Target(a, i)
  BY OneMoreEntry
<1>2. 0 \in S
  BY <1>1
<1>3. ASSUME NEW k \in Nat, k \in S
      PROVE  k + 1 \in S
  <2> SUFFICES ASSUME NEW i \in 1 .. Len(a), i <= k + 1
               PROVE  Origin(b)[i] = Origin(a)[i]
    OBVIOUS
  <2>1. i \in Nat /\ i >= 1 /\ i \in 1 .. Len(a) + 1 /\ i \in DOMAIN a /\ i \in DOMAIN b
    BY <1>1
  <2> DEFINE j == Claimant(a, Target(a, i), i)
             links == a[i].type = "link" /\ Claims(a, Target(a, i), i) # {}
  <2>2. b[i] = a[i] /\ Target(b, i) = Target(a, i)
    BY <1>1
  <2>3. /\ Claims(b, Target(a, i), i) = Claims(a, Target(a, i), i)
        /\ Claimant(b, Target(a, i), i) = j
    BY <2>1, SaidBefore
  <2>4. Origin(a)[i] = IF links THEN Origin(a)[j] ELSE i
    BY <2>1, OriginMeans
  <2>5. Origin(b)[i] = IF links THEN Origin(b)[j] ELSE i
    <3>1. Origin(b)[i] =
              IF b[i].type = "link" /\ Claims(b, Target(b, i), i) # {}
              THEN Origin(b)[Claimant(b, Target(b, i), i)]
              ELSE i
      BY <1>1, <2>1, OriginMeans, Zenon
    <3> QED
      BY <2>2, <2>3, <3>1, Zenon
  <2>6. CASE links
    <3>1. j \in 1 .. i - 1
      <4>1. j \in Standing(a, i)
        BY <2>1, <2>6, ClaimantComesBefore
      <4> QED
        BY <2>1, <4>1, ClaimantComesBefore
    <3> HIDE DEF j
    <3>2. j \in 1 .. Len(a) /\ j <= k
      BY <1>1, <2>1, <3>1
    <3>3. Origin(b)[j] = Origin(a)[j]
      BY <1>3, <3>2
    <3> QED
      BY <2>4, <2>5, <2>6, <3>3
  <2>7. CASE ~links
    BY <2>4, <2>5, <2>7
  <2> QED
    BY <2>6, <2>7
<1>4. Nat \subseteq S
  <2> HIDE DEF S
  <2> QED
    BY <1>2, <1>3, SetInduction
<1> QED
  BY <1>1, <1>4

\* Nor what they say of a place, or of another entry.
LEMMA KindsKept ==
    ASSUME NEW a \in Seq(Entries), NEW e \in Entries, NEW b, OneMore(a, e, b),
           NEW m \in 1 .. Len(a) + 1
    PROVE  /\ \A p : KindAt(b, p, m) = KindAt(a, p, m)
           /\ m <= Len(a) => (Unacceptable(b, m) <=> Unacceptable(a, m))
           /\ PlainBefore(b, m) <=> PlainBefore(a, m)
<1>1. /\ Len(a) \in Nat /\ DOMAIN a = 1 .. Len(a)
      /\ \A i \in 1 .. Len(a) : b[i] = a[i]
      /\ \A i \in 1 .. Len(a) : Name(b, i) = Name(a, i) /\ Target(b, i) = Target(a, i)
  BY OneMoreEntry
<1>2. ASSUME NEW p
      PROVE  KindAt(b, p, m) = KindAt(a, p, m)
  <2> DEFINE j == Claimant(a, p, m)
  <2>1. /\ Claims(b, p, m) = Claims(a, p, m) /\ Claimant(b, p, m) = j
        /\ Present(b, m) = Present(a, m)
    BY SaidBefore
  <2>2. CASE Claims(a, p, m) # {}
    <3>1. j \in 1 .. Len(a)
      <4>1. m \in Nat
        BY <1>1
      <4>2. j \in 1 .. m - 1
        BY <2>2, <4>1, ClaimantComesBefore
      <4> HIDE DEF j
      <4> QED
        BY <1>1, <4>2
    <3> HIDE DEF j
    <3>2. Origin(b)[j] = Origin(a)[j]
      BY <3>1, OriginsKept
    <3>3. Origin(a)[j] \in 1 .. Len(a)
      <4>1. Origin(a)[j] \in 1 .. j
        BY <1>1, <3>1, OriginComesBefore
      <4> QED
        BY <1>1, <3>1, <4>1
    <3>4. b[Origin(a)[j]] = a[Origin(a)[j]]
      BY <1>1, <3>3
    <3>5. KindAt(b, p, m) = b[Origin(b)[j]].type
      BY <2>1, <2>2 DEF KindAt
    <3>6. KindAt(a, p, m) = a[Origin(a)[j]].type
      BY <2>2 DEF KindAt, j
    <3> QED
      BY <3>2, <3>4, <3>5, <3>6
  <2>3. CASE Claims(a, p, m) = {}
    BY <2>1, <2>3 DEF KindAt
  <2> QED
    BY <2>2, <2>3
<1>3. ASSUME m <= Len(a)
      PROVE  Unacceptable(b, m) <=> Unacceptable(a, m)
  <2>1. b[m] = a[m] /\ Name(b, m) = Name(a, m) /\ Target(b, m) = Target(a, m)
    BY <1>1, <1>3
  <2> QED
    BY <1>2, <2>1 DEF Unacceptable
<1>4. PlainBefore(b, m) <=> PlainBefore(a, m)
  <2>1. \A i \in 1 .. m - 1 : /\ i \in 1 .. Len(a)
                              /\ \A k \in 1 .. i - 1 : k \in 1 .. Len(a)
    BY <1>1
  <2>2. \A j \in 1 .. m - 1 : b[j] = a[j] /\ Name(b, j) = Name(a, j) /\ Target(b, j) = Target(a, j)
    BY <1>1, <2>1
  <2>3. \A j \in 1 .. m - 1 : \A i \in 1 .. j - 1 :
            b[i] = a[i] /\ Name(b, i) = Name(a, i)
    BY <1>1, <2>1
  <2> QED
    BY <2>2, <2>3 DEF PlainBefore
<1> QED
  BY <1>2, <1>3, <1>4

-----------------------------------------------------------------------------
(* The tree and the archive say the same.                                  *)

\* What stands after one more entry.
LEMMA StandingOfNext ==
    ASSUME NEW a \in Seq(Entries), NEW e \in Entries, NEW b, OneMore(a, e, b),
           NEW n, n = Len(a) + 1, NEW name, name = CleanArchivePath(e.name), NEW i
    PROVE  i \in Standing(b, n + 1) <=>
               \/ i = n
               \/ /\ i \in Standing(a, n) /\ Name(a, i) # name
                  /\ ~(e.type # "dir" /\ IsStrictPrefix(name, Name(a, i)))
<1>1. Len(a) \in Nat /\ n \in Nat /\ n >= 1 /\ n - 1 = Len(a) /\ (n + 1) - 1 = n
  BY OneMoreEntry
<1>2. /\ b[n] = e /\ Name(b, n) = name
      /\ \A j \in 1 .. n - 1 : Name(b, j) = Name(a, j) /\ Replaces(b, j) = Replaces(a, j)
  BY <1>1, OneMoreEntry
<1>3. Replaces(b, n) <=> e.type # "dir"
  BY <1>2 DEF Replaces
<1>4. Stands(b, n, n + 1)
  <2>1. n + 1 .. (n + 1) - 1 = {}
    BY <1>1
  <2> QED
    BY <2>1 DEF Stands
<1>5. ASSUME i \in 1 .. n - 1
      PROVE  Stands(b, i, n + 1) <=>
                 /\ Stands(a, i, n) /\ Name(a, i) # name
                 /\ ~(e.type # "dir" /\ IsStrictPrefix(name, Name(a, i)))
  <2>1. i + 1 .. (n + 1) - 1 = (i + 1 .. n - 1) \cup {n}
    BY <1>1, <1>5
  <2>2. \A j \in i + 1 .. n - 1 : j \in 1 .. n - 1
    BY <1>1, <1>5
  <2> QED
    BY <1>2, <1>3, <1>5, <2>1, <2>2 DEF Stands
<1>6. 1 .. (n + 1) - 1 = (1 .. n - 1) \cup {n}
  BY <1>1
<1>7. n \notin 1 .. n - 1
  BY <1>1
<1> QED
  BY <1>4, <1>5, <1>6, <1>7 DEF Standing

\* The origin of one more entry.
LEMMA OriginOfNext ==
    ASSUME NEW a \in Seq(Entries), NEW e \in Entries, NEW b, OneMore(a, e, b),
           NEW n, n = Len(a) + 1, NEW target, target = CleanArchivePath(e.target)
    PROVE  Origin(b)[n] = IF e.type = "link" /\ Claims(a, target, n) # {}
                          THEN Origin(a)[Claimant(a, target, n)] ELSE n
<1>1. /\ Len(a) \in Nat /\ n \in Nat /\ n \in 1 .. Len(a) + 1
      /\ b \in Seq(Entries) /\ n \in DOMAIN b /\ b[n] = e /\ Target(b, n) = target
  BY OneMoreEntry
<1>2. /\ Claims(b, target, n) = Claims(a, target, n)
      /\ Claimant(b, target, n) = Claimant(a, target, n)
  BY <1>1, SaidBefore
<1>3. Origin(b)[n] = IF b[n].type = "link" /\ Claims(b, Target(b, n), n) # {}
                     THEN Origin(b)[Claimant(b, Target(b, n), n)] ELSE n
  BY <1>1, OriginMeans
<1>4. Claims(a, target, n) # {} => Claimant(a, target, n) \in 1 .. Len(a)
  <2>1. n - 1 = Len(a)
    BY <1>1
  <2> QED
    BY <1>1, <2>1, ClaimantComesBefore
<1>5. Claims(a, target, n) # {} =>
          Origin(b)[Claimant(a, target, n)] = Origin(a)[Claimant(a, target, n)]
  BY <1>4, OriginsKept
<1> QED
  BY <1>1, <1>2, <1>3, <1>5

\* Of the entries that name a place, one stands.
LEMMA OneClaims ==
    ASSUME NEW a, NEW n \in Nat, NEW p, NEW i \in Claims(a, p, n), NEW j \in Claims(a, p, n)
    PROVE  i = j
<1>1. /\ i \in 1 .. n - 1 /\ Stands(a, i, n) /\ Name(a, i) = p
      /\ j \in 1 .. n - 1 /\ Stands(a, j, n) /\ Name(a, j) = p
  BY DEF Claims, Standing
<1>2. ~(i < j)
  BY <1>1 DEF Stands
<1>3. ~(j < i)
  BY <1>1 DEF Stands
<1> QED
  BY <1>1, <1>2, <1>3

\* The names of an archive that has been accepted.
Named(a) ==
    \A i \in DOMAIN a : /\ Plain(Name(a, i))
                        /\ Replaces(a, i) => Name(a, i) # Root
                        /\ a[i].type \in {"dir", "file", "symlink", "link"}

\* Entry k is the last that names the file of entry i.
IsLastNaming(a, i, k) ==
    /\ k \in DOMAIN a /\ Origin(a)[k] = Origin(a)[i]
    /\ \A l \in k + 1 .. Len(a) : Origin(a)[l] # Origin(a)[i]

\* A hard link is made to a file, and there is a last entry that names it.
Sourced(a) ==
    \A i \in DOMAIN a : /\ a[i].type = "link" => a[Origin(a)[i]].type = "file"
                        /\ \E k : IsLastNaming(a, i, k)

\* What entry i has made is there, as the last entry that names its file wants it.
Shown(t, a, i) ==
    LET node == t[Name(a, i)] IN
    /\ node.kind = a[Origin(a)[i]].type
    /\ node.ino = IF node.kind = "dir" THEN 0 ELSE Origin(a)[i]
    /\ \A k : IsLastNaming(a, i, k) =>
          node.owner = a[k].owner /\ (node.kind # "symlink" => node.mode = a[k].mode)

\* The tree is what the archive says.
Match(t, a) ==
    LET n == Len(a) + 1 IN
    /\ Named(a) /\ Sourced(a)
    /\ DOMAIN t = Present(a, n)
    /\ \A i \in Standing(a, n) : Shown(t, a, i)
    /\ \A p \in DOMAIN t : Claims(a, p, n) = {} => t[p] = Directory

\* What is present.
LEMMA PresentMeans ==
    ASSUME NEW a \in Seq(Entries), Named(a), NEW n \in 1 .. Len(a) + 1, NEW p
    PROVE  p \in Present(a, n) <=>
               \/ p = Root
               \/ p \in Seq(STRING) /\ \E i \in Standing(a, n) : IsPrefix(p, Name(a, i))
<1>1. Len(a) \in Nat /\ DOMAIN a = 1 .. Len(a) /\ n \in Nat
  BY LenProperties
<1>2. \A i \in Standing(a, n) : i \in DOMAIN a
  BY <1>1 DEF Standing
<1>3. \A i \in Standing(a, n) : Name(a, i) \in Seq(STRING)
  BY <1>2 DEF Named, Plain
<1>4. \A i \in Standing(a, n) :
          p \in Prefixes(Name(a, i)) <=> p \in Seq(STRING) /\ IsPrefix(p, Name(a, i))
  BY <1>3, PrefixesMeans
<1> QED
  BY <1>4 DEF Present

\* An entry that is no hard link is its own origin.
LEMMA OriginOfOthers ==
    ASSUME NEW a \in Seq(Entries), NEW i \in DOMAIN a, a[i].type # "link"
    PROVE  Origin(a)[i] = i
  BY OriginMeans

\* The archive says of a place what is there.
LEMMA KindsMatch ==
    ASSUME NEW t, NEW a \in Seq(Entries), Match(t, a), NEW n, n = Len(a) + 1,
           IsTree(t, Len(a)), NEW p
    PROVE  /\ KindAt(a, p, n) = Kind(t, p)
           /\ Kind(t, p) \in {"file", "symlink"} => Claims(a, p, n) # {}
           /\ Claims(a, p, n) # {} =>
                 LET i == Claimant(a, p, n) IN
                 /\ i \in 1 .. Len(a) /\ i \in Standing(a, n) /\ Name(a, i) = p
                 /\ p \in DOMAIN t /\ Shown(t, a, i)
<1>1. Len(a) \in Nat /\ n \in Nat /\ n \in 1 .. Len(a) + 1 /\ n - 1 = Len(a)
      /\ DOMAIN a = 1 .. Len(a)
  BY LenProperties
<1>2. /\ Named(a)
      /\ DOMAIN t = Present(a, n)
      /\ \A i \in Standing(a, n) : Shown(t, a, i)
      /\ \A q \in DOMAIN t : Claims(a, q, n) = {} => t[q] = Directory
  BY DEF Match
<1> DEFINE i == Claimant(a, p, n)
<1>3. CASE Claims(a, p, n) # {}
  <2>1. i \in Standing(a, n) /\ i \in 1 .. Len(a) /\ i \in Claims(a, p, n)
    BY <1>1, <1>3, ClaimantComesBefore
  <2>2. Name(a, i) = p
    BY <2>1 DEF Claims
  <2>3. p \in Seq(STRING) /\ IsPrefix(p, Name(a, i))
    BY <1>1, <1>2, <2>1, <2>2, PrefixReflexive DEF Named, Plain
  <2>4. p \in DOMAIN t
    BY <1>1, <1>2, <2>1, <2>3, PresentMeans
  <2>5. Shown(t, a, i)
    BY <1>2, <2>1
  <2>6. t[p].kind = a[Origin(a)[i]].type
    BY <2>2, <2>5 DEF Shown
  <2>7. KindAt(a, p, n) = Kind(t, p)
    BY <1>3, <2>4, <2>6 DEF KindAt, Kind
  <2> QED
    BY <1>3, <2>1, <2>2, <2>4, <2>5, <2>7
<1>4. CASE Claims(a, p, n) = {}
  <2>1. p \in DOMAIN t => t[p].kind = "dir"
    BY <1>2, <1>4 DEF Directory, Node
  <2> QED
    BY <1>2, <1>4, <2>1 DEF KindAt, Kind
<1> QED
  BY <1>3, <1>4

\* A symbolic link is there because an entry has made it.
LEMMA LinksAreMade ==
    ASSUME NEW t, NEW a \in Seq(Entries), Match(t, a), IsTree(t, Len(a)),
           NEW p, Kind(t, p) = "symlink"
    PROVE  \E i \in 1 .. Len(a) : a[i].type = "symlink" /\ Name(a, i) = p
<1> DEFINE n == Len(a) + 1
           i == Claimant(a, p, n)
<1>1. Claims(a, p, n) # {}
  BY KindsMatch
<1>2. i \in 1 .. Len(a) /\ Name(a, i) = p /\ p \in DOMAIN t /\ Shown(t, a, i)
  BY <1>1, KindsMatch
<1> HIDE DEF i
<1>3. a[Origin(a)[i]].type = "symlink"
  BY <1>2 DEF Shown, Kind
<1>4. i \in DOMAIN a
  BY <1>2, LenProperties
<1>5. a[i].type # "link"
  BY <1>3, <1>4 DEF Match, Sourced
<1>6. a[i].type = "symlink"
  BY <1>3, <1>4, <1>5, OriginOfOthers
<1> QED
  BY <1>2, <1>6

\* Where nothing is made of a symbolic link, none is in the way.
LEMMA NoneInTheWay ==
    ASSUME NEW t, NEW a \in Seq(Entries), Match(t, a), IsTree(t, Len(a)),
           NEW e \in Entries, NEW b, OneMore(a, e, b), PlainBefore(b, Len(a) + 2),
           Plain(CleanArchivePath(e.name))
    PROVE  LeadsThroughNoLink(t, e)
<1> DEFINE n == Len(a) + 1
           name == CleanArchivePath(e.name)
           target == CleanArchivePath(e.target)
<1>1. Len(a) \in Nat /\ n \in 1 .. (Len(a) + 2) - 1 /\ n - 1 = Len(a)
  BY OneMoreEntry
<1>2. b[n] = e /\ Name(b, n) = name /\ Target(b, n) = target
  BY OneMoreEntry
<1>3. \A i \in 1 .. Len(a) : b[i] = a[i] /\ Name(b, i) = Name(a, i)
  BY OneMoreEntry
<1>4. ASSUME NEW q, Kind(t, q) = "symlink"
      PROVE  /\ ~IsStrictPrefix(q, name)
             /\ e.type = "dir" => name # q
             /\ e.type = "link" => ~IsPrefix(q, target)
  <2>1. PICK i \in 1 .. Len(a) : a[i].type = "symlink" /\ Name(a, i) = q
    BY <1>4, LinksAreMade
  <2>2. b[i].type = "symlink" /\ Name(b, i) = q /\ i \in 1 .. n - 1
    BY <1>1, <1>3, <2>1
  <2> HIDE DEF n, name, target
  <2> QED
    BY <1>1, <1>2, <2>2 DEF PlainBefore
<1>5. ASSUME name # Root
      PROVE  NoLink(t, Front(name))
  <2>1. \A q \in Seq(STRING) : IsPrefix(q, Front(name)) => IsStrictPrefix(q, name)
    BY <1>5, PrefixesOfFront DEF Plain, Root
  <2> QED
    BY <1>4, <2>1 DEF NoLink
<1>6. e.type = "link" => NoLink(t, target)
  BY <1>4 DEF NoLink
<1> QED
  BY <1>4, <1>5, <1>6 DEF LeadsThroughNoLink

\* An entry cannot be applied to the tree if it cannot be applied after the others.
LEMMA BlockedIsUnacceptable ==
    ASSUME NEW t, NEW a \in Seq(Entries), Match(t, a), IsTree(t, Len(a)),
           NEW e \in Entries, NEW b, OneMore(a, e, b)
    PROVE  Blocked(t, e) <=> Unacceptable(b, Len(a) + 1)
<1> DEFINE n == Len(a) + 1
<1>1. n \in 1 .. Len(a) + 1 /\ Len(a) \in Nat
  BY OneMoreEntry
<1>2. /\ b[n] = e /\ Name(b, n) = CleanArchivePath(e.name)
      /\ Target(b, n) = CleanArchivePath(e.target)
  BY OneMoreEntry
<1>3. \A p : KindAt(b, p, n) = Kind(t, p)
  BY <1>1, KindsKept, KindsMatch
<1> HIDE DEF n
<1>4. Blocked(t, e) <=> Unacceptable(b, n)
  BY <1>2, <1>3 DEF Blocked, Unacceptable
<1> QED
  BY <1>4 DEF n

\* What is in the tree that an entry makes.
LEMMA MadeMeans ==
    ASSUME NEW t, NEW e \in Entries, NEW n,
           NEW name, name = CleanArchivePath(e.name), Plain(name),
           e.type # "dir" => name # Root
    PROVE  LET made == MadeOf(t, e, n) IN
           /\ \A q : q \in DOMAIN made <=>
                         /\ q \in DOMAIN t \/ (q \in Seq(STRING) /\ IsPrefix(q, name))
                         /\ ~(e.type # "dir" /\ IsStrictPrefix(name, q))
           /\ \A q \in DOMAIN made : q # name \/ e.type = "dir" =>
                  made[q] = IF q \in DOMAIN t THEN t[q] ELSE Directory
           /\ e.type = "file" => made[name] = File(n)
           /\ e.type = "symlink" => made[name] = Symlink(n, e.target)
           /\ e.type \in {"link", "other"} => made[name] = t[CleanArchivePath(e.target)]
<1> DEFINE made == MadeOf(t, e, n)
           f == Front(name)
           m == Grow(t, f)
           node == IF e.type = "file" THEN File(n)
                   ELSE IF e.type = "symlink" THEN Symlink(n, e.target)
                   ELSE t[CleanArchivePath(e.target)]
<1>1. /\ name \in Seq(STRING)
      /\ \A q : q \in Prefixes(name) <=> q \in Seq(STRING) /\ IsPrefix(q, name)
  BY PrefixesMeans DEF Plain
<1>2. CASE e.type = "dir"
  <2>1. made = Grow(t, name)
    BY <1>2 DEF MadeOf
  <2> HIDE DEF made
  <2>2. /\ \A q : q \in DOMAIN made <=>
                      q \in DOMAIN t \/ (q \in Seq(STRING) /\ IsPrefix(q, name))
        /\ \A q \in DOMAIN made : made[q] = IF q \in DOMAIN t THEN t[q] ELSE Directory
    BY <1>1, <2>1 DEF Grow
  <2> QED
    BY <1>2, <2>2 DEF made
<1>3. CASE e.type # "dir"
  <2>1. f \in Seq(STRING) /\ name # << >>
    BY <1>1, <1>3, FrontOfName DEF Root
  <2>2. \A q : q \in Prefixes(f) <=> q \in Seq(STRING) /\ IsStrictPrefix(q, name)
    BY <1>1, <2>1, PrefixesMeans, PrefixesOfFront
  <2>3. made = Replaced(t, name, node)
    BY <1>3 DEF MadeOf
  <2> HIDE DEF made, node, f
  <2>4. /\ \A q : q \in DOMAIN made <=>
               \/ q = name
               \/ (q \in DOMAIN t \/ q \in Prefixes(f)) /\ ~IsPrefix(name, q)
        /\ made[name] = node
        /\ \A q \in DOMAIN made : q # name =>
               made[q] = IF q \in DOMAIN t THEN t[q] ELSE Directory
    BY <2>3 DEF Replaced, Put, Grow, f
  <2>5. IsPrefix(name, name)
    BY <1>1, PrefixReflexive
  <2>6. \A q : q \in DOMAIN made <=>
                   /\ q \in DOMAIN t \/ (q \in Seq(STRING) /\ IsPrefix(q, name))
                   /\ ~IsStrictPrefix(name, q)
    BY <1>1, <2>2, <2>4, <2>5 DEF IsStrictPrefix
  <2> QED
    BY <1>3, <2>4, <2>6 DEF made, node
<1> QED
  BY <1>2, <1>3

\* The place of everything that stands is in the tree that an entry makes, and nothing more.
LEMMA MadeIsPresent ==
    ASSUME NEW t, NEW a \in Seq(Entries), Match(t, a), Named(a),
           NEW e \in Entries, NEW b, OneMore(a, e, b), Named(b)
    PROVE  DOMAIN MadeOf(t, e, Len(a) + 1) = Present(b, Len(a) + 2)
<1> DEFINE n == Len(a) + 1
           name == CleanArchivePath(e.name)
           made == MadeOf(t, e, n)
<1>1. /\ b \in Seq(Entries) /\ Len(b) = n /\ n \in DOMAIN b /\ Len(a) \in Nat
      /\ n \in 1 .. Len(a) + 1 /\ n + 1 \in 1 .. Len(b) + 1 /\ n + 1 = Len(a) + 2
      /\ DOMAIN a = 1 .. Len(a) /\ n - 1 = Len(a)
  BY OneMoreEntry
<1>2. b[n] = e /\ Name(b, n) = name /\ \A i \in 1 .. Len(a) : Name(b, i) = Name(a, i)
  BY OneMoreEntry
<1>3. Plain(name) /\ (e.type # "dir" => name # Root) /\ name \in Seq(STRING)
  BY <1>1, <1>2 DEF Named, Plain, Replaces
<1> HIDE DEF n, name
<1>4. \A q : q \in DOMAIN made <=>
                 /\ q \in DOMAIN t \/ (q \in Seq(STRING) /\ IsPrefix(q, name))
                 /\ ~(e.type # "dir" /\ IsStrictPrefix(name, q))
  BY <1>3, MadeMeans DEF name
<1>5. DOMAIN t = Present(a, n)
  BY DEF Match, n
<1>6. \A q : q \in DOMAIN t <=>
          q = Root \/ (q \in Seq(STRING) /\ \E i \in Standing(a, n) : IsPrefix(q, Name(a, i)))
  BY <1>1, <1>5, PresentMeans
<1>7. \A q : q \in Present(b, n + 1) <=>
          \/ q = Root
          \/ q \in Seq(STRING) /\ \E i \in Standing(b, n + 1) : IsPrefix(q, Name(b, i))
  BY <1>1, PresentMeans
<1>8. \A i : i \in Standing(b, n + 1) <=>
               \/ i = n
               \/ /\ i \in Standing(a, n) /\ Name(a, i) # name
                  /\ ~(e.type # "dir" /\ IsStrictPrefix(name, Name(a, i)))
  BY StandingOfNext DEF n, name
<1>9. \A i \in Standing(a, n) : Name(a, i) \in Seq(STRING) /\ Name(b, i) = Name(a, i)
  <2>1. \A i \in Standing(a, n) : i \in 1 .. Len(a)
    BY <1>1 DEF Standing
  <2> QED
    BY <1>1, <1>2, <2>1 DEF Named, Plain
<1>10. Root \in Seq(STRING)
  BY <1>3, PrefixReflexive
<1> HIDE DEF made
<1>11. ASSUME NEW q, q \in DOMAIN made
       PROVE  q \in Present(b, n + 1)
  <2>1. CASE q \in Seq(STRING) /\ IsPrefix(q, name)
    BY <1>2, <1>7, <1>8, <2>1
  <2>2. CASE q = Root
    BY <1>7, <2>2
  <2>3. CASE q \in Seq(STRING) /\ (\E i \in Standing(a, n) : IsPrefix(q, Name(a, i)))
                /\ ~IsPrefix(q, name)
    <3>1. PICK i \in Standing(a, n) : IsPrefix(q, Name(a, i))
      BY <2>3
    <3>2. Name(a, i) # name
      BY <2>3, <3>1
    <3>3. ~(e.type # "dir" /\ IsStrictPrefix(name, Name(a, i)))
      <4>1. ASSUME e.type # "dir", IsStrictPrefix(name, Name(a, i))
            PROVE  FALSE
        <5>1. IsPrefix(q, name) \/ IsPrefix(name, q)
          BY <1>3, <1>9, <2>3, <3>1, <4>1, PrefixesCompare DEF IsStrictPrefix
        <5>2. q # name
          BY <1>3, <2>3, PrefixReflexive
        <5> QED
          BY <1>4, <1>11, <2>3, <4>1, <5>1, <5>2 DEF IsStrictPrefix
      <4> QED
        BY <4>1
    <3> QED
      BY <1>7, <1>8, <1>9, <2>3, <3>1, <3>2, <3>3
  <2> QED
    BY <1>4, <1>6, <1>11, <2>1, <2>2, <2>3
<1>12. ASSUME NEW q, q \in Present(b, n + 1)
       PROVE  q \in DOMAIN made
  <2>1. CASE q \in Seq(STRING) /\ IsPrefix(q, name)
    <3>1. ~IsStrictPrefix(name, q)
      BY <1>3, <2>1, PrefixAntisymmetric DEF IsStrictPrefix
    <3> QED
      BY <1>4, <2>1, <3>1
  <2>2. CASE q = Root
    BY <1>3, <1>10, <2>1, <2>2, PrefixReflexive
  <2>3. CASE q \in Seq(STRING) /\ ~IsPrefix(q, name)
                /\ \E i \in Standing(b, n + 1) : IsPrefix(q, Name(b, i))
    <3>1. PICK i \in Standing(b, n + 1) : IsPrefix(q, Name(b, i))
      BY <2>3
    <3>2. /\ i \in Standing(a, n) /\ Name(a, i) # name
          /\ ~(e.type # "dir" /\ IsStrictPrefix(name, Name(a, i)))
          /\ Name(b, i) = Name(a, i) /\ Name(a, i) \in Seq(STRING)
      BY <1>2, <1>8, <1>9, <2>3, <3>1
    <3>3. q \in DOMAIN t
      BY <1>6, <2>3, <3>1, <3>2
    <3>4. ~(e.type # "dir" /\ IsStrictPrefix(name, q))
      <4>1. IsPrefix(name, q) => IsPrefix(name, Name(a, i))
        BY <1>3, <2>3, <3>1, <3>2, PrefixTransitive
      <4> QED
        BY <3>2, <4>1 DEF IsStrictPrefix
    <3> QED
      BY <1>4, <3>3, <3>4
  <2> QED
    BY <1>7, <1>12, <2>1, <2>2, <2>3
<1>13. DOMAIN made = Present(b, n + 1)
  BY <1>11, <1>12
<1> QED
  BY <1>1, <1>13 DEF made, n

-----------------------------------------------------------------------------
(* One more entry.                                                         *)

\* An entry that can be applied comes to a tree that is what the archive says.
Applicable(t, a, e, b) ==
    /\ a \in Seq(Entries) /\ e \in Entries /\ OneMore(a, e, b)
    /\ Match(t, a) /\ IsTree(t, Len(a))
    /\ LeadsThroughNoLink(t, e) /\ ~Blocked(t, e)

\* Its name and type.
LEMMA ApplicableName ==
    ASSUME NEW t, NEW a, NEW e, NEW b, Applicable(t, a, e, b)
    PROVE  LET name == CleanArchivePath(e.name) IN
           /\ Plain(name) /\ (e.type # "dir" => name # Root)
           /\ e.type \in {"dir", "file", "symlink", "link"}
<1>1. /\ e.name \in Seq(STRING) /\ e.type \in EntryTypes
      /\ ~Blocked(t, e)
  BY EntryFields DEF Applicable
<1>2. CleanArchivePath(e.name) # Nowhere
  BY <1>1 DEF Blocked
<1> QED
  BY <1>1, <1>2, CleanArchivePathIsPlain DEF Blocked, EntryTypes

\* What is known of the entries, the new one included.
LEMMA ApplicableEntries ==
    ASSUME NEW t, NEW a, NEW e, NEW b, Applicable(t, a, e, b)
    PROVE  LET n == Len(a) + 1
               name == CleanArchivePath(e.name) IN
           /\ b \in Seq(Entries) /\ Len(a) \in Nat /\ n \in Nat /\ n - 1 = Len(a)
           /\ Len(b) = n /\ DOMAIN a = 1 .. Len(a) /\ DOMAIN b = 1 .. n
           /\ b[n] = e /\ Name(b, n) = name
           /\ \A i \in 1 .. Len(a) : /\ b[i] = a[i] /\ Name(b, i) = Name(a, i)
                                     /\ Origin(b)[i] = Origin(a)[i] /\ Origin(a)[i] \in 1 .. i
           /\ Named(b)
<1> DEFINE n == Len(a) + 1
           name == CleanArchivePath(e.name)
<1>1. a \in Seq(Entries) /\ e \in Entries /\ OneMore(a, e, b)
  BY DEF Applicable
<1>2. /\ b \in Seq(Entries) /\ Len(a) \in Nat /\ n \in Nat /\ n - 1 = Len(a)
      /\ Len(b) = n /\ DOMAIN a = 1 .. Len(a) /\ DOMAIN b = 1 .. n
      /\ b[n] = e /\ Name(b, n) = name
      /\ \A i \in 1 .. Len(a) : b[i] = a[i] /\ Name(b, i) = Name(a, i)
  BY <1>1, OneMoreEntry
<1>3. \A i \in 1 .. Len(a) : Origin(b)[i] = Origin(a)[i] /\ Origin(a)[i] \in 1 .. i
  BY <1>1, <1>2, OriginsKept, OriginComesBefore
<1>4. Named(b)
  <2>1. Named(a)
    BY DEF Applicable, Match
  <2> SUFFICES ASSUME NEW i \in 1 .. n
               PROVE  /\ Plain(Name(b, i))
                      /\ b[i].type # "dir" => Name(b, i) # Root
                      /\ b[i].type \in {"dir", "file", "symlink", "link"}
    BY <1>2 DEF Named, Replaces
  <2>2. CASE i = n
    <3> HIDE DEF n
    <3> QED
      BY <1>2, <2>2, ApplicableName
  <2>3. CASE i # n
    <3>1. i \in 1 .. Len(a)
      BY <1>2, <2>3
    <3> QED
      BY <1>2, <2>1, <3>1 DEF Named, Replaces
  <2> QED
    BY <2>2, <2>3
<1> QED
  BY <1>2, <1>3, <1>4

\* A hard link is made to a file that an entry has made, which is where it comes from; whatever
\* else is made comes from its own entry.
LEMMA ApplicableOrigin ==
    ASSUME NEW t, NEW a, NEW e, NEW b, Applicable(t, a, e, b)
    PROVE  LET n == Len(a) + 1
               o == Origin(b)[n]
               target == CleanArchivePath(e.target) IN
           /\ e.type # "link" => o = n
           /\ e.type = "link" =>
                 /\ o \in 1 .. Len(a) /\ a[o].type = "file"
                 /\ t[target].kind = "file" /\ t[target].ino = o
<1> DEFINE n == Len(a) + 1
           o == Origin(b)[n]
           target == CleanArchivePath(e.target)
           c == Claimant(a, target, n)
<1>1. /\ a \in Seq(Entries) /\ e \in Entries /\ OneMore(a, e, b)
      /\ Match(t, a) /\ IsTree(t, Len(a)) /\ ~Blocked(t, e)
  BY DEF Applicable
<1>2. o = IF e.type = "link" /\ Claims(a, target, n) # {} THEN Origin(a)[c] ELSE n
  BY <1>1, OriginOfNext
<1>3. ASSUME e.type = "link"
      PROVE  /\ o \in 1 .. Len(a) /\ a[o].type = "file"
             /\ t[target].kind = "file" /\ t[target].ino = o
  <2>1. Kind(t, target) = "file"
    BY <1>1, <1>3 DEF Blocked
  <2>2. Claims(a, target, n) # {}
    BY <1>1, <2>1, KindsMatch
  <2>3. c \in 1 .. Len(a) /\ Name(a, c) = target /\ target \in DOMAIN t /\ Shown(t, a, c)
    <3>1. \A p : Claims(a, p, n) # {} =>
              /\ Claimant(a, p, n) \in 1 .. Len(a) /\ Name(a, Claimant(a, p, n)) = p
              /\ p \in DOMAIN t /\ Shown(t, a, Claimant(a, p, n))
      BY <1>1, KindsMatch
    <3> QED
      BY <2>2, <3>1, Zenon
  <2>4. o = Origin(a)[c]
    BY <1>2, <1>3, <2>2
  <2>5. Len(a) \in Nat /\ DOMAIN a = 1 .. Len(a)
    BY ApplicableEntries
  <2>6. Origin(a)[c] \in 1 .. c
    BY <1>1, <2>3, <2>5, OriginComesBefore
  <2> HIDE DEF o, c
  <2>7. o \in 1 .. Len(a)
    BY <2>3, <2>4, <2>5, <2>6
  <2>8. t[target].kind = "file"
    BY <2>1, <2>3 DEF Kind
  <2>9. t[target].kind = a[o].type /\ t[target].ino = o
    BY <2>3, <2>4, <2>8 DEF Shown
  <2> QED
    BY <2>7, <2>8, <2>9
<1> QED
  BY <1>2, <1>3

\* The new entry is the last that names its file, and no other file.
LEMMA LastNamingOfNext ==
    ASSUME NEW t, NEW a, NEW e, NEW b, Applicable(t, a, e, b),
           NEW i \in 1 .. Len(a) + 1, NEW k
    PROVE  LET n == Len(a) + 1 IN
           IsLastNaming(b, i, k) <=>
               IF Origin(b)[i] = Origin(b)[n] THEN k = n
               ELSE i \in 1 .. Len(a) /\ IsLastNaming(a, i, k)
<1> DEFINE n == Len(a) + 1
           o == Origin(b)[n]
<1>1. /\ Len(a) \in Nat /\ n \in Nat /\ n - 1 = Len(a)
      /\ Len(b) = n /\ DOMAIN a = 1 .. Len(a) /\ DOMAIN b = 1 .. n
      /\ \A j \in 1 .. Len(a) : Origin(b)[j] = Origin(a)[j]
  BY ApplicableEntries
<1>2. i \in 1 .. n
  OBVIOUS
<1>3. IsLastNaming(b, i, k) <=>
          /\ k \in 1 .. n /\ Origin(b)[k] = Origin(b)[i]
          /\ \A l \in k + 1 .. n : Origin(b)[l] # Origin(b)[i]
  BY <1>1 DEF IsLastNaming
<1>4. IsLastNaming(a, i, k) <=>
          /\ k \in 1 .. Len(a) /\ Origin(a)[k] = Origin(a)[i]
          /\ \A l \in k + 1 .. Len(a) : Origin(a)[l] # Origin(a)[i]
  BY <1>1 DEF IsLastNaming
<1> HIDE DEF n
<1>5. CASE Origin(b)[i] = o
  <2>1. ASSUME k = n
        PROVE  IsLastNaming(b, i, k)
    <3>1. k + 1 .. n = {} /\ k \in 1 .. n
      BY <1>1, <2>1 DEF n
    <3> QED
      BY <1>3, <1>5, <2>1, <3>1
  <2>2. ASSUME IsLastNaming(b, i, k), k # n
        PROVE  FALSE
    <3>1. n \in k + 1 .. n
      BY <1>1, <1>3, <2>2
    <3> QED
      BY <1>3, <1>5, <2>2, <3>1
  <2> QED
    BY <1>5, <2>1, <2>2 DEF n
<1>6. CASE Origin(b)[i] # o
  <2>1. i \in 1 .. Len(a)
    BY <1>1, <1>2, <1>6
  <2>2. ASSUME IsLastNaming(b, i, k)
        PROVE  IsLastNaming(a, i, k)
    <3>1. k \in 1 .. Len(a)
      BY <1>1, <1>3, <1>6, <2>2
    <3>2. \A l \in k + 1 .. Len(a) : l \in k + 1 .. n /\ l \in 1 .. Len(a)
      BY <1>1, <3>1
    <3> QED
      BY <1>1, <1>3, <1>4, <2>1, <2>2, <3>1, <3>2
  <2>3. ASSUME IsLastNaming(a, i, k)
        PROVE  IsLastNaming(b, i, k)
    <3>1. k \in 1 .. Len(a) /\ k \in 1 .. n
      BY <1>1, <1>4, <2>3
    <3>2. \A l \in k + 1 .. n : l = n \/ (l \in k + 1 .. Len(a) /\ l \in 1 .. Len(a))
      BY <1>1, <3>1
    <3>3. \A l \in k + 1 .. n : Origin(b)[l] # Origin(b)[i]
      BY <1>1, <1>4, <1>6, <2>1, <2>3, <3>2
    <3> QED
      BY <1>1, <1>3, <1>4, <2>1, <2>3, <3>1, <3>3
  <2> QED
    BY <1>6, <2>1, <2>2, <2>3 DEF n
<1> QED
  BY <1>5, <1>6 DEF n

\* Hard links are made to files after it as well.
LEMMA ApplicableSourced ==
    ASSUME NEW t, NEW a, NEW e, NEW b, Applicable(t, a, e, b)
    PROVE  Sourced(b)
<1> DEFINE n == Len(a) + 1
<1>1. /\ Len(a) \in Nat /\ n \in Nat /\ DOMAIN a = 1 .. Len(a) /\ DOMAIN b = 1 .. n
      /\ b[n] = e
      /\ \A i \in 1 .. Len(a) : /\ b[i] = a[i]
                                /\ Origin(b)[i] = Origin(a)[i] /\ Origin(a)[i] \in 1 .. i
  BY ApplicableEntries
<1>2. Sourced(a)
  BY DEF Applicable, Match
<1>3. /\ e.type = "link" => Origin(b)[n] \in 1 .. Len(a) /\ a[Origin(b)[n]].type = "file"
  BY ApplicableOrigin
<1>4. ASSUME NEW i \in 1 .. n
      PROVE  /\ b[i].type = "link" => b[Origin(b)[i]].type = "file"
             /\ \E k : IsLastNaming(b, i, k)
  <2>1. \A k : IsLastNaming(b, i, k) <=>
                   IF Origin(b)[i] = Origin(b)[n] THEN k = n
                   ELSE i \in 1 .. Len(a) /\ IsLastNaming(a, i, k)
    BY LastNamingOfNext
  <2> HIDE DEF n
  <2>2. CASE i = n
    <3>1. b[i].type = "link" => b[Origin(b)[i]].type = "file"
      BY <1>1, <1>3, <2>2
    <3>2. IsLastNaming(b, i, n)
      BY <2>1, <2>2
    <3> QED
      BY <3>1, <3>2
  <2>3. CASE i # n
    <3>1. i \in 1 .. Len(a)
      BY <1>1, <2>3 DEF n
    <3>2. Origin(b)[i] = Origin(a)[i] /\ Origin(a)[i] \in 1 .. Len(a) /\ b[i] = a[i]
      BY <1>1, <3>1
    <3>3. b[Origin(b)[i]] = a[Origin(a)[i]]
      BY <1>1, <3>2
    <3>4. PICK k : IsLastNaming(a, i, k)
      BY <1>1, <1>2, <3>1 DEF Sourced
    <3>5. a[i].type = "link" => a[Origin(a)[i]].type = "file"
      BY <1>1, <1>2, <3>1 DEF Sourced
    <3>6. IsLastNaming(b, i, n) \/ IsLastNaming(b, i, k)
      BY <2>1, <3>1, <3>4
    <3> QED
      BY <3>2, <3>3, <3>5, <3>6
  <2> QED
    BY <2>2, <2>3
<1> QED
  BY <1>1, <1>4 DEF Sourced

\* What an entry claims is there as the entry says.
LEMMA ClaimedIsShown ==
    ASSUME NEW t, NEW a \in Seq(Entries), Match(t, a), IsTree(t, Len(a)),
           NEW p, Claims(a, p, Len(a) + 1) # {}
    PROVE  \E c : Name(a, c) = p /\ Shown(t, a, c)
<1> DEFINE n == Len(a) + 1
<1>1. \A q : Claims(a, q, n) # {} =>
          /\ Claimant(a, q, n) \in 1 .. Len(a) /\ Name(a, Claimant(a, q, n)) = q
          /\ q \in DOMAIN t /\ Shown(t, a, Claimant(a, q, n))
  BY KindsMatch
<1> QED
  BY <1>1, Zenon

\* The tree made, before owner and mode are set, has at the place of each entry what the
\* entry it comes from is; what was there before is as it was.
LEMMA MadeOfNext ==
    ASSUME NEW t, NEW a, NEW e, NEW b, Applicable(t, a, e, b),
           NEW n, n = Len(a) + 1, NEW i \in Standing(b, n + 1)
    PROVE  LET made == MadeOf(t, e, n)
               q == Name(b, i)
               o == Origin(b)[i] IN
           /\ i \in 1 .. n
           /\ q \in DOMAIN made
           /\ made[q].kind = b[o].type
           /\ made[q].ino = IF made[q].kind = "dir" THEN 0 ELSE o
           /\ i # n => /\ i \in 1 .. Len(a) /\ i \in Standing(a, n)
                       /\ q = Name(a, i) /\ q # CleanArchivePath(e.name)
                       /\ q \in DOMAIN t /\ made[q] = t[q]
<1> DEFINE made == MadeOf(t, e, n)
           name == CleanArchivePath(e.name)
           target == CleanArchivePath(e.target)
           q == Name(b, i)
           o == Origin(b)[i]
<1>1. /\ a \in Seq(Entries) /\ e \in Entries /\ OneMore(a, e, b)
      /\ Match(t, a) /\ IsTree(t, Len(a)) /\ ~Blocked(t, e) /\ LeadsThroughNoLink(t, e)
  BY DEF Applicable
<1>2. /\ Len(a) \in Nat /\ n \in Nat /\ n - 1 = Len(a) /\ (n + 1) - 1 = n
      /\ b[n] = e /\ Name(b, n) = name
      /\ DOMAIN a = 1 .. Len(a)
      /\ \A j \in 1 .. Len(a) : /\ b[j] = a[j] /\ Name(b, j) = Name(a, j)
                                /\ Origin(b)[j] = Origin(a)[j] /\ Origin(a)[j] \in 1 .. j
  BY ApplicableEntries
<1>3. /\ Plain(name) /\ (e.type # "dir" => name # Root)
      /\ e.type \in {"dir", "file", "symlink", "link"}
  BY ApplicableName
<1>4. /\ \A p : p \in DOMAIN made <=>
                    /\ p \in DOMAIN t \/ (p \in Seq(STRING) /\ IsPrefix(p, name))
                    /\ ~(e.type # "dir" /\ IsStrictPrefix(name, p))
      /\ \A p \in DOMAIN made : p # name \/ e.type = "dir" =>
             made[p] = IF p \in DOMAIN t THEN t[p] ELSE Directory
      /\ e.type = "file" => made[name] = File(n)
      /\ e.type = "symlink" => made[name] = Symlink(n, e.target)
      /\ e.type = "link" => made[name] = t[target]
  <2>1. /\ \A p : p \in DOMAIN made <=>
                      /\ p \in DOMAIN t \/ (p \in Seq(STRING) /\ IsPrefix(p, name))
                      /\ ~(e.type # "dir" /\ IsStrictPrefix(name, p))
        /\ \A p \in DOMAIN made : p # name \/ e.type = "dir" =>
               made[p] = IF p \in DOMAIN t THEN t[p] ELSE Directory
    BY <1>1, <1>3, MadeMeans
  <2>2. /\ e.type = "file" => made[name] = File(n)
        /\ e.type = "symlink" => made[name] = Symlink(n, e.target)
        /\ e.type = "link" => made[name] = t[target]
    BY ReplacedIsThere DEF MadeOf
  <2> QED
    BY <2>1, <2>2, Zenon
<1>5. name \in Seq(STRING) /\ IsPrefix(name, name)
  BY <1>3, PrefixReflexive DEF Plain
<1>6. i \in 1 .. n
  BY <1>2 DEF Standing
<1>7. /\ e.type # "link" => Origin(b)[n] = n
      /\ e.type = "link" =>
            /\ Origin(b)[n] \in 1 .. Len(a) /\ a[Origin(b)[n]].type = "file"
            /\ t[target].kind = "file" /\ t[target].ino = Origin(b)[n]
  BY ApplicableOrigin
<1>8. CASE i = n
  <2> HIDE DEF made, name, target
  <2>1. q = name /\ o = Origin(b)[n]
    BY <1>2, <1>8
  <2>2. name \in DOMAIN made
    BY <1>4, <1>5 DEF IsStrictPrefix
  <2> SUFFICES /\ made[name].kind = b[o].type
               /\ made[name].ino = IF made[name].kind = "dir" THEN 0 ELSE o
    BY <1>6, <1>8, <2>1, <2>2 DEF made, name
  <2>3. CASE e.type = "dir"
    <3>1. b[o].type = "dir"
      BY <1>2, <1>7, <2>1, <2>3
    <3>2. CASE name \in DOMAIN t
      <4>1. made[name] = t[name]
        BY <1>4, <2>2, <2>3, <3>2
      <4>2. t[name].kind \in {"dir", "file", "symlink"}
        BY <1>1, <3>2 DEF IsTree, Nodes
      <4>3. Kind(t, name) # "file" /\ Kind(t, name) # "symlink"
        BY <1>1, <2>3 DEF Blocked, LeadsThroughNoLink, name
      <4>4. t[name].kind = "dir"
        BY <3>2, <4>2, <4>3 DEF Kind
      <4>5. t[name].ino = 0
        <5>1. CASE Claims(a, name, n) = {}
          <6>1. t[name] = Directory
            BY <1>1, <3>2, <5>1 DEF Match
          <6> QED
            BY <6>1 DEF Directory, Node
        <5>2. CASE Claims(a, name, n) # {}
          <6>1. Claims(a, name, Len(a) + 1) # {}
            BY <5>2
          <6>2. PICK c : Name(a, c) = name /\ Shown(t, a, c)
            BY <1>1, <6>1, ClaimedIsShown
          <6> QED
            BY <4>4, <6>2 DEF Shown
        <5> QED
          BY <5>1, <5>2
      <4> QED
        BY <3>1, <4>1, <4>4, <4>5
    <3>3. CASE name \notin DOMAIN t
      <4>1. made[name] = Directory
        BY <1>4, <2>2, <2>3, <3>3
      <4> QED
        BY <3>1, <4>1 DEF Directory, Node
    <3> QED
      BY <3>2, <3>3
  <2>4. CASE e.type = "file"
    BY <1>2, <1>4, <1>7, <2>1, <2>4 DEF File, Node
  <2>5. CASE e.type = "symlink"
    BY <1>2, <1>4, <1>7, <2>1, <2>5 DEF Symlink, Node
  <2>6. CASE e.type = "link"
    BY <1>2, <1>4, <1>7, <2>1, <2>6
  <2> QED
    BY <1>3, <2>3, <2>4, <2>5, <2>6
<1>9. CASE i # n
  <2>1. /\ i \in Standing(a, n) /\ Name(a, i) # name
        /\ ~(e.type # "dir" /\ IsStrictPrefix(name, Name(a, i)))
    BY <1>1, <1>9, StandingOfNext
  <2>2. i \in 1 .. Len(a) /\ q = Name(a, i)
    BY <1>2, <1>6, <1>9
  <2> HIDE DEF made, name, target
  <2>3. Shown(t, a, i) /\ n \in 1 .. Len(a) + 1 /\ Named(a) /\ DOMAIN t = Present(a, n)
    BY <1>1, <1>2, <2>1 DEF Match
  <2>4. q \in Seq(STRING) /\ IsPrefix(q, Name(a, i))
    BY <1>2, <2>2, <2>3, PrefixReflexive DEF Named, Plain
  <2>5. q \in DOMAIN t
    BY <1>1, <2>1, <2>3, <2>4, PresentMeans
  <2>6. q \in DOMAIN made /\ made[q] = t[q]
    BY <1>4, <2>1, <2>2, <2>5
  <2>7. b[o].type = a[Origin(a)[i]].type /\ o = Origin(a)[i]
    BY <1>2, <2>2
  <2>8. t[q].kind = b[o].type /\ t[q].ino = IF t[q].kind = "dir" THEN 0 ELSE o
    BY <2>2, <2>3, <2>7 DEF Shown
  <2> QED
    BY <1>6, <1>9, <2>1, <2>2, <2>5, <2>6, <2>8 DEF made, name
<1> QED
  BY <1>8, <1>9

\* The places of the file that the new entry names are those of the entries it shares its
\* origin with.
LEMMA SameFileOfNext ==
    ASSUME NEW t, NEW a, NEW e, NEW b, Applicable(t, a, e, b),
           NEW n, n = Len(a) + 1, NEW i \in Standing(b, n + 1)
    PROVE  Name(b, i) \in SameFile(MadeOf(t, e, n), CleanArchivePath(e.name))
               <=> Origin(b)[i] = Origin(b)[n]
<1> DEFINE made == MadeOf(t, e, n)
           name == CleanArchivePath(e.name)
           q == Name(b, i)
<1>1. /\ Len(a) \in Nat /\ n \in Nat /\ n - 1 = Len(a) /\ (n + 1) - 1 = n
      /\ b[n] = e /\ Name(b, n) = name
      /\ \A j \in 1 .. Len(a) : /\ b[j] = a[j]
                                /\ Origin(b)[j] = Origin(a)[j] /\ Origin(a)[j] \in 1 .. j
  BY ApplicableEntries
<1>2. n \in Standing(b, n + 1)
  BY StandingOfNext DEF Applicable
<1>3. /\ i \in 1 .. n /\ q \in DOMAIN made
      /\ made[q].kind = b[Origin(b)[i]].type
      /\ made[q].ino = IF made[q].kind = "dir" THEN 0 ELSE Origin(b)[i]
      /\ i # n => i \in 1 .. Len(a) /\ q # name
  BY MadeOfNext
<1>4. /\ name \in DOMAIN made
      /\ made[name].kind = b[Origin(b)[n]].type
      /\ made[name].ino = IF made[name].kind = "dir" THEN 0 ELSE Origin(b)[n]
  BY <1>1, <1>2, MadeOfNext
<1>5. /\ e.type # "link" => Origin(b)[n] = n
      /\ e.type = "link" => Origin(b)[n] \in 1 .. Len(a) /\ a[Origin(b)[n]].type = "file"
  BY ApplicableOrigin
<1> HIDE DEF made, name
<1>6. q \in SameFile(made, name) <=>
          q = name \/ (made[name].ino # 0 /\ made[q].ino = made[name].ino)
  BY <1>3 DEF SameFile
<1>7. CASE i = n
  BY <1>1, <1>6, <1>7 DEF made, name
<1>8. CASE i # n
  <2>1. i \in 1 .. Len(a) /\ q # name
    BY <1>3, <1>8
  <2>2. Origin(b)[i] \in 1 .. i
    BY <1>1, <2>1
  <2>3. Origin(b)[i] # n /\ Origin(b)[i] # 0
    BY <1>1, <2>1, <2>2
  <2>4. Origin(b)[n] # 0
    BY <1>1, <1>5
  <2>5. CASE made[name].kind = "dir"
    <3>1. e.type # "link"
      <4>1. ASSUME e.type = "link"
            PROVE  FALSE
        <5>1. b[Origin(b)[n]].type = "file"
          BY <1>1, <1>5, <4>1
        <5> QED
          BY <1>4, <2>5, <5>1
      <4> QED
        BY <4>1
    <3>2. Origin(b)[n] # Origin(b)[i]
      BY <1>5, <2>3, <3>1
    <3> QED
      BY <1>4, <1>6, <2>1, <2>5, <3>2 DEF made, name
  <2>6. CASE made[name].kind # "dir"
    <3>1. q \in SameFile(made, name) <=> made[q].ino = Origin(b)[n]
      BY <1>4, <1>6, <2>1, <2>4, <2>6
    <3>2. made[q].kind = "dir" => Origin(b)[i] # Origin(b)[n]
      BY <1>3, <1>4, <2>6
    <3>3. made[q].ino = Origin(b)[n] <=> Origin(b)[i] = Origin(b)[n]
      BY <1>3, <2>4, <3>2
    <3> QED
      BY <3>1, <3>3 DEF made, name
  <2> QED
    BY <2>5, <2>6
<1> QED
  BY <1>7, <1>8

\* With owner and mode set, each entry is shown.
LEMMA NextIsShown ==
    ASSUME NEW t, NEW a, NEW e, NEW b, Applicable(t, a, e, b), NEW result,
           HasMetadata(MadeOf(t, e, Len(a) + 1), CleanArchivePath(e.name), e,
                       e.type = "symlink", result),
           NEW i \in Standing(b, Len(a) + 2)
    PROVE  Shown(result, b, i)
<1> DEFINE n == Len(a) + 1
           made == MadeOf(t, e, n)
           name == CleanArchivePath(e.name)
           q == Name(b, i)
           o == Origin(b)[i]
<1>1. /\ Len(a) \in Nat /\ n \in Nat /\ n + 1 = Len(a) + 2 /\ b[n] = e
      /\ DOMAIN a = 1 .. Len(a)
      /\ \A j \in 1 .. Len(a) : b[j] = a[j] /\ Origin(b)[j] = Origin(a)[j]
  BY ApplicableEntries
<1>2. i \in Standing(b, n + 1)
  BY <1>1
<1>3. HasMetadata(made, name, e, e.type = "symlink", result)
  OBVIOUS
<1>4. /\ i \in 1 .. n /\ q \in DOMAIN made
      /\ made[q].kind = b[o].type
      /\ made[q].ino = IF made[q].kind = "dir" THEN 0 ELSE o
      /\ i # n => /\ i \in 1 .. Len(a) /\ i \in Standing(a, n)
                  /\ q = Name(a, i) /\ q \in DOMAIN t /\ made[q] = t[q]
  BY <1>2, MadeOfNext
<1>5. q \in SameFile(made, name) <=> o = Origin(b)[n]
  BY <1>2, SameFileOfNext
<1>6. \A k : IsLastNaming(b, i, k) <=>
                 IF o = Origin(b)[n] THEN k = n
                 ELSE i \in 1 .. Len(a) /\ IsLastNaming(a, i, k)
  BY <1>4, LastNamingOfNext
<1>7. e.type # "link" => Origin(b)[n] = n
  BY ApplicableOrigin
<1>8. \A j \in Standing(a, n) : Shown(t, a, j)
  BY DEF Applicable, Match
<1> HIDE DEF n, made, name
<1>9. CASE o = Origin(b)[n]
  <2>1. /\ result[q].kind = made[q].kind /\ result[q].ino = made[q].ino
        /\ result[q].owner = e.owner
        /\ e.type # "symlink" => result[q].mode = e.mode
    BY <1>3, <1>5, <1>9 DEF HasMetadata
  <2>2. e.type = "symlink" => made[q].kind = "symlink"
    BY <1>1, <1>4, <1>7, <1>9
  <2>3. \A k : IsLastNaming(b, i, k) => b[k] = e
    BY <1>1, <1>6, <1>9
  <2> QED
    BY <1>4, <2>1, <2>2, <2>3 DEF Shown
<1>10. CASE o # Origin(b)[n]
  <2>1. result[q] = made[q]
    BY <1>3, <1>4, <1>5, <1>10 DEF HasMetadata
  <2>2. i # n
    BY <1>10
  <2>3. Shown(t, a, i) /\ q = Name(a, i) /\ made[q] = t[q]
    BY <1>4, <1>8, <2>2
  <2>4. \A k : IsLastNaming(b, i, k) => IsLastNaming(a, i, k)
    BY <1>6, <1>10
  <2>5. \A k : IsLastNaming(b, i, k) => b[k] = a[k]
    BY <1>1, <2>4 DEF IsLastNaming
  <2>6. \A k : IsLastNaming(b, i, k) =>
                   /\ result[q].owner = b[k].owner
                   /\ result[q].kind # "symlink" => result[q].mode = b[k].mode
    BY <2>1, <2>3, <2>4, <2>5 DEF Shown
  <2> QED
    BY <1>4, <2>1, <2>6 DEF Shown
<1> QED
  BY <1>9, <1>10

\* What no entry names is a directory around something.
LEMMA NextIsAround ==
    ASSUME NEW t, NEW a, NEW e, NEW b, Applicable(t, a, e, b), NEW result,
           HasMetadata(MadeOf(t, e, Len(a) + 1), CleanArchivePath(e.name), e,
                       e.type = "symlink", result),
           NEW p \in DOMAIN result, Claims(b, p, Len(a) + 2) = {}
    PROVE  result[p] = Directory
<1> DEFINE n == Len(a) + 1
           made == MadeOf(t, e, n)
           name == CleanArchivePath(e.name)
<1>1. /\ Len(a) \in Nat /\ n \in Nat /\ n + 1 = Len(a) + 2 /\ n - 1 = Len(a)
      /\ Name(b, n) = name
      /\ \A j \in 1 .. Len(a) : Name(b, j) = Name(a, j)
  BY ApplicableEntries
<1>2. /\ a \in Seq(Entries) /\ e \in Entries /\ OneMore(a, e, b) /\ Match(t, a)
  BY DEF Applicable
<1>3. Plain(name) /\ (e.type # "dir" => name # Root)
  BY ApplicableName
<1>4. \A i : i \in Standing(b, n + 1) <=>
               \/ i = n
               \/ /\ i \in Standing(a, n) /\ Name(a, i) # name
                  /\ ~(e.type # "dir" /\ IsStrictPrefix(name, Name(a, i)))
  BY <1>2, StandingOfNext
<1>5. /\ \A r : r \in DOMAIN made <=>
                    /\ r \in DOMAIN t \/ (r \in Seq(STRING) /\ IsPrefix(r, name))
                    /\ ~(e.type # "dir" /\ IsStrictPrefix(name, r))
      /\ \A r \in DOMAIN made : r # name \/ e.type = "dir" =>
             made[r] = IF r \in DOMAIN t THEN t[r] ELSE Directory
  BY <1>2, <1>3, MadeMeans
<1>6. HasMetadata(made, name, e, e.type = "symlink", result)
  OBVIOUS
<1>7. Claims(b, p, n + 1) = {}
  BY <1>1
<1>8. \A r \in DOMAIN t : Claims(a, r, n) = {} => t[r] = Directory
  BY <1>2 DEF Match
<1> HIDE DEF n, made, name
<1>9. p \in DOMAIN made
  BY <1>6 DEF HasMetadata
<1>10. \A i \in Standing(b, n + 1) : Name(b, i) # p
  BY <1>7 DEF Claims
<1>11. p # name
  BY <1>1, <1>4, <1>10
<1>12. ASSUME p \in DOMAIN t
       PROVE  Claims(a, p, n) = {}
  <2>1. ASSUME NEW i \in Standing(a, n), Name(a, i) = p
        PROVE  FALSE
    <3>1. i \in Standing(b, n + 1)
      BY <1>4, <1>5, <1>9, <1>11, <2>1
    <3>2. i \in 1 .. Len(a)
      BY <1>1 DEF Standing
    <3> QED
      BY <1>1, <1>10, <2>1, <3>1, <3>2
  <2> QED
    BY <2>1 DEF Claims
<1>13. made[p] = Directory
  BY <1>5, <1>8, <1>9, <1>11, <1>12
<1>14. made[p].ino = 0
  BY <1>13 DEF Directory, Node
<1>15. p \notin SameFile(made, name)
  BY <1>11, <1>14 DEF SameFile
<1> QED
  BY <1>6, <1>9, <1>13, <1>15 DEF HasMetadata

\* The tree is what the archive says, after one more entry as well.
LEMMA NextMatches ==
    ASSUME NEW t, NEW a, NEW e, NEW b, Applicable(t, a, e, b), NEW result,
           HasMetadata(MadeOf(t, e, Len(a) + 1), CleanArchivePath(e.name), e,
                       e.type = "symlink", result)
    PROVE  Match(result, b)
<1>1. Len(a) \in Nat /\ Len(b) = Len(a) + 1 /\ Len(b) + 1 = Len(a) + 2 /\ Named(b)
  BY ApplicableEntries
<1>2. Sourced(b)
  BY ApplicableSourced
<1>3. DOMAIN result = Present(b, Len(a) + 2)
  <2>1. DOMAIN result = DOMAIN MadeOf(t, e, Len(a) + 1)
    BY DEF HasMetadata
  <2>2. DOMAIN MadeOf(t, e, Len(a) + 1) = Present(b, Len(a) + 2)
    BY <1>1, MadeIsPresent DEF Applicable, Match
  <2> QED
    BY <2>1, <2>2
<1>4. \A i \in Standing(b, Len(a) + 2) : Shown(result, b, i)
  BY NextIsShown
<1>5. \A p \in DOMAIN result : Claims(b, p, Len(a) + 2) = {} => result[p] = Directory
  BY NextIsAround
<1> QED
  BY <1>1, <1>2, <1>3, <1>4, <1>5 DEF Match

-----------------------------------------------------------------------------
(* Every extraction.                                                       *)

\* One more entry is applied if the archive says that it can be, and the tree is then what the
\* longer archive says.
LEMMA OneMoreIsApplied ==
    ASSUME NEW t, NEW a \in Seq(Entries), Match(t, a), IsTree(t, Len(a)),
           NEW e \in Entries, NEW b, OneMore(a, e, b), PlainBefore(b, Len(a) + 2)
    PROVE  LET result == ExtractEntry(t, e, Len(a) + 1) IN
           IF Unacceptable(b, Len(a) + 1) THEN result = Refused
           ELSE result # Refused /\ Match(result, b)
<1> DEFINE n == Len(a) + 1
           name == CleanArchivePath(e.name)
           result == ExtractEntry(t, e, n)
<1>1. Len(a) \in Nat /\ n \in Nat
  BY OneMoreEntry
<1>2. IsTree(t, n)
  BY <1>1, LaterTree
<1>3. Blocked(t, e) <=> Unacceptable(b, n)
  BY BlockedIsUnacceptable
<1>4. name = Nowhere \/ Plain(name)
  BY EntryFields, CleanArchivePathIsPlain
<1>5. CASE name = Nowhere
  <2>1. Blocked(t, e)
    BY <1>5 DEF Blocked
  <2>2. name # Root
    BY <1>5 DEF Nowhere, Root
  <2>3. result = Refused
    BY <1>5, <2>2 DEF ExtractEntry
  <2> QED
    BY <1>3, <2>1, <2>3
<1>6. CASE Plain(name)
  <2>1. LeadsThroughNoLink(t, e)
    BY <1>6, NoneInTheWay
  <2>2. IF Blocked(t, e) THEN result = Refused
        ELSE /\ result # Refused
             /\ HasMetadata(MadeOf(t, e, n), name, e, e.type = "symlink", result)
    BY <1>1, <1>2, <2>1, ExtractEntryPlain
  <2>3. ASSUME ~Blocked(t, e)
        PROVE  Match(result, b)
    <3>1. Applicable(t, a, e, b)
      BY <2>1, <2>3 DEF Applicable
    <3>2. HasMetadata(MadeOf(t, e, n), name, e, e.type = "symlink", result)
      BY <2>2, <2>3
    <3> HIDE DEF result
    <3> QED
      BY <3>1, <3>2, NextMatches
  <2> QED
    BY <1>3, <2>2, <2>3
<1> QED
  BY <1>4, <1>5, <1>6

\* Nothing is said of nothing.
LEMMA EmptyMatches == Match(EmptyTree, << >>)
<1>1. Len(<< >>) = 0 /\ DOMAIN << >> = {}
  OBVIOUS
<1>2. Standing(<< >>, 1) = {}
  BY DEF Standing
<1>3. Present(<< >>, 1) = {Root}
  BY <1>2 DEF Present
<1>4. DOMAIN EmptyTree = {Root} /\ \A p \in DOMAIN EmptyTree : EmptyTree[p] = Directory
  BY DEF EmptyTree
<1>5. Named(<< >>) /\ Sourced(<< >>)
  BY <1>1 DEF Named, Sourced
<1> QED
  BY <1>1, <1>2, <1>3, <1>4, <1>5 DEF Match

\* The last entry that names a file is what LastNaming takes it for.
LEMMA LastNamingMeans ==
    ASSUME NEW a, Sourced(a), NEW i \in DOMAIN a
    PROVE  IsLastNaming(a, i, LastNaming(a, i))
<1>1. \E k \in DOMAIN a : /\ Origin(a)[k] = Origin(a)[i]
                          /\ \A l \in k + 1 .. Len(a) : Origin(a)[l] # Origin(a)[i]
  BY DEF Sourced, IsLastNaming
<1> QED
  BY <1>1 DEF LastNaming, IsLastNaming

\* Every entry could be applied after those before it.
Acceptable(a) == \A i \in DOMAIN a : ~Unacceptable(a, i)

\* The archive so far leads through no symbolic link.
PlainSoFar == PlainBefore(archive, Len(archive) + 1)

\* The inductive invariant for what becomes of a layer: as long as none has been refused, every
\* entry could be applied and the tree is what they say; the entry that has been refused, if the
\* stream is not to blame, could not; the diff ID is compared with the whole stream.
ExtractionInv ==
    /\ LayerInv
    /\ phase # "refused" => flaw = {}
    /\ phase = "verify" => unread = FALSE
    /\ phase # "refused" /\ PlainSoFar => Match(tree, archive) /\ Acceptable(archive)
    /\ phase = "refused" /\ flaw = {} /\ PlainSoFar =>
          Len(archive) > 0 /\ Unacceptable(archive, Len(archive))

\* It holds in the empty root.
LEMMA ExtractionInitInv ==
    ASSUME LayerInit
    PROVE  ExtractionInv
<1>1. LayerInv
  BY LayerInitInv
<1>2. Match(tree, archive)
  BY EmptyMatches DEF LayerInit
<1>3. Acceptable(archive)
  BY DEF LayerInit, Acceptable
<1> QED
  BY <1>1, <1>2, <1>3 DEF LayerInit, ExtractionInv

\* An archive that leads through no symbolic link did not before its last entry either.
LEMMA PlainBeforeLast ==
    ASSUME NEW a \in Seq(Entries), NEW e \in Entries, NEW b, OneMore(a, e, b),
           PlainBefore(b, Len(a) + 2)
    PROVE  PlainBefore(a, Len(a) + 1)
<1>1. Len(a) \in Nat /\ Len(a) + 1 \in 1 .. Len(a) + 1
  BY OneMoreEntry
<1>2. \A j \in 1 .. (Len(a) + 1) - 1 : j \in 1 .. (Len(a) + 2) - 1
  BY <1>1
<1>3. PlainBefore(b, Len(a) + 1)
  BY <1>2 DEF PlainBefore
<1> QED
  BY <1>1, <1>3, KindsKept

\* An entry keeps it.
LEMMA EntryKeepsExtractionInv ==
    ASSUME ExtractionInv, NEW e \in Entries, NextEntry(e)
    PROVE  ExtractionInv'
<1> DEFINE a == archive
           b == archive'
           n == Len(a) + 1
           result == ExtractEntry(tree, e, n)
<1>1. LayerInv /\ LayerInv'
  BY LayerEntryKeepsInv DEF ExtractionInv
<1>2. a \in Seq(Entries) /\ IsTree(tree, Len(a))
  BY <1>1 DEF LayerInv
<1>3. OneMore(a, e, b)
  BY DEF NextEntry, OneMore
<1>4. /\ phase = "extract" /\ flaw = {} /\ flaw' = {}
      /\ IF result = Refused THEN phase' = "refused" /\ tree' = tree
         ELSE phase' = "extract" /\ tree' = result
  BY DEF NextEntry, ExtractionInv
<1>5. Len(a) \in Nat /\ Len(b) = n /\ Len(b) + 1 = Len(a) + 2 /\ n > 0
  BY <1>2, <1>3, OneMoreEntry
<1> HIDE DEF result
<1>6. ASSUME PlainBefore(b, Len(a) + 2)
      PROVE  IF phase' = "refused" THEN Unacceptable(b, n)
             ELSE Match(tree', b) /\ Acceptable(b)
  <2>1. PlainBefore(a, n)
    BY <1>2, <1>3, <1>6, PlainBeforeLast
  <2>2. Match(tree, a) /\ Acceptable(a)
    BY <1>4, <2>1 DEF ExtractionInv, PlainSoFar
  <2>3. IF Unacceptable(b, n) THEN result = Refused
        ELSE result # Refused /\ Match(result, b)
    BY <1>2, <1>3, <1>6, <2>2, OneMoreIsApplied DEF result
  <2>4. ASSUME ~Unacceptable(b, n), NEW i \in DOMAIN b
        PROVE  ~Unacceptable(b, i)
    <3>1. DOMAIN a = 1 .. Len(a) /\ DOMAIN b = 1 .. Len(a) + 1
      BY <1>2, <1>3, OneMoreEntry
    <3>2. CASE i = n
      BY <2>4, <3>2
    <3>3. CASE i # n
      <4>1. i \in 1 .. Len(a) /\ i <= Len(a) /\ i \in 1 .. Len(a) + 1
        BY <1>5, <3>1, <3>3
      <4>2. Unacceptable(b, i) <=> Unacceptable(a, i)
        BY <1>2, <1>3, <4>1, KindsKept
      <4> QED
        BY <2>2, <3>1, <4>1, <4>2 DEF Acceptable
    <3> QED
      BY <3>2, <3>3
  <2> QED
    BY <1>4, <2>3, <2>4 DEF Acceptable
<1>7. PlainSoFar' <=> PlainBefore(b, Len(a) + 2)
  BY <1>5 DEF PlainSoFar
<1>8. phase' = "refused" \/ phase' = "extract"
  BY <1>4
<1> QED
  BY <1>1, <1>4, <1>5, <1>6, <1>7, <1>8 DEF ExtractionInv

\* Every step keeps it.
LEMMA StepKeepsExtractionInv ==
    ASSUME ExtractionInv, [LayerNext]_layerVars
    PROVE  ExtractionInv'
<1>1. LayerInv'
  BY LayerStepKeepsInv DEF ExtractionInv
<1>2. CASE \E e \in Entries : NextEntry(e)
  BY <1>2, EntryKeepsExtractionInv
<1>3. ASSUME archive' = archive
      PROVE  PlainSoFar' <=> PlainSoFar
  BY <1>3 DEF PlainSoFar
<1>4. CASE OpenLayer
  BY <1>1, <1>3, <1>4 DEF OpenLayer, ExtractionInv
<1>5. CASE EndOfArchive
  BY <1>1, <1>3, <1>5 DEF EndOfArchive, ExtractionInv
<1>6. CASE FinishReading
  BY <1>1, <1>3, <1>6 DEF FinishReading, ExtractionInv
<1>7. CASE StreamFails
  BY <1>1, <1>7 DEF StreamFails, ExtractionInv
<1>8. CASE CompareDiffID
  BY <1>1, <1>3, <1>8 DEF CompareDiffID, ExtractionInv
<1>9. CASE UNCHANGED layerVars
  BY <1>1, <1>3, <1>9 DEF layerVars, ExtractionInv
<1> QED
  BY <1>2, <1>4, <1>5, <1>6, <1>7, <1>8, <1>9 DEF LayerNext

\* As long as no entry has been refused and none leads through a symbolic link, the last entry
\* that names a place decides what is there, and what no entry names is a directory around
\* something (image.go:373-500, 538-566).
THEOREM LastEntriesWin == LayerSpec => []LastEntryWins
<1>1. LayerInit => ExtractionInv
  BY ExtractionInitInv
<1>2. ExtractionInv /\ [LayerNext]_layerVars => ExtractionInv'
  BY StepKeepsExtractionInv
<1>3. ExtractionInv => LastEntryWins
  <2> SUFFICES ASSUME ExtractionInv, phase # "refused", PlainSoFar
               PROVE  LET n == Len(archive) + 1 IN
                      /\ DOMAIN tree = Present(archive, n)
                      /\ \A i \in Standing(archive, n) :
                            LET node == tree[Name(archive, i)]
                                origin == Origin(archive)[i]
                                last == archive[LastNaming(archive, i)] IN
                            /\ node.kind = archive[origin].type
                            /\ node.ino = IF node.kind = "dir" THEN 0 ELSE origin
                            /\ node.owner = last.owner
                            /\ node.kind # "symlink" => node.mode = last.mode
                      /\ \A p \in DOMAIN tree : Claims(archive, p, n) = {} => tree[p] = Directory
    BY DEF LastEntryWins, PlainSoFar
  <2>1. Match(tree, archive)
    BY DEF ExtractionInv
  <2>2. archive \in Seq(Entries) /\ Len(archive) \in Nat /\ DOMAIN archive = 1 .. Len(archive)
    BY LenProperties DEF ExtractionInv, LayerInv
  <2>3. Sourced(archive)
    BY <2>1 DEF Match
  <2>4. \A i \in Standing(archive, Len(archive) + 1) :
            Shown(tree, archive, i) /\ IsLastNaming(archive, i, LastNaming(archive, i))
    <3>1. \A i \in Standing(archive, Len(archive) + 1) : i \in DOMAIN archive
      BY <2>2 DEF Standing
    <3> QED
      BY <2>1, <2>3, <3>1, LastNamingMeans DEF Match
  <2> QED
    BY <2>1, <2>4 DEF Match, Shown
<1> QED
  BY <1>1, <1>2, <1>3, PTL DEF LayerSpec

\* Where no entry leads through a symbolic link, a layer is refused only for its stream or for an
\* entry that cannot be applied after those before it, and unpacked only if every entry can and
\* the whole stream is the one named (image.go:324-371).
THEOREM VerdictsAreExact == LayerSpec => []VerdictIsExact
<1>1. LayerInit => ExtractionInv
  BY ExtractionInitInv
<1>2. ExtractionInv /\ [LayerNext]_layerVars => ExtractionInv'
  BY StepKeepsExtractionInv
<1>3. ExtractionInv => VerdictIsExact
  BY DEF ExtractionInv, VerdictIsExact, PlainSoFar, Acceptable
<1> QED
  BY <1>1, <1>2, <1>3, PTL DEF LayerSpec
=============================================================================
