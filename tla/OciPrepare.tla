------------------------------- MODULE OciPrepare -------------------------------
(***************************************************************************)
(* A run request from its image layout to the workload: Prepare and Close  *)
(* of internal/oci/image.go, and the checks that Run and InitProcess       *)
(* (internal/runtime/run_linux.go) make of the bundle that they are given. *)
(*                                                                         *)
(* A blob is [hash, size, body]: hash is the digest of what is stored,     *)
(* whatever name it is stored under.  A body is a record with the fields   *)
(* that the blob contains; a layer's body has the fields of an archive and *)
(* is not JSON.  The entries of the archive are module LayerExtract's.     *)
(***************************************************************************)
EXTENDS Integers, Sequences, FiniteSets, Functions

CONSTANTS
    Layouts,    \* the image layouts that a request may name
    Requests,   \* the rest of a request: hostname and arguments
    Digests,    \* well-formed SHA-256 digests
    IdLimit,    \* 2^32, scaled down: identities are below it
    NoBundle    \* what Prepare returns with an error

ASSUME IdAssumption == IdLimit \in Nat \ {0, 1}

\* The index is finite, and a body with an operating system is a configuration, whose
\* fields have the types that imageConfiguration gives them.
ASSUME LayoutAssumption ==
    \A l \in Layouts :
        /\ IsFiniteSet(DOMAIN l.manifests)
        /\ \A b \in Range(l.blobs) :
              "os" \in DOMAIN b.body =>
                  /\ b.body.user \in Seq(Int)
                  /\ {b.body.entrypoint, b.body.cmd} \subseteq Seq(STRING)

VARIABLES
    layout,     \* the layout that the request names
    request,    \* the rest of the request
    place,      \* the next step
    manifest,   \* the decoded manifest
    config,     \* the decoded image configuration
    layer,      \* the body of the layer's blob
    rootfs,     \* whether the directory made by MkdirTemp exists
    bundle,     \* the result of Prepare
    faults,     \* history: kinds of I/O errors that happened
    verdict     \* "refused" by Prepare, "rejected" after it, "running"

input == << layout, request >>
blobVars == << manifest, config, layer >>
vars == << input, place, blobVars, rootfs, bundle, faults, verdict >>

\* json.Unmarshal leaves the zero value where the text has no such field.
Field(body, name, zero) == IF name \in DOMAIN body THEN body[name] ELSE zero

IsJson(body) == "archive" \notin DOMAIN body

Goto(p, q) == place = p /\ place' = q

\* Prepare returns an error before it has made a directory.
Refuse(p) ==
    /\ Goto(p, "over")
    /\ verdict' = "refused"
    /\ UNCHANGED << input, blobVars, rootfs, bundle, faults >>

-----------------------------------------------------------------------------
(* Reading the layout.                                                     *)

ReadLayout ==
    LET ok == layout.absolute /\ layout.version = "1.0.0"
    IN  \/ ~ok /\ Refuse("start")
        \/ /\ ok /\ Goto("start", "index")
           /\ UNCHANGED << input, blobVars, rootfs, bundle, faults, verdict >>

Matches(descriptor) ==
    descriptor.media = "manifest" /\ descriptor.platform \in {"none", "own"}

Candidates(l) == {i \in DOMAIN l.manifests : Matches(l.manifests[i])}

\* Mutant: another platform's manifest beside it is counted.
SelectedAlone ==
    {layout.manifests[i] : i \in {j \in Candidates(layout) : Len(layout.manifests) = 1}}

\* selectManifest: the only manifest that matches.
Selected ==
    {layout.manifests[i] : i \in
        {j \in Candidates(layout) : Cardinality(Candidates(layout)) = 1}}

\* Mutant: the digest is not compared.
ReadBlobUnverified(descriptor) ==
    {b \in Range(layout.blobs) :
        /\ descriptor.digest \in Digests \cap DOMAIN layout.blobs
        /\ layout.blobs[descriptor.digest] = b
        /\ b.size = descriptor.size}

\* readBlob: the content, or nothing.
ReadBlob(descriptor) ==
    {b \in Range(layout.blobs) :
        /\ descriptor.digest \in Digests \cap DOMAIN layout.blobs
        /\ layout.blobs[descriptor.digest] = b
        /\ b.size = descriptor.size
        /\ b.hash = descriptor.digest}

ValidManifest(body) ==
    /\ IsJson(body)
    /\ Field(body, "schema", 0) = 2
    /\ body.config.media = "config"
    /\ Len(body.layers) = 1

ReadManifest ==
    /\ place = "index"
    /\ LET found == {b \in UNION {ReadBlob(d) : d \in Selected} : ValidManifest(b.body)} IN
        \/ (layout.indexVersion # 2 \/ found = {}) /\ Refuse("index")
        \/ /\ layout.indexVersion = 2 /\ Goto("index", "config")
           /\ \E b \in found : manifest' = b.body
           /\ UNCHANGED << input, config, layer, rootfs, bundle, faults, verdict >>

\* Mutant: identities are parsed with 64 bits and cut to 32.
ParseUserWide(user) == Len(user) = 2 /\ \A i \in 1 .. 2 : user[i] > 0

\* Mutant: zero is not refused.
ParseUserOrRoot(user) == Len(user) = 2 /\ \A i \in 1 .. 2 : user[i] \in 0 .. IdLimit - 1

\* parseUser: two numbers, here -1 for what is none, that fit into 32 bits.
ParseUser(user) == Len(user) = 2 /\ \A i \in 1 .. 2 : user[i] \in 1 .. IdLimit - 1

ValidateEnvironment(environment) == \A entry \in Range(environment) : entry = "valid"

Command(body) == body.entrypoint \o body.cmd

ValidConfig(body) ==
    /\ IsJson(body)
    /\ Field(body, "os", "") = "linux" /\ body.architecture = "own"
    /\ body.rootfsType = "layers" /\ Len(body.diffIds) = 1
    /\ ParseUser(body.user)
    /\ Command(body) # << >>
    /\ ValidateEnvironment(body.environment)
    /\ body.workingDir # "relative"

ReadConfig ==
    /\ place = "config"
    /\ LET found == {b \in ReadBlob(manifest.config) : ValidConfig(b.body)} IN
        \/ found = {} /\ Refuse("config")
        \/ /\ Goto("config", "layer")
           /\ \E b \in found : config' = b.body
           /\ UNCHANGED << input, manifest, layer, rootfs, bundle, faults, verdict >>

ReadLayer ==
    /\ place = "layer"
    /\ LET descriptor == manifest.layers[1]
           found == {b \in ReadBlob(descriptor) : descriptor.media \in {"tar", "gzip"}} IN
        \/ found = {} /\ Refuse("layer")
        \/ /\ Goto("layer", "mkdir")
           /\ \E b \in found : layer' = b.body
           /\ UNCHANGED << input, manifest, config, rootfs, bundle, faults, verdict >>

MakeRootfs ==
    /\ Goto("mkdir", "unpack")
    /\ rootfs' = TRUE
    /\ UNCHANGED << input, blobVars, bundle, faults, verdict >>

\* An I/O error ends Prepare before the directory exists.
ReadFails ==
    /\ place \in {"start", "index", "config", "layer", "mkdir"}
    /\ place' = "over"
    /\ verdict' = "refused"
    /\ faults' = faults \cup {"read"}
    /\ UNCHANGED << input, blobVars, rootfs, bundle >>

\* unpackLayer: the archive is as the descriptor says, it can be extracted and
\* has the digest that the configuration names.
Unpackable ==
    /\ ~IsJson(layer)
    /\ layer.archive = manifest.layers[1].media
    /\ layer.sound
    /\ layer.diff = config.diffIds[1]

BundleOf(body) ==
    [command |-> Command(body), environment |-> body.environment,
     workingDir |-> IF body.workingDir = "" THEN "root" ELSE body.workingDir,
     uid |-> body.user[1] % IdLimit, gid |-> body.user[2] % IdLimit]

Unpack ==
    /\ Goto("unpack", "run")
    /\ Unpackable
    /\ bundle' = BundleOf(config)
    /\ UNCHANGED << input, blobVars, rootfs, faults, verdict >>

\* Mutant: the directory stays.
UnpackFailsLeaking ==
    /\ Goto("unpack", "over")
    /\ ~Unpackable
    /\ verdict' = "refused"
    /\ UNCHANGED << input, blobVars, rootfs, bundle, faults >>

\* The directory goes again; that this fails is not reported.
UnpackFails ==
    /\ Goto("unpack", "over")
    /\ verdict' = "refused"
    /\ \E unpackFault, removeFault \in BOOLEAN :
          /\ unpackFault \/ ~Unpackable
          /\ rootfs' = removeFault
          /\ faults' = faults \cup {f \in {"unpack"} : unpackFault}
                              \cup {f \in {"remove"} : removeFault}
    /\ UNCHANGED << input, blobVars, bundle >>

-----------------------------------------------------------------------------
(* Handing the bundle over: handleRequest, Run and InitProcess.            *)

EffectiveCommand == IF request.args # << >> THEN request.args ELSE bundle.command

ValidIdentity(uid, gid) == uid # 0 /\ gid # 0

ValidHostname(hostname) == hostname \notin {"empty", "long", "null"}

\* What Run checks, and that no argument of the child contains a null byte.
RunAccepts ==
    /\ EffectiveCommand # << >>
    /\ ValidHostname(request.hostname)
    /\ rootfs
    /\ ValidIdentity(bundle.uid, bundle.gid)
    /\ bundle.workingDir # "relative"
    /\ "null" \notin Range(EffectiveCommand) \cup {bundle.workingDir}

ParseID(id) == id \in 0 .. IdLimit - 1

\* What InitProcess checks of the arguments that Run has given it.
InitProcessAccepts ==
    /\ ParseID(bundle.uid) /\ ParseID(bundle.gid)
    /\ bundle.workingDir # "relative"
    /\ ValidHostname(request.hostname)
    /\ rootfs
    /\ ValidIdentity(bundle.uid, bundle.gid)

\* The archive has let the workload's user search its root directory, which
\* MkdirTemp has made for the agent alone.
Executable == layer.root = "searchable"

Hand(p, q, accepted) ==
    /\ place = p
    /\ place' = IF accepted THEN q ELSE "close"
    /\ verdict' = IF ~accepted THEN "rejected"
                  ELSE IF q = "close" THEN "running" ELSE verdict
    /\ UNCHANGED << input, blobVars, rootfs, bundle, faults >>

Run == Hand("run", "init", RunAccepts)

InitProcess == Hand("init", "exec", InitProcessAccepts)

Exec == Hand("exec", "close", Executable)

\* Bundle.Close, after the workload if there was one.
Close ==
    /\ Goto("close", "over")
    /\ \E removeFault \in BOOLEAN :
          /\ rootfs' = removeFault
          /\ faults' = faults \cup {f \in {"remove"} : removeFault}
    /\ UNCHANGED << input, blobVars, bundle, verdict >>

-----------------------------------------------------------------------------
Init ==
    /\ layout \in Layouts
    /\ request \in Requests
    /\ place = "start"
    /\ manifest = << >> /\ config = << >> /\ layer = << >>
    /\ rootfs = FALSE
    /\ bundle = NoBundle
    /\ faults = {}
    /\ verdict = "none"

Prepare ==
    \/ ReadLayout \/ ReadManifest \/ ReadConfig \/ ReadLayer
    \/ MakeRootfs \/ Unpack \/ UnpackFails \/ ReadFails

Next == Prepare \/ Run \/ InitProcess \/ Exec \/ Close

Spec == Init /\ [][Next]_vars

-----------------------------------------------------------------------------
(* What a layout denotes, without regard to how it is read.                *)

\* Content c is what the descriptor names, and is stored under that name.
NamedBy(l, descriptor, c) ==
    /\ descriptor.digest = c.hash /\ descriptor.size = c.size
    /\ c.hash \in Digests \cap DOMAIN l.blobs
    /\ l.blobs[c.hash] = c

\* Manifest m, configuration c and archive a are the only image of the layout
\* for this platform, and an image of the kind that the README describes.
IsImage(l, m, c, a) ==
    /\ l.absolute /\ l.version = "1.0.0" /\ l.indexVersion = 2
    /\ \E i \in DOMAIN l.manifests :
          /\ NamedBy(l, l.manifests[i], m)
          /\ \A j \in DOMAIN l.manifests : i = j <=> Matches(l.manifests[j])
    /\ ValidManifest(m.body)
    /\ NamedBy(l, m.body.config, c)
    /\ IsJson(c.body) /\ "os" \in DOMAIN c.body
    /\ c.body.os = "linux" /\ c.body.architecture = "own"
    /\ c.body.rootfsType = "layers" /\ Len(c.body.diffIds) = 1
    /\ NamedBy(l, m.body.layers[1], a)
    /\ ~IsJson(a.body) /\ a.body.sound
    /\ a.body.archive = m.body.layers[1].media /\ a.body.archive \in {"tar", "gzip"}
    /\ a.body.diff = c.body.diffIds[1]
    /\ Len(c.body.user) = 2 /\ Range(c.body.user) \subseteq 1 .. IdLimit - 1
    /\ c.body.entrypoint # << >> \/ c.body.cmd # << >>
    /\ Range(c.body.environment) \subseteq {"valid"}
    /\ c.body.workingDir # "relative"

Images(l) ==
    {t \in Range(l.blobs) \X Range(l.blobs) \X Range(l.blobs) : IsImage(l, t[1], t[2], t[3])}

\* Every variable has its type; an identity is not zero and fits into 32 bits.
TypeOK ==
    /\ place \in {"start", "index", "config", "layer", "mkdir", "unpack", "run",
                  "init", "exec", "close", "over"}
    /\ rootfs \in BOOLEAN
    /\ bundle # NoBundle => {bundle.uid, bundle.gid} \subseteq 1 .. IdLimit - 1
    /\ faults \subseteq {"read", "unpack", "remove"}
    /\ verdict \in {"none", "refused", "rejected", "running"}

\* A bundle is made of the one image that the layout denotes: manifest, layer
\* and configuration are reached from the index by their digests alone, and
\* command and identity are those of that configuration (image.go:110-227).
BundleIsTheImage ==
    bundle # NoBundle =>
        \E t \in Images(layout) :
            /\ Images(layout) = {t}
            /\ manifest = t[1].body /\ layer = t[3].body
            /\ bundle.command = t[2].body.entrypoint \o t[2].body.cmd
            /\ << bundle.uid, bundle.gid >> = t[2].body.user

\* Prepare refuses a layout only if it denotes no image or an I/O error happened
\* (image.go:83-218).
RefusalHasCause ==
    verdict = "refused" => Images(layout) = {} \/ faults \cap {"read", "unpack"} # {}

\* Nothing is left of a request that is over, unless the removal failed
\* (image.go:216, 244).
NothingLeftBehind == place = "over" /\ rootfs => "remove" \in faults

\* How far the root of the bundle has come: Prepare holds it back until it is complete.
RootfsStatus ==
    CASE place \in {"run", "init", "exec", "close"} -> "held"
      [] place = "over" -> IF verdict = "refused" THEN "refused" ELSE "released"
      [] OTHER -> "asked"

Contract == INSTANCE DirectoryContract WITH
    Directories <- {"rootfs"},
    status <- [d \in {"rootfs"} |-> RootfsStatus],
    existing <- {d \in {"rootfs"} : rootfs /\ RootfsStatus # "asked"},
    stuck <- {d \in {"rootfs"} : "remove" \in faults}

\* Prepare and Close keep the contract of a directory: a complete root or none, and
\* none after Close, unless a removal failed (image.go:210-246).
KeepsContract == Contract!Spec

\* What Prepare accepts, Run and InitProcess accept: after Prepare a request
\* fails only for its own hostname, a null byte in an argument of the child,
\* which Prepare looks for in the environment alone, or an archive without an
\* entry that opens its root directory (run_linux.go:63-95, 211-250, 331).
PreparedIsAccepted ==
    verdict = "rejected" =>
        \/ ~ValidHostname(request.hostname)
        \/ "null" \in Range(EffectiveCommand) \cup {bundle.workingDir}
        \/ layer.root # "searchable"
=============================================================================
