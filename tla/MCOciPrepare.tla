----------------------------- MODULE MCOciPrepare -----------------------------
EXTENDS OciPrepare

MCDigests == {"m", "c", "a", "x"}

Blob(hash, body) == [hash |-> hash, size |-> 2, body |-> body]

To(media, digest) == [media |-> media, digest |-> digest, size |-> 2, platform |-> "none"]

Good == [schema |-> 2, config |-> To("config", "c"), layers |-> << To("tar", "a") >>]

GoodConfig ==
    [os |-> "linux", architecture |-> "own", rootfsType |-> "layers",
     diffIds |-> << "diff" >>, user |-> << 1, 3 >>, entrypoint |-> << "word" >>,
     cmd |-> << >>, environment |-> << "valid" >>, workingDir |-> ""]

GoodArchive == [archive |-> "tar", sound |-> TRUE, diff |-> "diff", root |-> "searchable"]

\* Records that differ from r in one field.
Vary(r, f, values) == {[r EXCEPT ![f] = v] : v \in values}

Manifests ==
    {Good, GoodConfig} \cup Vary(Good, "schema", {1})
    \cup Vary(Good, "config", {To("other", "c"), To("config", "md5"), To("config", "m"),
                             To("config", "a")})
    \cup Vary(Good, "layers",
              {<< >>, << To("tar", "a"), To("tar", "a") >>, << To("gzip", "a") >>,
               << To("zstd", "a") >>, << To("tar", "c") >>})

Configs ==
    {GoodConfig} \cup Vary(GoodConfig, "os", {"other"})
    \cup Vary(GoodConfig, "architecture", {"foreign"})
    \cup Vary(GoodConfig, "rootfsType", {"other"})
    \cup Vary(GoodConfig, "diffIds", {<< >>, << "diff", "diff" >>, << "other" >>})
    \cup Vary(GoodConfig, "user",
              {<< 1 >>} \cup {<< u, g >> : u \in {-1, 0, 3, 4}, g \in {0, 1, 4, 5}})
    \cup {[GoodConfig EXCEPT !.entrypoint = e, !.cmd = c] :
            e \in {<< >>, << "word" >>}, c \in {<< >>, << "arg" >>, << "null" >>}}
    \cup Vary(GoodConfig, "environment", {<< >>, << "valid", "nameless" >>, << "null" >>})
    \cup Vary(GoodConfig, "workingDir", {"directory", "relative", "null"})

Archives ==
    {GoodArchive, [GoodArchive EXCEPT !.archive = "gzip"], [GoodArchive EXCEPT !.sound = FALSE],
     [GoodArchive EXCEPT !.diff = "other"], [GoodArchive EXCEPT !.root = "private"]}

\* Two manifests may stand in the index; what "x" names is the manifest again,
\* as another blob.
IndexEntries ==
    {[media |-> md, digest |-> d, size |-> s, platform |-> p] :
        md \in {"manifest", "other"}, d \in {"m", "x"}, s \in {2, 3},
        p \in {"none", "own", "foreign"}}

Indexes ==
    {<< >>} \cup {<< e >> : e \in IndexEntries}
    \cup {<< e, f >> :
            e \in {To("manifest", "m"), [To("manifest", "x") EXCEPT !.platform = "own"]},
            f \in {g \in IndexEntries : g.size = 2}}

Layout(index, m, c, a) ==
    [absolute |-> TRUE, version |-> "1.0.0", indexVersion |-> 2, manifests |-> index,
     blobs |-> [d \in MCDigests |->
                    CASE d = "m" -> Blob("m", m) [] d = "c" -> Blob("c", c)
                      [] d = "a" -> Blob("a", a) [] d = "x" -> Blob("x", m)]]

OneIndex == << To("manifest", "m") >>

Sample == Layout(OneIndex, Good, GoodConfig, GoodArchive)

\* A blob of the sample is missing, another one, or of another length.
Damaged ==
    {[Sample EXCEPT !.blobs = [d \in MCDigests \ {lost} |-> Sample.blobs[d]]] :
        lost \in MCDigests}
    \cup {[Sample EXCEPT !.blobs[d].hash = "x"] : d \in {"m", "c", "a"}}
    \cup {[Sample EXCEPT !.blobs[d].size = 1] : d \in {"m", "c", "a"}}

MCLayouts ==
    {Layout(i, Good, GoodConfig, GoodArchive) : i \in Indexes}
    \cup {Layout(OneIndex, m, GoodConfig, a) : m \in Manifests, a \in Archives}
    \cup {Layout(OneIndex, Good, c, a) : c \in Configs, a \in Archives}
    \cup Damaged
    \cup Vary(Sample, "absolute", {FALSE})
    \cup Vary(Sample, "version", {"1.1.0"})
    \cup Vary(Sample, "indexVersion", {1})

MCRequests ==
    [hostname : {"name", "empty", "long", "null"}, args : {<< >>, << "word" >>, << "null" >>}]
=============================================================================
