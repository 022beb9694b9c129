------------------------------ MODULE LayerExtract ------------------------------
(***************************************************************************)
(* unpackLayer of internal/oci/image.go: the entries of a layer's archive  *)
(* are applied one after the other to the root of a bundle, and the whole  *)
(* stream is then compared with the layer's diff ID.                       *)
(*                                                                         *)
(* The root is reached only through os.Root, of which the model says how a *)
(* name is resolved: symbolic links are followed inside the root, a name   *)
(* that leaves it is an error.  A name in the archive is the sequence of   *)
(* its components, so that "" is <<"">>, "/a" is <<"", "a">> and "./a" is  *)
(* <<".", "a">>.  A tree maps the places that exist to what is there; two  *)
(* places with the same ino other than 0 are one file.                     *)
(***************************************************************************)
EXTENDS Integers, Sequences, SequencesExt

CONSTANTS
    Entries,        \* what the archive may hold: [type, name, target, owner, mode]
    MaxEntries,     \* bound on the length of the archive
    LongestTarget,  \* bound on the components of a link's target
    Whiteouts       \* the components that start with ".wh."

EntryTypes == {"dir", "file", "symlink", "link", "other"}

\* A text that has been split into components is not the empty sequence.
ASSUME EntriesAssumption ==
    /\ {MaxEntries, LongestTarget} \subseteq Nat
    /\ \A e \in Entries :
          /\ e \in [type : EntryTypes, name : Seq(STRING), target : Seq(STRING),
                    owner : Nat, mode : {"plain", "setuid"}]
          /\ e.name # << >> /\ Len(e.target) \in 1 .. LongestTarget

VARIABLES
    phase,    \* where unpackLayer stands
    archive,  \* the entries read so far
    tree,     \* the tree beneath the root
    unread,   \* bytes of the stream have not been hashed
    flaw      \* history: what is wrong with the stream, found so far

layerVars == << phase, archive, tree, unread, flaw >>

Root == << >>

\* No place: what a name that is refused or cannot be resolved yields.
Nowhere == << ".." >>

\* No tree: what an operation that fails yields; every tree has a root.
Refused == << >>

MaxSymlinks == 8  \* os.Root follows no more of them for one name

-----------------------------------------------------------------------------
(* os.Root.                                                                *)

Kind(t, p) == IF p \in DOMAIN t THEN t[p].kind ELSE "none"

Put(t, p, node) == [q \in DOMAIN t \cup {p} |-> IF q = p THEN node ELSE t[q]]

Node(kind, n, target) ==
    [kind |-> kind, ino |-> n, owner |-> 0, mode |-> "plain", target |-> target]

Directory == Node("dir", 0, << >>)

\* A name is being resolved: at is the place reached, todo what is left of the name, hops
\* the symbolic links followed.  If making, as in MkdirAll, missing directories are made on
\* the way, and a symbolic link at the end is accepted if it leads to a directory.
Resolving(t, at, todo, hops, making) ==
    [tree |-> t, at |-> at, todo |-> todo, hops |-> hops, making |-> making]

\* The next component.
Follow(s) ==
    LET part == Head(s.todo)
        next == Append(s.at, part)
        kind == IF part = ".." THEN "parent" ELSE Kind(s.tree, next)
        rest == Tail(s.todo)
        atEnd == Len(s.todo) = 1
    IN  IF s.todo = << >> THEN s
        ELSE IF part \in {"", "."} THEN Resolving(s.tree, s.at, rest, s.hops, s.making)
        ELSE IF kind = "parent" /\ s.at # Root
             THEN Resolving(s.tree, Front(s.at), rest, s.hops, s.making)
        ELSE IF kind = "dir" \/ (kind = "file" /\ atEnd /\ ~s.making)
             THEN Resolving(s.tree, next, rest, s.hops, s.making)
        ELSE IF kind = "none" /\ s.making
             THEN Resolving(Put(s.tree, next, Directory), next, rest, s.hops, TRUE)
        ELSE IF kind = "symlink" /\ s.making /\ atEnd
             THEN Resolving(s.tree, s.at, s.todo, s.hops, FALSE)
        ELSE IF kind = "symlink" /\ s.hops < MaxSymlinks
             THEN Resolving(s.tree, s.at, s.tree[next].target \o rest, s.hops + 1, s.making)
        ELSE Resolving(s.tree, Nowhere, << >>, s.hops, s.making)

Resolution(s) ==
    LET after[n \in Nat] == IF n = 0 THEN s ELSE Follow(after[n - 1]) IN after

\* After so many steps every resolution has ended.
EnoughSteps(name) == Len(name) + 1 + MaxSymlinks * LongestTarget

Resolve(t, name, making) ==
    Resolution(Resolving(t, Root, name, 0, making))[EnoughSteps(name)]

\* The place that a name leads to, in a tree that is there.
Find(t, name) == IF t = Refused THEN Nowhere ELSE Resolve(t, name, FALSE).at

\* The place of a name, whose last component is not followed.
Place(t, name) ==
    IF name = Root THEN Root ELSE
    LET parent == Find(t, Front(name)) IN
    IF Kind(t, parent) = "dir" THEN Append(parent, Last(name)) ELSE Nowhere

MkdirAll(t, name) ==
    IF t = Refused THEN Refused ELSE
    LET end == Resolve(t, name, TRUE) IN
    IF Kind(end.tree, end.at) = "dir" THEN end.tree ELSE Refused

\* Mutants: what lies beneath stays; a symbolic link is followed.
RemoveOnly(t, name) == [p \in DOMAIN t \ {Place(t, name)} |-> t[p]]

RemoveAllFollowing(t, name) ==
    [p \in {q \in DOMAIN t : ~IsPrefix(Find(t, name), q)} \ {Place(t, name)} |-> t[p]]

RemoveAll(t, name) == [p \in {q \in DOMAIN t : ~IsPrefix(Place(t, name), q)} |-> t[p]]

\* OpenFile with O_EXCL, and Symlink.
Create(t, name, node) ==
    IF Place(t, name) \in {Nowhere} \cup DOMAIN t THEN Refused
    ELSE Put(t, Place(t, name), node)

Link(t, target, name) ==
    IF Kind(t, Place(t, target)) \notin {"file", "symlink"} THEN Refused
    ELSE Create(t, name, t[Place(t, target)])

\* What is changed at place p is changed at every place of the same file.
SameFile(t, p) == {q \in DOMAIN t : q = p \/ (t[p].ino # 0 /\ t[q].ino = t[p].ino)}

\* The kernel clears the set-user-ID bit of a file whose owner is set.
Owned(node, owner) ==
    LET owned == [node EXCEPT !.owner = owner] IN
    IF node.kind = "file" THEN [owned EXCEPT !.mode = "plain"] ELSE owned

Lchown(t, name, owner) ==
    LET p == Place(t, name) IN
    IF p \notin DOMAIN t THEN Refused
    ELSE [q \in DOMAIN t |-> IF q \notin SameFile(t, p) THEN t[q] ELSE Owned(t[q], owner)]

\* Chmod follows symbolic links.
Chmod(t, name, mode) ==
    LET p == Find(t, name) IN
    IF p \notin DOMAIN t THEN Refused
    ELSE [q \in DOMAIN t |-> IF q \in SameFile(t, p) THEN [t[q] EXCEPT !.mode = mode] ELSE t[q]]

-----------------------------------------------------------------------------
(* The functions of image.go.                                              *)

\* The tree of a root in which nothing has been made.
EmptyTree == [p \in {Root} |-> Directory]

\* filepath.Clean is lexical, as if every component were a directory.  A name that leaves
\* the root yields one that begins with "..", whatever follows, and is Nowhere here.
Clean(name) == Resolution(Resolving(EmptyTree, Root, name, 0, TRUE))[Len(name)].at

CleanArchivePath(name) == IF Head(name) = "" THEN Nowhere ELSE Clean(name)

ValidSymlink(name, target) == Head(target) # "" /\ Clean(Front(name) \o target) # Nowhere

\* Mutant: the mode is set before the owner.
ModeBeforeOwner(t, name, entry, symbolicLink) ==
    IF symbolicLink THEN Lchown(t, name, entry.owner)
    ELSE Lchown(Chmod(t, name, entry.mode), name, entry.owner)

ApplyMetadata(t, name, entry, symbolicLink) ==
    IF symbolicLink THEN Lchown(t, name, entry.owner)
    ELSE Chmod(Lchown(t, name, entry.owner), name, entry.mode)

File(n) == Node("file", n, << >>)

Symlink(n, target) == Node("symlink", n, target)

\* Entry n of the archive, called name, is applied to t.
CreateArchiveEntry(t, entry, name, n) ==
    LET made == IF Len(name) = 1 THEN t ELSE MkdirAll(t, Front(name))
        target == CleanArchivePath(entry.target) IN
    CASE entry.type = "dir" -> ApplyMetadata(MkdirAll(made, name), name, entry, FALSE)
      [] entry.type = "file" ->
            ApplyMetadata(Create(RemoveAll(made, name), name, File(n)), name, entry, FALSE)
      [] entry.type = "symlink" /\ ValidSymlink(name, entry.target) ->
            ApplyMetadata(Create(RemoveAll(made, name), name, Symlink(n, entry.target)),
                          name, entry, TRUE)
      [] entry.type = "link" /\ target \notin {Nowhere, Root} ->
            ApplyMetadata(Link(RemoveAll(made, name), target, name), name, entry, FALSE)
      [] OTHER -> Refused

\* The body of the loop of extractArchive.
ExtractEntry(t, entry, n) ==
    LET name == CleanArchivePath(entry.name) IN
    CASE name = Root /\ entry.type = "dir" -> ApplyMetadata(t, Root, entry, FALSE)
      [] name \notin {Root, Nowhere} /\ Last(name) \notin Whiteouts ->
            CreateArchiveEntry(t, entry, name, n)
      [] OTHER -> Refused

-----------------------------------------------------------------------------
(* unpackLayer.                                                            *)

OpenLayer ==
    /\ phase = "open"
    /\ phase' = "extract"
    /\ UNCHANGED << archive, tree, unread, flaw >>

\* Next returns an entry.
NextEntry(entry) ==
    /\ phase = "extract"
    /\ Len(archive) < MaxEntries
    /\ archive' = Append(archive, entry)
    /\ LET result == ExtractEntry(tree, entry, Len(archive) + 1) IN
          IF result = Refused THEN phase' = "refused" /\ UNCHANGED tree
          ELSE tree' = result /\ UNCHANGED phase
    /\ UNCHANGED << unread, flaw >>

\* Next meets the end of the archive, which need not be the end of the stream.
EndOfArchive ==
    /\ phase = "extract"
    /\ phase' = "finish"
    /\ unread' \in BOOLEAN
    /\ UNCHANGED << archive, tree, flaw >>

\* Mutant: the rest of the stream is not read.
FinishUnread ==
    /\ phase = "finish"
    /\ phase' = "verify"
    /\ UNCHANGED << archive, tree, unread, flaw >>

FinishReading ==
    /\ phase = "finish"
    /\ phase' = "verify"
    /\ unread' = FALSE
    /\ UNCHANGED << archive, tree, flaw >>

\* The stream cannot be opened or read, or is not what its checksum says.
StreamFails ==
    /\ phase \in {"open", "extract", "finish"}
    /\ phase' = "refused"
    /\ flaw' = {"data"}
    /\ UNCHANGED << archive, tree, unread >>

\* The diff ID names the whole stream, or another one.
CompareDiffID ==
    /\ phase = "verify"
    /\ flaw' \in {{}, {"diffID"}}
    /\ phase' = IF flaw' = {} /\ ~unread THEN "unpacked" ELSE "refused"
    /\ UNCHANGED << archive, tree, unread >>

LayerInit ==
    /\ phase = "open"
    /\ archive = << >>
    /\ tree = EmptyTree
    /\ unread = TRUE
    /\ flaw = {}

LayerNext ==
    \/ OpenLayer
    \/ \E entry \in Entries : NextEntry(entry)
    \/ EndOfArchive \/ FinishReading \/ StreamFails \/ CompareDiffID

LayerSpec == LayerInit /\ [][LayerNext]_layerVars

-----------------------------------------------------------------------------
(* A reference: what a sequence of entries says of the tree, without a     *)
(* tree.                                                                   *)

Name(a, i) == CleanArchivePath(a[i].name)

Target(a, i) == CleanArchivePath(a[i].target)

\* Entry i has replaced whatever was beneath its name.
Replaces(a, i) == a[i].type # "dir"

\* What entry i has made is still there when entry n comes.
Stands(a, i, n) ==
    \A j \in i + 1 .. n - 1 :
        Name(a, j) # Name(a, i)
        /\ ~(Replaces(a, j) /\ IsStrictPrefix(Name(a, j), Name(a, i)))

Standing(a, n) == {i \in 1 .. n - 1 : Stands(a, i, n)}

\* The entry to which place p then belongs.
Claims(a, p, n) == {i \in Standing(a, n) : Name(a, i) = p}

Claimant(a, p, n) == CHOOSE i \in Claims(a, p, n) : TRUE

Present(a, n) == {Root} \cup UNION {Prefixes(Name(a, i)) : i \in Standing(a, n)}

\* The entry that has made the file which entry i names.
Origin(a) ==
    LET origin[i \in DOMAIN a] ==
            IF a[i].type = "link" /\ Claims(a, Target(a, i), i) # {}
            THEN origin[Claimant(a, Target(a, i), i)]
            ELSE i
    IN origin

\* The last entry that names the file of entry i.
LastNaming(a, i) ==
    CHOOSE k \in DOMAIN a :
        /\ Origin(a)[k] = Origin(a)[i]
        /\ \A l \in k + 1 .. Len(a) : Origin(a)[l] # Origin(a)[i]

KindAt(a, p, n) ==
    IF Claims(a, p, n) # {} THEN a[Origin(a)[Claimant(a, p, n)]].type
    ELSE IF p \in Present(a, n) THEN "dir" ELSE "none"

\* No name leads through a symbolic link, and nothing else is made of one.
PlainBefore(a, n) ==
    \A j \in 1 .. n - 1 : \A i \in 1 .. j - 1 :
        a[i].type = "symlink" =>
            /\ ~IsStrictPrefix(Name(a, i), Name(a, j))
            /\ a[j].type = "dir" => Name(a, j) # Name(a, i)
            /\ a[j].type = "link" => ~IsPrefix(Name(a, i), Target(a, j))

\* Entry n cannot be applied after the entries before it.
Unacceptable(a, n) ==
    LET entry == a[n] name == Name(a, n) IN
    \/ name = Nowhere \/ entry.type = "other"
    \/ name = Root /\ entry.type # "dir"
    \/ name # Root /\ Last(name) \in Whiteouts
    \/ \E p \in Prefixes(name) \ {name} : KindAt(a, p, n) = "file"
    \/ entry.type = "dir" /\ KindAt(a, name, n) = "file"
    \/ entry.type = "symlink" /\ ~ValidSymlink(name, entry.target)
    \/ /\ entry.type = "link"
       /\ \/ IsPrefix(name, Target(a, n))
          \/ KindAt(a, Target(a, n), n) # "file"

-----------------------------------------------------------------------------
\* Whatever the entries make of each other, nothing is in the tree without a
\* directory around it, and no place has a name that could leave the root
\* (image.go:414-500).
TreeWellFormed ==
    \A p \in DOMAIN tree :
        /\ \A q \in Prefixes(p) \ {p} : Kind(tree, q) = "dir"
        /\ \A i \in DOMAIN p : p[i] \notin {"", ".", ".."}

\* Every variable has its type: what is in the tree is a tree, and the target of a
\* symbolic link is relative.
LayerTypeOK ==
    /\ phase \in {"open", "extract", "finish", "verify", "unpacked", "refused"}
    /\ archive \in Seq(Entries) /\ Len(archive) <= MaxEntries
    /\ \A p \in DOMAIN tree :
          /\ tree[p].kind \in {"dir", "file", "symlink"}
          /\ tree[p].ino \in 0 .. Len(archive)
          /\ tree[p].mode \in {"plain", "setuid"}
          /\ tree[p].kind = "symlink" => Head(tree[p].target) # ""
    /\ TreeWellFormed
    /\ unread \in BOOLEAN
    /\ flaw \subseteq {"data", "diffID"}

\* The last entry that names a place decides what is there: its kind, owner and
\* mode, the set-user-ID bit included, with what it replaced gone entirely and
\* nothing else there but the directories around it.  A hard link is the same
\* file as its target, of which the last entry sets owner and mode
\* (image.go:373-500, 538-566).
LastEntryWins ==
    LET n == Len(archive) + 1 IN
    phase # "refused" /\ PlainBefore(archive, n) =>
        /\ DOMAIN tree = Present(archive, n)
        /\ \A i \in Standing(archive, n) :
              LET node == tree[Name(archive, i)]
                  origin == Origin(archive)[i]
                  last == archive[LastNaming(archive, i)] IN
              /\ node.kind = archive[origin].type
              /\ node.ino = IF node.kind = "dir" THEN 0 ELSE origin
              /\ node.owner = last.owner
              /\ node.kind # "symlink" => node.mode = last.mode
        /\ \A p \in DOMAIN tree : Claims(archive, p, n) = {} => tree[p] = Directory

\* A layer is refused only for a reason: a stream that is damaged or not the one
\* named, or an entry that cannot be applied after those before it; and it is
\* unpacked only without one.  Bytes behind the end of the archive are no reason
\* (image.go:324-371).
VerdictIsExact ==
    LET n == Len(archive) IN
    /\ phase = "refused" /\ flaw = {} /\ PlainBefore(archive, n + 1) =>
          n > 0 /\ Unacceptable(archive, n)
    /\ phase = "unpacked" /\ PlainBefore(archive, n + 1) =>
          flaw = {} /\ \A i \in DOMAIN archive : ~Unacceptable(archive, i)

\* An entry removes nothing but what was beneath the place where it now is, also when
\* a symbolic link to something else was there or in its name (image.go:414-500).
RemovesOnlyItsOwn ==
    [][\A p \in DOMAIN tree \ DOMAIN tree' :
          IsPrefix(Place(tree', CleanArchivePath(Last(archive').name)), p)]_layerVars
=============================================================================
