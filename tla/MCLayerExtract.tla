----------------------------- MODULE MCLayerExtract -----------------------------
(* Archives over two names, three levels of directories and every type.    *)
EXTENDS LayerExtract

Names == {<< "a" >>, << "b" >>, << "a", "b" >>, << "b", "b" >>}

Targets == {<< "a" >>, << "b" >>, << ".", "a", "b" >>}

Entry(type, name, target, owner, mode) ==
    [type |-> type, name |-> name, target |-> target, owner |-> owner, mode |-> mode]

MCEntries ==
    {Entry(type, name, << "" >>, 1, mode) :
        type \in {"dir", "file"}, name \in Names, mode \in {"plain", "setuid"}}
    \cup {Entry("symlink", name, target, 1, "plain") :
        name \in Names, target \in Targets \cup {<< "..", "a" >>}}
    \cup {Entry("link", name, target, 2, "setuid") : name \in Names, target \in Targets}
    \cup {Entry("file", name, << "" >>, 0, "plain") :
        name \in {<< "b", "a", "b" >>, << "" >>, << "", "a" >>, << "a", "..", "..", "b" >>,
                  << ".", ".wh.a" >>, << "." >>}}
    \cup {Entry("dir", name, << "" >>, 2, "setuid") :
        name \in {<< ".", "" >>, << "a", "..", "b" >>}}
    \cup {Entry("other", << "a" >>, << "" >>, 0, "plain"),
          Entry("link", << "a" >>, << "a", ".." >>, 0, "plain"),
          Entry("symlink", << "a" >>, << "" >>, 0, "plain"),
          Entry("symlink", << "a" >>, << "", "b" >>, 0, "plain"),
          Entry("symlink", << "a", "b" >>, << "." >>, 1, "plain")}
=============================================================================
