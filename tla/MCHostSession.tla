---------------------------- MODULE MCHostSession ----------------------------
EXTENDS HostSession

Sample == [kernel |-> "file", initramfs |-> "", disk |-> "file", cpus |-> 1, memoryMiB |-> 1]

\* Command lines that differ from the sample in one option, and the sample.
MCOptions ==
    {Sample} \cup {[Sample EXCEPT !.kernel = path] : path \in {"", "missing"}}
    \cup {[Sample EXCEPT !.initramfs = path] : path \in {"file", "missing"}}
    \cup {[Sample EXCEPT !.disk = path] : path \in {"", "missing"}}
    \cup {[Sample EXCEPT !.cpus = n] : n \in {0, 3, 4, 5}}
    \cup {[Sample EXCEPT !.memoryMiB = n] : n \in {0, 3, 4, 5}}
=============================================================================
