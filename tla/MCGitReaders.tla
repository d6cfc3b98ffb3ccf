----------------------------- MODULE MCGitReaders -----------------------------
EXTENDS GitReaders

\* Bodies of up to two units; the pipes hold one request and two units.
Objects == {[kind |-> "blob", size |-> 0], [kind |-> "blob", size |-> 2],
            [kind |-> "tree", size |-> 2], [kind |-> "missing", size |-> 0],
            [kind |-> "submodule", size |-> 0]}

Divisions == {<< <<1, 2, 3>> >>, << <<1>>, <<2>> >>}
=============================================================================
