------------------------------ MODULE MCFiles ------------------------------
EXTENDS Files, TLC

\* The writers of the output file are interchangeable.
WriterSymmetry == Permutations(Writer)

\* Bounds of the run: the only times the plain file has again are its first
\* ones, and it is rewritten twice only while no writer is at work.
Bounded ==
    /\ body["plain"].stamp \in {0, body["plain"].version}
    /\ body["plain"].version > 1 => temp = {} /\ was \cap Writer = {}
=============================================================================
