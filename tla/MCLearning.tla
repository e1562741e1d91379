----------------------------- MODULE MCLearning -----------------------------
(* Small instances of Learning.                                            *)
EXTENDS Learning

Corrections == 1..2

SomeMinimums == {1, 2}

\* What a refresh may compute, and a text of the user's with a field that a
\* profile protects and corrections counted.
SomeWritten ==
    {[Empty EXCEPT !.observed = 1],
     [Empty EXCEPT !.observed = 1, !.taboos = 1,
                   !.learned = [c \in Correction |-> 1]]}

SomeRequested == {{}, {"observed", "learned"}}

=============================================================================
