---------------------------- MODULE MCClientKeys ----------------------------
EXTENDS ClientKeys

MCPassphrases == {[from |-> "argument", text |-> "p"], [from |-> "argument", text |-> ""],
                  [from |-> "file", text |-> "q"], [from |-> "stdin", text |-> ""]}

\* Another machine's keys (number 9), in the format of today and of version 1.
MCForeign == {[version |-> v, pass |-> "p", pair |-> <<9, 9>>] : v \in 1 .. 2}
=============================================================================
