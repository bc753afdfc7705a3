---------------------------- MODULE MCFlowStore ----------------------------
EXTENDS FlowStore, TLC

\* Two flow names, one a prefix of the other: the keys of "ab" start with
\* /flowpipe/flows/a too.
PrefixCovers == [a |-> {"a", "ab"}, ab |-> {"ab"}]

\* Spec contents and calls are interchangeable.
Interchangeable == Permutations(Specs) \cup Permutations(Calls)
=============================================================================
