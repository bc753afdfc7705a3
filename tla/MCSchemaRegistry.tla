-------------------------- MODULE MCSchemaRegistry --------------------------
EXTENDS SchemaRegistry, TLC

\* One id: the calls on another one touch none of its keys, except a delete
\* whose prefix covers it, which is a delete of its own as far as it can tell.
OwnKeys == [i \in Ids |-> {i}]

\* Payloads and calls are interchangeable.
Interchangeable == Permutations(Raws) \cup Permutations(Calls)
=============================================================================
