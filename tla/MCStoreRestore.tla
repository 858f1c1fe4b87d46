--------------------------- MODULE MCStoreRestore ---------------------------
EXTENDS StoreRestore

CONSTANTS a1, a2, plain

\* zip gives the name without an extension that of another archive.
Named == [a \in {a1, a2, plain} |-> IF a = plain THEN a1 ELSE a]
=============================================================================
