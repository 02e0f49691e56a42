-------------------------- MODULE MCManagedTransport --------------------------
EXTENDS ManagedTransport, TLC

\* Requests, and close() calls, are interchangeable in every safety property.
TransportSymmetry == Permutations(Requests) \cup Permutations(Closers)
=============================================================================
