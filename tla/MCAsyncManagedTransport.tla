----------------------- MODULE MCAsyncManagedTransport -----------------------
EXTENDS AsyncManagedTransport, TLC

\* Requests, and aclose() calls, are interchangeable in every safety property.
AsyncSymmetry == Permutations(Requests) \cup Permutations(Closers)
=============================================================================
