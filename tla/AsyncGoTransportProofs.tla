----------------------- MODULE AsyncGoTransportProofs -----------------------
(***************************************************************************)
(* Theorems about _GoTransport and _AsyncGoTransport at once, as           *)
(* EitherSpec has them, for any finite set of requests and any set of      *)
(* close() calls.  IInv is the inductive invariant all of them rest on.    *)
(***************************************************************************)
EXTENDS AsyncGoTransport, FiniteSetTheorems, TLAPS

One(condition) == IF condition THEN 1 ELSE 0

\* The local variables of all requests.
Locals == [Requests -> [at : {"idle", "ensure", "await", "post", "rebuild", "create", "done"},
                        session : Sessions \cup {None}, generation : Generations,
                        resent : BOOLEAN]]

\* Requests by how far they are; what is still to come bounds what can be made.
Inside   == {r \in Requests : req[r].at \notin {"idle", "done"}}
Awaiting == {r \in Requests : req[r].at = "await"}
Fresh    == {r \in Requests : req[r].at \in {"idle", "ensure"}}
Unsent   == {r \in Requests : req[r].at # "done" /\ ~req[r].resent}

\* The counters count; each request may ask for one first session and one rebuild.
Counted ==
    /\ active = Cardinality(Inside)
    /\ waiters = Cardinality(Awaiting)
    /\ generation + Cardinality(Unsent) <= Cardinality(Requests)
    /\ made + One(opened = "new") + One(attempt = "running")
         + Cardinality(Fresh) + Cardinality(Unsent) <= 2 * Cardinality(Requests) + 1

\* Nothing has run for a request that is not over: who is sent again was refused.
Executed ==
    /\ \A r \in Requests : req[r].at # "done" => executed[r] = 0 /\ outcome[r] = None
    /\ OutcomeIsHonest

\* One request at a time rebuilds, for the generation there is, and a generation
\* whose rebuild failed is never tried again.
Rebuilding ==
    /\ \A r \in Requests : At(r, "create") => rebuilding /\ req[r].generation = generation
    /\ \A r, q \in Requests : At(r, "create") /\ At(q, "create") => r = q
    /\ failure.generation \in {None, generation}
    /\ failure.generation = generation => ~rebuilding /\ failure.error \in {"unavailable", "error"}
    /\ rebuilds[generation] = One(rebuilding \/ failure.generation = generation)
    /\ \A g \in Generations : g > generation => rebuilds[g] = 0
    /\ OneRebuild

\* A request posts to a session that was made.  The session of the current generation
\* is clientId, and who is to rebuild it has seen it gone.
Posting ==
    /\ \A s \in Sessions : s > made => sessions[s] = "none"
    /\ clientId # None => clientId <= made
    /\ \A r \in Requests : req[r].generation <= generation
    /\ \A r \in Requests : req[r].at \in {"post", "rebuild", "create"} =>
        /\ clientId # None
        /\ req[r].session \in Sessions /\ req[r].session <= made
        /\ ~req[r].resent /\ req[r].generation = generation => req[r].session = clientId
    /\ \A r \in Requests : req[r].at \in {"rebuild", "create"} =>
        /\ ~managed /\ ~req[r].resent
        /\ sessions[req[r].session] # "listed"

\* The first session is made once: an attempt runs only while there is no session.
FirstSession ==
    /\ opened # "open" => /\ clientId = None /\ attempt = "none"
                          /\ \A r \in Requests : At(r, "idle")
    /\ attempt = "running" => clientId = None
    /\ attempt = "made" => clientId # None \/ \A r \in Requests : ~At(r, "await")
    /\ ~async => /\ attempt = "none" /\ waiters = 0
                 /\ \A r \in Requests : req[r].at \notin {"ensure", "await"}
    /\ ~async /\ opened = "open" /\ ~closing => clientId # None

\* From the moment the session is deleted nothing is under way, and nothing begins.
Ending ==
    /\ closed => closing
    /\ closing => opened = "open"
    /\ \A k \in Closers : closer[k] # "idle" => closing
    /\ closed \/ (\E k \in Closers : closer[k] = "deleting")
         => active = 0 /\ attempt # "running"
    /\ NoSessionForgotten

IInv ==
    /\ AsyncTypeOK
    /\ Counted
    /\ Executed
    /\ Rebuilding
    /\ Posting
    /\ FirstSession
    /\ Ending

-----------------------------------------------------------------------------
\* A finite set of which at most one element comes or goes.
LEMMA CountOne ==
    ASSUME NEW S, NEW T, NEW x, IsFiniteSet(S), IsFiniteSet(T), S \ {x} = T \ {x}
    PROVE  /\ Cardinality(S) \in Nat /\ Cardinality(T) \in Nat
           /\ Cardinality(T) + One(x \in S) = Cardinality(S) + One(x \in T)
<1>1. Cardinality(S) \in Nat /\ Cardinality(T) \in Nat
  BY FS_CardinalityType
<1>2. Cardinality(S \ {x}) = Cardinality(S) - One(x \in S)
  BY <1>1, FS_RemoveElement DEF One
<1>3. Cardinality(T \ {x}) = Cardinality(T) - One(x \in T)
  BY <1>1, FS_RemoveElement DEF One
<1>4. QED
  BY <1>1, <1>2, <1>3 DEF One

\* Every set of requests is finite and no larger than that of all.
LEMMA CountRequests ==
    ASSUME NEW S \in SUBSET Requests
    PROVE  /\ IsFiniteSet(S)
           /\ Cardinality(S) \in Nat /\ Cardinality(Requests) \in Nat
           /\ Cardinality(S) <= Cardinality(Requests)
<1>1. IsFiniteSet(S) /\ Cardinality(S) <= Cardinality(Requests)
  BY FS_Subset, GoTransportAssumption
<1>2. QED
  BY <1>1, FS_CardinalityType, GoTransportAssumption

\* A step of one request moves that request and no other from set to set.
LEMMA CountMoved ==
    ASSUME NEW r \in Requests, \A q \in Requests \ {r} : req'[q] = req[q]
    PROVE  /\ Cardinality(Inside') + One(r \in Inside)
                 = Cardinality(Inside) + One(r \in Inside')
           /\ Cardinality(Awaiting') + One(r \in Awaiting)
                 = Cardinality(Awaiting) + One(r \in Awaiting')
           /\ Cardinality(Fresh') + One(r \in Fresh)
                 = Cardinality(Fresh) + One(r \in Fresh')
           /\ Cardinality(Unsent') + One(r \in Unsent)
                 = Cardinality(Unsent) + One(r \in Unsent')
<1>1. /\ Inside \in SUBSET Requests /\ Inside' \in SUBSET Requests
      /\ Inside \ {r} = Inside' \ {r}
  BY DEF Inside
<1>2. /\ Awaiting \in SUBSET Requests /\ Awaiting' \in SUBSET Requests
      /\ Awaiting \ {r} = Awaiting' \ {r}
  BY DEF Awaiting
<1>3. /\ Fresh \in SUBSET Requests /\ Fresh' \in SUBSET Requests
      /\ Fresh \ {r} = Fresh' \ {r}
  BY DEF Fresh
<1>4. /\ Unsent \in SUBSET Requests /\ Unsent' \in SUBSET Requests
      /\ Unsent \ {r} = Unsent' \ {r}
  BY DEF Unsent
<1>5. QED
  BY <1>1, <1>2, <1>3, <1>4, CountRequests, CountOne

\* All counts are numbers, and not zero for a set that has an element.
LEMMA CountTypes ==
    /\ Cardinality(Requests) \in Nat
    /\ Cardinality(Inside) \in 0 .. Cardinality(Requests)
    /\ Cardinality(Awaiting) \in 0 .. Cardinality(Requests)
    /\ Cardinality(Fresh) \in 0 .. Cardinality(Requests)
    /\ Cardinality(Unsent) \in 0 .. Cardinality(Requests)
    /\ (Inside = {} <=> Cardinality(Inside) = 0)
    /\ (Awaiting = {} <=> Cardinality(Awaiting) = 0)
    /\ (Fresh = {} <=> Cardinality(Fresh) = 0)
    /\ (Unsent = {} <=> Cardinality(Unsent) = 0)
<1>1. /\ Inside \in SUBSET Requests /\ Awaiting \in SUBSET Requests
      /\ Fresh \in SUBSET Requests /\ Unsent \in SUBSET Requests
  BY DEF Inside, Awaiting, Fresh, Unsent
<1>2. QED
  BY <1>1, CountRequests, FS_EmptySet

\* The bounds of the types, as numbers.
LEMMA Bounds ==
    /\ Sessions = 1 .. (2 * Cardinality(Requests) + 1)
    /\ Cardinality(Sessions) = 2 * Cardinality(Requests) + 1
    /\ Cardinality(Sessions) \in Nat /\ Generations \subseteq Nat /\ None \notin Nat \cup Results
<1>1. Cardinality(Requests) \in Nat
  BY CountTypes
<1>2. Cardinality(1 .. (2 * Cardinality(Requests) + 1)) = 2 * Cardinality(Requests) + 1
  BY <1>1, FS_Interval
<1>3. QED
  BY <1>1, <1>2, GoTransportAssumption DEF Sessions, Generations

\* A transport starts without a session, with nobody inside.
LEMMA InitIInv == AsyncInit => IInv
<1> SUFFICES ASSUME AsyncInit PROVE IInv
  OBVIOUS
<1> USE CountTypes, Bounds DEF AsyncInit, Init, Outside, At
<1>1. AsyncTypeOK
  <2>1. managed \in BOOLEAN /\ rebuilding \in BOOLEAN /\ closing \in BOOLEAN
          /\ closed \in BOOLEAN /\ async \in BOOLEAN
    OBVIOUS
  <2>2. 0 \in Generations /\ made \in 0 .. Cardinality(Sessions)
    BY DEF Generations
  <2>3. req \in Locals
    BY <2>2 DEF Locals
  <2>4. QED
    BY <2>1, <2>2, <2>3 DEF AsyncTypeOK, TypeOK, Results, Locals
<1>2. Counted
  <2>1. Inside = {} /\ Awaiting = {}
    BY DEF Inside, Awaiting
  <2>2. QED
    BY <2>1 DEF Counted, One
<1>3. Executed
  BY DEF Executed, OutcomeIsHonest, Results
<1>4. Rebuilding
  <2>1. /\ failure.generation = None /\ None # generation /\ ~rebuilding
        /\ \A g \in Generations : rebuilds[g] = 0
    OBVIOUS
  <2>2. generation \in Generations
    BY DEF Generations
  <2>3. QED
    BY <2>1, <2>2 DEF Rebuilding, OneRebuild, One
<1>5. Posting
  BY DEF Posting
<1>6. FirstSession
  BY DEF FirstSession
<1>7. Ending
  BY DEF Ending, NoSessionForgotten
<1>8. QED
  BY <1>1, <1>2, <1>3, <1>4, <1>5, <1>6, <1>7 DEF IInv

-----------------------------------------------------------------------------
\* A sum that does not grow stays below its bound, when parts are exchanged for others.
LEMMA SumKept ==
    ASSUME NEW x \in Int, NEW y \in Int, NEW x1 \in Int, NEW y1 \in Int,
           NEW w \in Int, NEW z \in Int, NEW w1 \in Int, NEW z1 \in Int,
           NEW rest \in Int, NEW rest1 \in Int, NEW bound \in Int,
           x1 + w = x + w1, y1 + z = y + z1,
           rest1 + w1 + z1 <= rest + w + z,
           rest + x + y <= bound
    PROVE  rest1 + x1 + y1 <= bound
OBVIOUS

\* What a step of one request has to show of the counters.
LEMMA CountedStep ==
    ASSUME AsyncTypeOK, Counted,
           NEW r \in Requests, \A q \in Requests \ {r} : req'[q] = req[q],
           active' \in Int, active' + One(r \in Inside) = active + One(r \in Inside'),
           waiters' \in Int, waiters' + One(r \in Awaiting) = waiters + One(r \in Awaiting'),
           generation' \in Nat,
           generation' + One(r \in Unsent') <= generation + One(r \in Unsent),
           made' \in Nat,
           made' + One(opened' = "new") + One(attempt' = "running")
               + One(r \in Fresh') + One(r \in Unsent')
             <= made + One(opened = "new") + One(attempt = "running")
                  + One(r \in Fresh) + One(r \in Unsent)
    PROVE  /\ Counted'
           /\ active' \in 0 .. Cardinality(Requests) /\ waiters' \in 0 .. Cardinality(Requests)
           /\ generation' \in Generations /\ made' \in 0 .. Cardinality(Sessions)
<1> DEFINE size  == Cardinality(Requests)
           rest  == made + One(opened = "new") + One(attempt = "running")
           rest1 == made' + One(opened' = "new") + One(attempt' = "running")
<1>1. /\ One(opened = "new") \in {0, 1} /\ One(attempt = "running") \in {0, 1}
      /\ One(opened' = "new") \in {0, 1} /\ One(attempt' = "running") \in {0, 1}
  BY DEF One
<1>2. /\ Inside' \in SUBSET Requests /\ Awaiting' \in SUBSET Requests
      /\ Fresh' \in SUBSET Requests /\ Unsent' \in SUBSET Requests
  BY DEF Inside, Awaiting, Fresh, Unsent
<1>3. /\ Cardinality(Inside') \in 0 .. size /\ Cardinality(Awaiting') \in 0 .. size
      /\ Cardinality(Fresh') \in 0 .. size /\ Cardinality(Unsent') \in 0 .. size
  BY <1>2, CountRequests
<1>4. /\ size \in Nat
      /\ Cardinality(Inside) \in 0 .. size /\ Cardinality(Awaiting) \in 0 .. size
      /\ Cardinality(Fresh) \in 0 .. size /\ Cardinality(Unsent) \in 0 .. size
  BY CountTypes
<1>5. made \in Nat /\ generation \in Nat
  BY Bounds DEF AsyncTypeOK, TypeOK
<1>6. /\ One(r \in Inside) \in Int /\ One(r \in Inside') \in Int
      /\ One(r \in Awaiting) \in Int /\ One(r \in Awaiting') \in Int
      /\ One(r \in Fresh) \in Int /\ One(r \in Fresh') \in Int
      /\ One(r \in Unsent) \in Int /\ One(r \in Unsent') \in Int
      /\ rest \in Nat /\ rest1 \in Nat /\ made' <= rest1
  <2>1. /\ One(r \in Inside) \in Int /\ One(r \in Inside') \in Int
        /\ One(r \in Awaiting) \in Int /\ One(r \in Awaiting') \in Int
        /\ One(r \in Fresh) \in Int /\ One(r \in Fresh') \in Int
        /\ One(r \in Unsent) \in Int /\ One(r \in Unsent') \in Int
    BY DEF One
  <2>2. QED
    BY <1>1, <1>5, <2>1
<1>7. active' = Cardinality(Inside') /\ waiters' = Cardinality(Awaiting')
  BY <1>3, <1>4, <1>6, CountMoved DEF Counted
<1>8. generation' + Cardinality(Unsent') <= size
  BY <1>3, <1>4, <1>5, <1>6, CountMoved DEF Counted
<1>9. rest1 + Cardinality(Fresh') + Cardinality(Unsent') <= 2 * size + 1
  <2>1. rest + Cardinality(Fresh) + Cardinality(Unsent) <= 2 * size + 1
    BY DEF Counted
  <2>2. rest1 + One(r \in Fresh') + One(r \in Unsent')
          <= rest + One(r \in Fresh) + One(r \in Unsent)
    OBVIOUS
  <2> HIDE DEF rest, rest1
  <2>3. QED
    BY <1>3, <1>4, <1>6, <2>1, <2>2, CountMoved, SumKept
<1>10. Counted'
  BY <1>7, <1>8, <1>9 DEF Counted
<1>11. generation' <= size /\ made' <= 2 * size + 1
  BY <1>3, <1>4, <1>6, <1>8, <1>9
<1>12. QED
  BY <1>3, <1>4, <1>7, <1>10, <1>11, Bounds DEF Generations

\* handle_request ends outside a rebuild, with an honest result, wherever it was.
LEMMA EndedIInv ==
    ASSUME IInv,
           NEW r \in Requests, req[r].at \notin {"idle", "done", "create"},
           NEW result \in Results \cup {"cancelled"}, Ended(r, result),
           NEW ran \in {0, 1}, executed' = [executed EXCEPT ![r] = @ + ran],
           result = "ok" => ran = 1,
           result = "notfound" => ran = 0,
           managed /\ result = "unavailable" => ran = 0,
           UNCHANGED <<mode, service, state, ending, async>>,
           \/ ~At(r, "await") /\ UNCHANGED first
           \/ At(r, "await") /\ Left
    PROVE  IInv'
<1> USE DEF IInv, AsyncTypeOK, TypeOK, At, mode, service, state, ending
<1>1. /\ req' = [req EXCEPT ![r] = [at |-> "done", session |-> None, generation |-> 0,
                                     resent |-> FALSE]]
      /\ outcome' = [outcome EXCEPT ![r] = result]
      /\ active' = active - 1
  BY DEF Ended, Outside
<1>2. /\ r \in Inside /\ r \notin Inside' /\ r \notin Awaiting' /\ r \notin Fresh'
      /\ r \notin Unsent' /\ (r \in Awaiting <=> At(r, "await"))
  BY <1>1 DEF Inside, Awaiting, Fresh, Unsent
<1>3. /\ waiters' = waiters - One(At(r, "await"))
      /\ attempt' \in {attempt, "none"}
      /\ attempt' = "made" => attempt = "made"
      /\ ~async => attempt' = "none" /\ waiters' = 0
  BY DEF Left, first, One, Counted, FirstSession
<1>4. /\ Counted'
      /\ active' \in 0 .. Cardinality(Requests) /\ waiters' \in 0 .. Cardinality(Requests)
  <2>1. \A q \in Requests \ {r} : req'[q] = req[q]
    BY <1>1
  <2>2. /\ active' \in Int /\ waiters' \in Int /\ generation \in Nat /\ made \in Nat
    BY <1>1, <1>3, CountTypes, Bounds, SMTT(30) DEF One
  <2>3. /\ active' + One(r \in Inside) = active + One(r \in Inside')
        /\ waiters' + One(r \in Awaiting) = waiters + One(r \in Awaiting')
        /\ generation' + One(r \in Unsent') <= generation + One(r \in Unsent)
    BY <1>1, <1>2, <1>3, <2>2, CountTypes DEF One
  <2>4. made' + One(opened' = "new") + One(attempt' = "running")
               + One(r \in Fresh') + One(r \in Unsent')
             <= made + One(opened = "new") + One(attempt = "running")
                  + One(r \in Fresh) + One(r \in Unsent)
    BY <1>2, <1>3, <2>2 DEF One
  <2>5. QED
    BY <2>1, <2>2, <2>3, <2>4, CountedStep
<1>5. AsyncTypeOK'
  <2>1. executed' \in [Requests -> 0 .. 2]
    BY DEF Executed
  <2>2. 0 \in Generations
    BY CountTypes DEF Generations
  <2>3. QED
    BY <1>1, <1>3, <1>4, <2>1, <2>2
<1>6. Executed'
  BY <1>1 DEF Executed, OutcomeIsHonest
<1>7. Rebuilding'
  BY <1>1 DEF Rebuilding, OneRebuild
<1>8. Posting'
  <2>1. 0 <= generation
    BY Bounds
  <2>2. QED
    BY <1>1, <2>1 DEF Posting
<1>9. FirstSession'
  <2>1. opened = "open"
    BY DEF FirstSession
  <2>2. \A q \in Requests : req'[q].at \in {req[q].at, "done"}
    BY <1>1
  <2>3. QED
    BY <1>3, <2>1, <2>2 DEF FirstSession
<1>10. Ending'
  <2>1. active # 0
    BY <1>2, CountTypes DEF Counted
  <2>2. QED
    BY <2>1, <1>3 DEF Ending, NoSessionForgotten
<1>11. QED
  BY <1>4, <1>5, <1>6, <1>7, <1>8, <1>9, <1>10

\* A request is sent to the session there is: the first time, or again.
LEMMA SentIInv ==
    ASSUME IInv,
           NEW r \in Requests, req[r].at \in {"idle", "ensure", "await", "rebuild"},
           req' \in Locals, \A q \in Requests \ {r} : req'[q] = req[q],
           req'[r].at = "post", req'[r].session = clientId,
           req'[r].generation <= generation, ~req'[r].resent => ~req[r].resent,
           clientId # None, opened = "open", At(r, "idle") => ~closing,
           active' = active + One(At(r, "idle")),
           UNCHANGED <<mode, service, state, executed, outcome, ending, async>>,
           \/ ~At(r, "await") /\ UNCHANGED first
           \/ At(r, "await") /\ Left
    PROVE  IInv'
<1> USE DEF IInv, AsyncTypeOK, TypeOK, At, mode, service, state, ending
<1>1. /\ (r \in Inside <=> ~At(r, "idle")) /\ r \in Inside'
      /\ (r \in Awaiting <=> At(r, "await")) /\ r \notin Awaiting'
      /\ r \notin Fresh' /\ (r \in Unsent' => r \in Unsent)
  BY DEF Inside, Awaiting, Fresh, Unsent
<1>2. /\ waiters' = waiters - One(At(r, "await"))
      /\ attempt' \in {attempt, "none"}
      /\ attempt' = "made" => attempt = "made"
      /\ ~async => attempt' = "none" /\ waiters' = 0
  BY DEF Left, first, One, Counted, FirstSession
<1>3. /\ Counted'
      /\ active' \in 0 .. Cardinality(Requests) /\ waiters' \in 0 .. Cardinality(Requests)
  <2>1. \A q \in Requests \ {r} : req'[q] = req[q]
    OBVIOUS
  <2>2. /\ active' \in Int /\ waiters' \in Int /\ generation \in Nat /\ made \in Nat
    BY <1>2, CountTypes, Bounds DEF One
  <2>3. /\ active' + One(r \in Inside) = active + One(r \in Inside')
        /\ waiters' + One(r \in Awaiting) = waiters + One(r \in Awaiting')
        /\ generation' + One(r \in Unsent') <= generation + One(r \in Unsent)
    BY <1>1, <1>2, <2>2, CountTypes DEF One
  <2>4. made' + One(opened' = "new") + One(attempt' = "running")
               + One(r \in Fresh') + One(r \in Unsent')
             <= made + One(opened = "new") + One(attempt = "running")
                  + One(r \in Fresh) + One(r \in Unsent)
    BY <1>1, <1>2, <2>2 DEF One
  <2>5. QED
    BY <2>1, <2>2, <2>3, <2>4, CountedStep
<1>4. AsyncTypeOK'
  BY <1>2, <1>3 DEF Locals
<1>5. Executed'
  BY DEF Executed, OutcomeIsHonest
<1>6. Rebuilding'
  <2>1. \A q \in Requests : req'[q].at = "create" => q # r /\ req'[q] = req[q]
    OBVIOUS
  <2>2. QED
    BY <2>1 DEF Rebuilding, OneRebuild
<1>7. Posting'
  <2>1. clientId \in Sessions /\ clientId <= made
    BY DEF Posting
  <2>2. QED
    BY <2>1 DEF Posting
<1>8. FirstSession'
  BY <1>2 DEF FirstSession
<1>9. Ending'
  <2>1. ~At(r, "idle") => active # 0
    BY <1>1, CountTypes DEF Counted
  <2>2. QED
    BY <2>1, <1>2 DEF Ending, NoSessionForgotten
<1>10. QED
  BY <1>3, <1>4, <1>5, <1>6, <1>7, <1>8, <1>9

\* A request that comes to a transport that is closing is refused at once.
LEMMA RefusedIInv ==
    ASSUME IInv, NEW r \in Requests, At(r, "idle"), opened = "open",
           req' = [req EXCEPT ![r].at = "done"],
           outcome' = [outcome EXCEPT ![r] = "unavailable"],
           UNCHANGED <<active, mode, service, state, executed, ending, async, first>>
    PROVE  IInv'
<1> USE DEF IInv, AsyncTypeOK, TypeOK, At, mode, service, state, ending, first
<1>1. /\ r \notin Inside /\ r \notin Inside' /\ r \notin Awaiting /\ r \notin Awaiting'
      /\ r \notin Fresh' /\ r \notin Unsent'
  BY DEF Inside, Awaiting, Fresh, Unsent
<1>2. Counted'
  <2>1. \A q \in Requests \ {r} : req'[q] = req[q]
    OBVIOUS
  <2>2. /\ active \in Int /\ waiters \in Int /\ generation \in Nat /\ made \in Nat
    BY CountTypes, Bounds
  <2>3. /\ active' + One(r \in Inside) = active + One(r \in Inside')
        /\ waiters' + One(r \in Awaiting) = waiters + One(r \in Awaiting')
        /\ generation' + One(r \in Unsent') <= generation + One(r \in Unsent)
    BY <1>1, <2>2 DEF One
  <2>4. made' + One(opened' = "new") + One(attempt' = "running")
               + One(r \in Fresh') + One(r \in Unsent')
             <= made + One(opened = "new") + One(attempt = "running")
                  + One(r \in Fresh) + One(r \in Unsent)
    BY <1>1, <2>2 DEF One
  <2>5. QED
    BY <2>1, <2>2, <2>3, <2>4, CountedStep
<1>3. AsyncTypeOK'
  BY DEF Results
<1>4. Executed'
  BY DEF Executed, OutcomeIsHonest
<1>5. Rebuilding'
  BY DEF Rebuilding, OneRebuild
<1>6. Posting'
  BY DEF Posting
<1>7. FirstSession' /\ Ending'
  BY DEF FirstSession, Ending, NoSessionForgotten
<1>8. QED
  BY <1>2, <1>3, <1>4, <1>5, <1>6, <1>7

-----------------------------------------------------------------------------
\* handle_request of the synchronous transport begins.
LEMMA EnterIInv ==
    ASSUME IInv, NEW r \in Requests, Enter(r), ~async, UNCHANGED <<async, first>>
    PROVE  IInv'
<1> USE DEF Enter, Refused
<1>1. CASE closing \/ closed
  BY <1>1, RefusedIInv
<1>2. CASE ~(closing \/ closed)
  <2>1. clientId # None
    BY <1>2 DEF IInv, FirstSession
  <2>2. generation \in Generations /\ generation <= generation
    BY Bounds DEF IInv, AsyncTypeOK, TypeOK
  <2>3. /\ req' \in Locals /\ \A q \in Requests \ {r} : req'[q] = req[q]
        /\ req'[r].at = "post" /\ req'[r].session = clientId
        /\ req'[r].generation <= generation
        /\ ~req'[r].resent => ~req[r].resent
    <3>1. req' = [req EXCEPT ![r].at = "post", ![r].session = clientId,
                             ![r].generation = generation]
      BY <1>2
    <3>2. req \in Locals /\ clientId \in Sessions \cup {None}
      BY DEF IInv, AsyncTypeOK, TypeOK, Locals
    <3>3. QED
      BY ONLY <2>2, <3>1, <3>2 DEF Locals
  <2>4. active' = active + One(At(r, "idle")) /\ ~At(r, "await")
    BY <1>2 DEF One, At
  <2>5. QED
    BY <1>2, <2>1, <2>2, <2>3, <2>4, SentIInv DEF At, calls
<1>3. QED
  BY <1>1, <1>2

\* executed is a function, so that a request that did not run leaves it alone.
LEMMA NotRun ==
    ASSUME AsyncTypeOK, NEW r \in Requests, UNCHANGED executed
    PROVE  executed' = [executed EXCEPT ![r] = @ + 0]
BY DEF AsyncTypeOK, TypeOK

\* One exchange with the service: it ends the request, unless the session is gone.
LEMMA PostIInv ==
    ASSUME IInv, NEW r \in Requests, Post(r), UNCHANGED <<async, first>>
    PROVE  IInv'
<1>1. PICK answer \in Answers, ran \in 0 .. 1 :
          /\ answer = "ok" => ran = 1
          /\ answer = "refused" => ran = 0
          /\ answer = "notfound" => ran = 0 /\ sessions[req[r].session] # "listed"
          /\ executed' = [executed EXCEPT ![r] = @ + ran]
          /\ IF Rebuilds(r, answer)
             THEN req' = [req EXCEPT ![r].at = "rebuild"] /\ UNCHANGED <<active, outcome>>
             ELSE Ended(r, Verdict(answer))
  BY DEF Post
<1>2. req[r].at = "post" /\ UNCHANGED <<mode, service, state, ending, async, first>>
  BY DEF Post, At
<1>3. CASE Rebuilds(r, answer)
  <2> USE <1>2 DEF IInv, AsyncTypeOK, TypeOK, At, mode, service, state, ending, first
  <2>1. /\ req' = [req EXCEPT ![r].at = "rebuild"] /\ UNCHANGED <<active, outcome>>
        /\ ~managed /\ ~req[r].resent /\ sessions[req[r].session] # "listed"
        /\ executed' = [executed EXCEPT ![r] = @ + 0]
    BY <1>1, <1>3 DEF Rebuilds
  <2>2. UNCHANGED executed
    BY <2>1
  <2>3. Inside' = Inside /\ Awaiting' = Awaiting /\ Fresh' = Fresh /\ Unsent' = Unsent
    BY <2>1 DEF Inside, Awaiting, Fresh, Unsent
  <2>4. AsyncTypeOK'
    <3>1. req' \in Locals
      BY <2>1 DEF Locals
    <3>2. QED
      BY <2>1, <2>2, <3>1 DEF Locals
  <2>5. Counted'
    BY <2>1, <2>3 DEF Counted
  <2>6. Executed'
    BY <2>1, <2>2 DEF Executed, OutcomeIsHonest
  <2>7. Rebuilding'
    BY <2>1 DEF Rebuilding, OneRebuild
  <2>8. Posting'
    BY <2>1 DEF Posting
  <2>9. FirstSession' /\ Ending'
    BY <2>1 DEF FirstSession, Ending, NoSessionForgotten
  <2>10. QED
    BY <2>4, <2>5, <2>6, <2>7, <2>8, <2>9
<1>4. CASE ~Rebuilds(r, answer)
  <2>1. /\ Verdict(answer) \in Results
        /\ Verdict(answer) = "ok" => ran = 1
        /\ Verdict(answer) = "notfound" => ran = 0
        /\ managed /\ Verdict(answer) = "unavailable" => ran = 0
    BY <1>1 DEF Verdict, Answers, Results
  <2>2. Ended(r, Verdict(answer)) /\ ran \in {0, 1}
    BY <1>1, <1>4
  <2>3. QED
    BY <1>1, <1>2, <2>1, <2>2, EndedIInv DEF At
<1>5. QED
  BY <1>3, <1>4

\* _rebuild without a rebuild: somebody else's session, somebody else's error, or closed.
LEMMA RebuildSharedIInv ==
    ASSUME IInv, NEW r \in Requests,
           RebuildDone(r) \/ RebuildFailed(r) \/ RebuildRefused(r), UNCHANGED <<async, first>>
    PROVE  IInv'
<1> USE DEF Decides, At
<1>1. CASE RebuildDone(r)
  <2> USE <1>1 DEF RebuildDone, IInv, AsyncTypeOK, TypeOK
  <2>1. clientId # None /\ req[r].generation <= generation
    BY DEF Posting
  <2>2. /\ req' \in Locals /\ \A q \in Requests \ {r} : req'[q] = req[q]
        /\ req'[r].at = "post" /\ req'[r].session = clientId
        /\ req'[r].generation <= generation
        /\ ~req'[r].resent => ~req[r].resent
    <3>1. Resend(r, clientId)
      OBVIOUS
    <3>2. req \in Locals /\ clientId \in Sessions \cup {None}
      BY DEF Locals
    <3>3. QED
      BY ONLY <2>1, <3>1, <3>2 DEF Resend, Locals
  <2>3. opened = "open" /\ active' = active + One(At(r, "idle")) /\ UNCHANGED outcome
    BY CountTypes, Bounds DEF FirstSession, One, calls
  <2>4. QED
    BY <2>1, <2>2, <2>3, SentIInv DEF calls
<1>2. CASE RebuildFailed(r)
  <2>1. failure.error \in {"unavailable", "error"} /\ ~managed
    BY <1>2 DEF RebuildFailed, IInv, Rebuilding, Posting
  <2>2. executed' = [executed EXCEPT ![r] = @ + 0]
    BY <1>2, NotRun DEF RebuildFailed, IInv
  <2>3. QED
    BY <1>2, <2>1, <2>2, EndedIInv DEF RebuildFailed, Results
<1>3. CASE RebuildRefused(r)
  <2>1. executed' = [executed EXCEPT ![r] = @ + 0]
    BY <1>3, NotRun DEF RebuildRefused, IInv
  <2>2. /\ Ended(r, "unavailable") /\ req[r].at = "rebuild"
        /\ UNCHANGED <<mode, service, state, ending>>
        /\ "unavailable" \in Results \cup {"cancelled"}
    BY <1>3 DEF RebuildRefused, Results
  <2>3. QED
    BY <2>1, <2>2, EndedIInv
<1>4. QED
  BY <1>1, <1>2, <1>3

\* _rebuild begins for a generation nobody rebuilds and nobody failed to rebuild.
LEMMA RebuildBeginsIInv ==
    ASSUME IInv, NEW r \in Requests, RebuildBegins(r), UNCHANGED <<async, first>>
    PROVE  IInv'
<1> USE DEF RebuildBegins, Decides, At, IInv, AsyncTypeOK, TypeOK, mode, service, ending, first
<1>1. ~rebuilding /\ generation \in Generations /\ rebuilds[generation] = 0
  BY DEF Rebuilding, One
<1>2. Inside' = Inside /\ Awaiting' = Awaiting /\ Fresh' = Fresh /\ Unsent' = Unsent
  BY DEF Inside, Awaiting, Fresh, Unsent
<1>3. AsyncTypeOK'
  <2>1. rebuilding' \in BOOLEAN
    OBVIOUS
  <2>2. rebuilds' \in [Generations -> Nat]
    OBVIOUS
  <2>3. QED
    BY <2>1, <2>2
<1>4. Counted'
  BY <1>2 DEF Counted
<1>5. Executed'
  BY DEF Executed, OutcomeIsHonest
<1>6. Rebuilding'
  <2>1. /\ rebuilding' = TRUE /\ rebuilds' = [rebuilds EXCEPT ![generation] = 1]
        /\ req' = [req EXCEPT ![r].at = "create"] /\ req[r].generation = generation
        /\ failure.generation # generation /\ UNCHANGED <<generation, failure>>
        /\ \A q \in Requests : ~At(q, "create")
    BY <1>1 DEF Rebuilding
  <2>2. rebuilds'[generation] = One(rebuilding' \/ failure'.generation = generation)
    BY <1>1, <2>1 DEF One
  <2>3. QED
    BY <1>1, <2>1, <2>2, Bounds DEF Rebuilding, OneRebuild
<1>7. Posting'
  BY DEF Posting
<1>8. FirstSession' /\ Ending'
  BY DEF FirstSession, Ending, NoSessionForgotten
<1>9. QED
  BY <1>3, <1>4, <1>5, <1>6, <1>7, <1>8

\* A session that is made is made beside the others.
LEMMA LeavesFrame ==
    ASSUME AsyncTypeOK, \A s \in Sessions : s > made => sessions[s] = "none",
           made + 1 \in Sessions, NEW creation \in Creations, Leaves(creation)
    PROVE  /\ sessions' \in [Sessions -> {"none", "listed", "gone", "stray"}]
           /\ made' \in {made, made + 1} /\ made \in Nat
           /\ creation.left = "listed" => made' = made + 1 /\ sessions'[made + 1] = "listed"
           /\ creation.left = "listed" <=> creation.error = None
           /\ creation.error # None => creation.error \in {"unavailable", "error"}
           /\ \A s \in Sessions : s # made + 1 => sessions'[s] = sessions[s]
           /\ sessions'[made + 1] = "listed" => creation.left = "listed"
           /\ \A s \in Sessions : s > made' => sessions'[s] = "none"
<1>1. /\ creation.left \in {"none", "listed", "gone", "stray"}
      /\ creation.left = "listed" <=> creation.error = None
      /\ creation.error # None => creation.error \in {"unavailable", "error"}
  BY GoTransportAssumption DEF Creations, Results
<1>2. sessions \in [Sessions -> {"none", "listed", "gone", "stray"}] /\ made \in Nat
  BY Bounds DEF AsyncTypeOK, TypeOK
<1>3. \A s \in Sessions : s \in Nat
  BY Bounds, CountTypes
<1>4. CASE creation.left = "none"
  <2>1. made + 1 > made /\ UNCHANGED <<sessions, made>>
    BY <1>2, <1>4 DEF Leaves, service
  <2>2. QED
    BY <1>1, <1>2, <1>4, <2>1
<1>5. CASE creation.left # "none"
  BY <1>1, <1>2, <1>3, <1>5 DEF Leaves
<1>6. QED
  BY <1>4, <1>5

\* Who rebuilds is alone in it, and there is room for what it makes.
LEMMA Creating ==
    ASSUME IInv, NEW r \in Requests, At(r, "create")
    PROVE  /\ req[r].at = "create" /\ ~req[r].resent /\ req[r].generation = generation
           /\ rebuilding /\ failure.generation # generation /\ rebuilds[generation] = 1
           /\ active # 0
           /\ r \in Inside /\ r \notin Awaiting /\ r \notin Fresh /\ r \in Unsent
           /\ generation \in Nat /\ generation + 1 \in Generations
           /\ made \in Nat /\ made + 1 \in Sessions /\ made + 1 \in 0 .. Cardinality(Sessions)
<1> USE DEF IInv, AsyncTypeOK, TypeOK, At
<1>1. /\ r \in Inside /\ r \notin Awaiting /\ r \notin Fresh /\ r \in Unsent
  BY DEF Inside, Awaiting, Fresh, Unsent, Posting
<1>2. Cardinality(Unsent) >= 1 /\ active # 0
  BY <1>1, CountTypes DEF Counted
<1>3. generation \in Nat /\ made \in Nat
  BY Bounds
<1>4. generation + 1 <= Cardinality(Requests)
  BY <1>2, <1>3, CountTypes DEF Counted
<1>5. made + 1 <= 2 * Cardinality(Requests) + 1
  <2>1. One(opened = "new") \in {0, 1} /\ One(attempt = "running") \in {0, 1}
    BY DEF One
  <2>2. made + One(opened = "new") + One(attempt = "running")
         + Cardinality(Fresh) + Cardinality(Unsent) <= 2 * Cardinality(Requests) + 1
    BY DEF Counted
  <2>3. QED
    BY ONLY <1>2, <1>3, <2>1, <2>2, CountTypes
<1>6. generation + 1 \in Generations
  BY <1>3, <1>4, CountTypes DEF Generations
<1>7. made + 1 \in Sessions /\ made + 1 \in 0 .. Cardinality(Sessions)
  BY ONLY <1>3, <1>5, CountTypes, Bounds
<1>8. QED
  BY <1>1, <1>2, <1>3, <1>6, <1>7 DEF Rebuilding, Posting, One

\* A rebuild that ends without a session leaves the old one, and its error to all who
\* meant it, unless it was cancelled.
LEMMA RebuildLostIInv ==
    ASSUME IInv, NEW r \in Requests, At(r, "create"),
           NEW creation \in Creations, creation.left # "listed", Leaves(creation),
           NEW result \in {"unavailable", "error", "cancelled"}, Ended(r, result),
           ~rebuilding', rebuilding' \in BOOLEAN,
           UNCHANGED <<mode, clientId, generation, executed, ending, async, first>>,
           \/ /\ result # "cancelled" /\ UNCHANGED rebuilds
              /\ failure' = [generation |-> generation, error |-> result]
           \/ /\ rebuilds' = [rebuilds EXCEPT ![generation] = @ - 1] /\ UNCHANGED failure
    PROVE  IInv'
<1> USE DEF IInv, AsyncTypeOK, TypeOK, At, mode, ending, first
<1>1. /\ req' = [req EXCEPT ![r] = [at |-> "done", session |-> None, generation |-> 0,
                                     resent |-> FALSE]]
      /\ outcome' = [outcome EXCEPT ![r] = result]
      /\ active' = active - 1
  BY DEF Ended, Outside
<1>2. /\ req[r].at = "create" /\ ~req[r].resent /\ req[r].generation = generation
      /\ rebuilding /\ failure.generation # generation /\ rebuilds[generation] = 1
      /\ active # 0
  BY Creating
<1>3. /\ r \in Inside /\ r \notin Awaiting /\ r \notin Fresh /\ r \in Unsent
      /\ generation \in Nat /\ made \in Nat /\ made + 1 \in Sessions
      /\ made + 1 \in 0 .. Cardinality(Sessions)
  BY Creating
<1>4. /\ sessions' \in [Sessions -> {"none", "listed", "gone", "stray"}]
      /\ made' \in {made, made + 1} /\ made' >= made
      /\ made' \in 0 .. Cardinality(Sessions)
      /\ \A s \in Sessions : s # made + 1 => sessions'[s] = sessions[s]
      /\ sessions'[made + 1] # "listed"
      /\ \A s \in Sessions : s > made' => sessions'[s] = "none"
  <2>1. \A s \in Sessions : s > made => sessions[s] = "none"
    BY DEF Posting
  <2>2. made' \in {made, made + 1}
    BY <1>3, <2>1, LeavesFrame
  <2>3. made' >= made /\ made' \in 0 .. Cardinality(Sessions)
    BY <1>3, <2>2
  <2>4. QED
    BY <1>3, <2>1, <2>2, <2>3, LeavesFrame
<1>5. \A q \in Requests : req'[q].at # "done" => q # r /\ req'[q] = req[q]
  BY <1>1
<1>6. Counted' /\ active' \in 0 .. Cardinality(Requests)
  <2>1. /\ r \notin Inside' /\ r \notin Awaiting' /\ r \notin Fresh' /\ r \notin Unsent'
        /\ \A q \in Requests \ {r} : req'[q] = req[q]
    BY <1>1 DEF Inside, Awaiting, Fresh, Unsent
  <2>2. /\ active' \in Int /\ waiters' \in Int /\ generation' \in Nat /\ made' \in Nat
    BY <1>1, <1>3, <1>4, CountTypes
  <2>3. /\ active' + One(r \in Inside) = active + One(r \in Inside')
        /\ waiters' + One(r \in Awaiting) = waiters + One(r \in Awaiting')
        /\ generation' + One(r \in Unsent') <= generation + One(r \in Unsent)
    BY <1>1, <1>3, <2>1, <2>2, CountTypes DEF One
  <2>4. made' + One(opened' = "new") + One(attempt' = "running")
               + One(r \in Fresh') + One(r \in Unsent')
             <= made + One(opened = "new") + One(attempt = "running")
                  + One(r \in Fresh) + One(r \in Unsent)
    BY <1>3, <1>4, <2>1, <2>2 DEF One
  <2>5. QED
    BY <2>1, <2>2, <2>3, <2>4, CountedStep
<1>7. AsyncTypeOK'
  <2>1. failure' \in [generation : Generations \cup {None}, error : Results \cup {None}]
    BY DEF Results
  <2>2. rebuilds' \in [Generations -> Nat]
    BY <1>2
  <2>3. req' \in Locals /\ outcome' \in [Requests -> Results \cup {"cancelled", None}]
    BY <1>1, CountTypes DEF Locals, Generations, Results
  <2>4. QED
    BY <1>4, <1>6, <2>1, <2>2, <2>3 DEF Locals
<1>8. Executed'
  BY <1>1, <1>2 DEF Executed, OutcomeIsHonest
<1>9. Rebuilding'
  <2>1. \A q \in Requests : req'[q].at # "create"
    BY <1>2, <1>5 DEF Rebuilding
  <2>2. /\ rebuilds' \in [Generations -> Nat] /\ generation \in Generations
        /\ \A g \in Generations \ {generation} : rebuilds'[g] = rebuilds[g]
    BY <1>2
  <2>3. /\ rebuilds'[generation] = One(failure'.generation = generation)
        /\ rebuilds'[generation] <= 1
    BY <1>2, <2>2 DEF One
  <2>4. QED
    BY <2>1, <2>2, <2>3, Bounds, SMTT(30) DEF Rebuilding, OneRebuild, One
<1>10. Posting'
  <2>1. \A q \in Requests : req'[q].generation <= generation
    BY <1>1, <1>3 DEF Posting
  <2>2. ASSUME NEW q \in Requests, req'[q].at \in {"post", "rebuild", "create"}
        PROVE  /\ req'[q] = req[q] /\ clientId # None
               /\ req[q].session \in Sessions /\ req[q].session <= made
               /\ sessions'[req[q].session] = sessions[req[q].session]
    <3>1. req'[q] = req[q]
      BY <1>5, <2>2
    <3>2. clientId # None /\ req[q].session \in Sessions /\ req[q].session <= made
      BY <2>2, <3>1 DEF Posting
    <3>3. req[q].session # made + 1
      BY <1>3, <3>2, Bounds, CountTypes
    <3>4. QED
      BY <1>4, <3>1, <3>2, <3>3
  <2>3. \A q \in Requests : req'[q].at \in {"post", "rebuild", "create"} =>
            req'[q].session <= made'
    <3>1. \A s \in Sessions : s <= made => s <= made'
      BY <1>3, <1>4, Bounds, CountTypes
    <3>2. QED
      BY <2>2, <3>1
  <2>4. clientId # None => clientId <= made'
    BY <1>3, <1>4, Bounds, CountTypes, SMTT(30) DEF Posting
  <2>5. QED
    BY <1>4, <2>1, <2>2, <2>3, <2>4 DEF Posting
<1>11. FirstSession'
  BY <1>2, <1>5 DEF FirstSession
<1>12. Ending'
  <2>1. \A s \in Sessions : sessions'[s] = "listed" => sessions[s] = "listed"
    BY <1>4
  <2>2. QED
    BY <1>2, <2>1 DEF Ending, NoSessionForgotten
<1>13. QED
  BY <1>6, <1>7, <1>8, <1>9, <1>10, <1>11, <1>12

\* A rebuild ends with a new session of a new generation, or with an error that is kept.
LEMMA RebuildEndsIInv ==
    ASSUME IInv, NEW r \in Requests, RebuildEnds(r), UNCHANGED <<async, first>>
    PROVE  IInv'
<1> USE DEF IInv, AsyncTypeOK, TypeOK, At, mode, ending, first
<1>1. PICK creation \in Creations :
          /\ Leaves(creation)
          /\ IF creation.error = None
             THEN /\ clientId' = made + 1 /\ generation' = generation + 1
                  /\ failure' = [generation |-> None, error |-> None]
                  /\ Resend(r, made + 1)
                  /\ UNCHANGED <<active, outcome>>
             ELSE /\ failure' = [generation |-> generation, error |-> creation.error]
                  /\ Ended(r, creation.error)
                  /\ UNCHANGED <<clientId, generation>>
  BY DEF RebuildEnds
<1>2. /\ req[r].at = "create" /\ ~req[r].resent /\ req[r].generation = generation
      /\ rebuilding /\ ~rebuilding' /\ rebuilding' \in BOOLEAN /\ active # 0
      /\ UNCHANGED <<managed, opened, rebuilds, executed, ending, async, first>>
  BY Creating DEF RebuildEnds
<1>3. /\ r \in Inside /\ r \notin Awaiting /\ r \notin Fresh /\ r \in Unsent
      /\ generation \in Nat /\ generation + 1 \in Generations
      /\ made \in Nat /\ made + 1 \in Sessions /\ made + 1 \in 0 .. Cardinality(Sessions)
  BY Creating DEF RebuildEnds
<1>4. /\ sessions' \in [Sessions -> {"none", "listed", "gone", "stray"}]
      /\ made' \in {made, made + 1}
      /\ creation.error = None => made' = made + 1
      /\ creation.error # None => creation.error \in {"unavailable", "error"}
      /\ \A s \in Sessions : s # made + 1 => sessions'[s] = sessions[s]
      /\ sessions'[made + 1] = "listed" => creation.error = None
      /\ \A s \in Sessions : s > made' => sessions'[s] = "none"
  BY <1>1, <1>3, LeavesFrame DEF Posting
<1>5. made' \in 0 .. Cardinality(Sessions) /\ made' >= made
  <2>1. made \in Nat /\ made \in 0 .. Cardinality(Sessions) /\ made + 1 \in 0 .. Cardinality(Sessions)
    BY <1>3
  <2>2. made' = made \/ made' = made + 1
    BY ONLY <1>4
  <2>3. QED
    BY ONLY <2>1, <2>2
<1>6. \A s \in Sessions : s # made + 1 => sessions'[s] # "listed"
  BY <1>2, <1>4 DEF Ending, NoSessionForgotten, Posting
<1>7. CASE creation.error = None
  <2>1. /\ clientId' = made + 1 /\ generation' = generation + 1 /\ made' = made + 1
        /\ failure' = [generation |-> None, error |-> None]
        /\ Resend(r, made + 1) /\ UNCHANGED <<active, outcome>>
    BY <1>1, <1>4, <1>7
  <2>2. /\ req' \in Locals /\ \A q \in Requests \ {r} : req'[q] = req[q]
        /\ req'[r].at = "post" /\ req'[r].session = made + 1 /\ req'[r].resent
        /\ req'[r].generation = generation
    <3>1. req \in Locals /\ made + 1 \in Sessions
      BY <1>3 DEF Locals
    <3>2. QED
      BY ONLY <1>2, <2>1, <3>1 DEF Resend, Locals
  <2>3. Counted' /\ active' \in 0 .. Cardinality(Requests)
    <3>1. r \in Inside' /\ r \notin Awaiting' /\ r \notin Fresh' /\ r \notin Unsent'
      BY <2>2 DEF Inside, Awaiting, Fresh, Unsent
    <3>2. /\ active' \in Int /\ waiters' \in Int /\ generation' \in Nat /\ made' \in Nat
      BY <1>2, <1>3, <2>1, CountTypes
    <3>3. /\ active' + One(r \in Inside) = active + One(r \in Inside')
          /\ waiters' + One(r \in Awaiting) = waiters + One(r \in Awaiting')
          /\ generation' + One(r \in Unsent') <= generation + One(r \in Unsent)
      BY <1>2, <1>3, <2>1, <3>1, <3>2 DEF One
    <3>4. made' + One(opened' = "new") + One(attempt' = "running")
               + One(r \in Fresh') + One(r \in Unsent')
             <= made + One(opened = "new") + One(attempt = "running")
                  + One(r \in Fresh) + One(r \in Unsent)
      BY <1>2, <1>3, <2>1, <3>1, <3>2 DEF One
    <3>5. QED
      BY <2>2, <3>2, <3>3, <3>4, CountedStep
  <2>4. AsyncTypeOK'
    BY <1>2, <1>3, <1>4, <1>5, <2>1, <2>2, <2>3 DEF Locals
  <2>5. Executed'
    BY <1>2, <2>1, <2>2 DEF Executed, OutcomeIsHonest
  <2>6. Rebuilding'
    <3>1. \A q \in Requests : req'[q].at # "create"
      BY <1>2, <2>2 DEF Rebuilding
    <3>2. rebuilds[generation + 1] = 0 /\ None \notin Nat
      BY <1>3, GoTransportAssumption DEF Rebuilding
    <3>3. rebuilds'[generation'] = One(rebuilding' \/ failure'.generation = generation')
      BY <1>2, <1>3, <2>1, <3>2 DEF One
    <3>4. \A g \in Generations : g > generation' => g > generation
      BY <1>3, <2>1, Bounds
    <3>5. QED
      BY <1>2, <1>3, <2>1, <3>1, <3>2, <3>3, <3>4 DEF Rebuilding, OneRebuild
  <2>7. Posting'
    <3>1. \A q \in Requests : req'[q].generation <= generation'
      <4>1. \A g \in Generations : g <= generation => g <= generation + 1
        <5>1. \A g \in Generations : g \in Nat
          BY Bounds
        <5>2. QED
          BY ONLY <1>3, <5>1
      <4>2. \A q \in Requests : req[q].generation <= generation /\ req[q].generation \in Generations
        BY DEF Posting
      <4>3. generation \in Generations /\ generation <= generation
        BY <1>3
      <4>4. \A q \in Requests : req'[q].generation \in {generation, req[q].generation}
        BY <2>2
      <4>5. QED
        BY <2>1, <4>1, <4>2, <4>3, <4>4
    <3>2. ASSUME NEW q \in Requests, req'[q].at \in {"post", "rebuild", "create"}
          PROVE  /\ clientId' # None
                 /\ req'[q].session \in Sessions /\ req'[q].session <= made'
                 /\ ~req'[q].resent /\ req'[q].generation = generation'
                       => req'[q].session = clientId'
      <4>1. clientId' # None
        BY <1>3, <2>1, GoTransportAssumption
      <4>2. CASE q = r
        BY <1>3, <2>1, <2>2, <4>1, <4>2
      <4>3. CASE q # r
        BY <1>3, <2>1, <2>2, <3>2, <4>1, <4>3, Bounds DEF Posting
      <4>4. QED
        BY <4>2, <4>3
    <3>3. ASSUME NEW q \in Requests, req'[q].at \in {"rebuild", "create"}
          PROVE  ~managed /\ ~req'[q].resent /\ sessions'[req'[q].session] # "listed"
      <4>1. q # r /\ req'[q] = req[q]
        BY <2>2, <3>3
      <4>2. req[q].session \in Sessions /\ req[q].session # made + 1
        BY <1>3, <3>3, <4>1, Bounds DEF Posting
      <4>3. QED
        BY <1>4, <3>3, <4>1, <4>2 DEF Posting
    <3>4. QED
      BY <1>2, <1>3, <1>4, <2>1, <3>1, <3>2, <3>3 DEF Posting
  <2>8. FirstSession'
    BY <1>2, <1>3, <2>1, <2>2, GoTransportAssumption DEF FirstSession, Posting
  <2>9. Ending'
    BY <1>2, <1>6, <2>1 DEF Ending, NoSessionForgotten
  <2>10. QED
    BY <2>3, <2>4, <2>5, <2>6, <2>7, <2>8, <2>9
<1>8. CASE creation.error # None
  <2>1. /\ creation.left # "listed" /\ creation.error \in {"unavailable", "error"}
        /\ failure' = [generation |-> generation, error |-> creation.error]
        /\ Ended(r, creation.error) /\ UNCHANGED <<clientId, generation, executed>>
    BY <1>1, <1>2, <1>4, <1>8 DEF Creations
  <2>2. QED
    BY <1>1, <1>2, <2>1, RebuildLostIInv
<1>9. QED
  BY <1>7, <1>8

\* Every step a request takes in either class.
LEMMA RebuildStepIInv ==
    ASSUME IInv, NEW r \in Requests, RequestStep(r), UNCHANGED <<async, first>>
    PROVE  IInv'
BY PostIInv, RebuildSharedIInv, RebuildBeginsIInv, RebuildEndsIInv DEF RequestStep

-----------------------------------------------------------------------------
\* A coroutine enters and has yet to ask for the session.
LEMMA AsyncEnterIInv == ASSUME IInv, NEW r \in Requests, async, AsyncEnter(r) PROVE IInv'
<1> USE DEF AsyncEnter
<1>1. CASE Refused
  <2>1. /\ At(r, "idle") /\ opened = "open" /\ req' = [req EXCEPT ![r].at = "done"]
        /\ outcome' = [outcome EXCEPT ![r] = "unavailable"]
        /\ UNCHANGED <<active, mode, service, state, executed, ending, async, first>>
    BY <1>1
  <2>2. QED
    BY <2>1, RefusedIInv
<1>2. CASE ~Refused
  <2> USE <1>2 DEF IInv, AsyncTypeOK, TypeOK, At, mode, service, state, ending, first, Refused
  <2>1. /\ req' = [req EXCEPT ![r].at = "ensure"] /\ active' = active + 1
        /\ req[r].at = "idle"
    OBVIOUS
  <2>2. /\ r \notin Inside /\ r \in Inside' /\ r \notin Awaiting /\ r \notin Awaiting'
        /\ r \in Fresh /\ r \in Fresh' /\ (r \in Unsent <=> r \in Unsent')
    BY <2>1 DEF Inside, Awaiting, Fresh, Unsent
  <2>3. Counted' /\ active' \in 0 .. Cardinality(Requests)
    <3>1. \A q \in Requests \ {r} : req'[q] = req[q]
      BY <2>1
    <3>2. /\ active' \in Int /\ waiters \in Int /\ generation \in Nat /\ made \in Nat
      BY <2>1, CountTypes, Bounds, SMTT(30)
    <3>3. /\ active' + One(r \in Inside) = active + One(r \in Inside')
          /\ waiters' + One(r \in Awaiting) = waiters + One(r \in Awaiting')
          /\ generation' + One(r \in Unsent') <= generation + One(r \in Unsent)
      BY <2>1, <2>2, <3>2 DEF One
    <3>4. made' + One(opened' = "new") + One(attempt' = "running")
               + One(r \in Fresh') + One(r \in Unsent')
             <= made + One(opened = "new") + One(attempt = "running")
                  + One(r \in Fresh) + One(r \in Unsent)
      BY <2>2, <3>2 DEF One
    <3>5. QED
      BY <3>1, <3>2, <3>3, <3>4, CountedStep
  <2>4. AsyncTypeOK'
    BY <2>1, <2>3
  <2>5. Executed'
    BY <2>1 DEF Executed, OutcomeIsHonest
  <2>6. Rebuilding'
    BY <2>1 DEF Rebuilding, OneRebuild
  <2>7. Posting'
    BY <2>1 DEF Posting
  <2>8. FirstSession' /\ Ending'
    BY <2>1 DEF FirstSession, Ending, NoSessionForgotten
  <2>9. QED
    BY <2>3, <2>4, <2>5, <2>6, <2>7, <2>8
<1>3. QED
  BY <1>1, <1>2

\* It joins the attempt to make the first session, or starts one.
LEMMA EnsureWaitsIInv == ASSUME IInv, NEW r \in Requests, async, EnsureWaits(r) PROVE IInv'
<1> USE DEF EnsureWaits, IInv, AsyncTypeOK, TypeOK, At, mode, service, state, ending, first,
            Refused
<1>1. /\ req' = [req EXCEPT ![r].at = "await"] /\ waiters' = waiters + 1
      /\ req[r].at = "ensure" /\ clientId = None /\ ~closing
      /\ attempt' \in {attempt, "running"}
  OBVIOUS
<1>2. /\ r \in Inside /\ r \in Inside' /\ r \notin Awaiting /\ r \in Awaiting'
      /\ r \in Fresh /\ r \notin Fresh' /\ (r \in Unsent <=> r \in Unsent')
  BY <1>1 DEF Inside, Awaiting, Fresh, Unsent
<1>3. attempt' # "made"
  <2>1. attempt = "made" => waiters = 0
    BY <1>1, CountTypes DEF FirstSession, Counted, Awaiting
  <2>2. QED
    BY <2>1 DEF Over
<1>4. Counted' /\ waiters' \in 0 .. Cardinality(Requests)
  <2>1. \A q \in Requests \ {r} : req'[q] = req[q]
    BY <1>1
  <2>2. /\ active \in Int /\ waiters' \in Int /\ generation \in Nat /\ made \in Nat
    BY <1>1, CountTypes, Bounds, SMTT(30)
  <2>3. /\ active' + One(r \in Inside) = active + One(r \in Inside')
        /\ waiters' + One(r \in Awaiting) = waiters + One(r \in Awaiting')
        /\ generation' + One(r \in Unsent') <= generation + One(r \in Unsent)
    BY <1>1, <1>2, <2>2 DEF One
  <2>4. made' + One(opened' = "new") + One(attempt' = "running")
               + One(r \in Fresh') + One(r \in Unsent')
             <= made + One(opened = "new") + One(attempt = "running")
                  + One(r \in Fresh) + One(r \in Unsent)
    BY <1>1, <1>2, <2>2 DEF One
  <2>5. QED
    BY <2>1, <2>2, <2>3, <2>4, CountedStep
<1>5. AsyncTypeOK'
  <2>1. req' \in Locals
    BY <1>1, SMTT(30) DEF Locals
  <2>2. QED
    BY <1>1, <1>4, <2>1 DEF Locals
<1>6. Executed'
  BY <1>1 DEF Executed, OutcomeIsHonest
<1>7. Rebuilding'
  BY <1>1 DEF Rebuilding, OneRebuild
<1>8. Posting'
  BY <1>1 DEF Posting
<1>9. FirstSession'
  BY <1>1, <1>3 DEF FirstSession
<1>10. Ending'
  BY <1>1 DEF Ending, NoSessionForgotten
<1>11. QED
  BY <1>4, <1>5, <1>6, <1>7, <1>8, <1>9, <1>10

\* It gets the session that is there, or that it awaited, or the error.
LEMMA EnsuredIInv ==
    ASSUME IInv, NEW r \in Requests, async,
           EnsureHas(r) \/ EnsureRefused(r) \/ AwaitGets(r) \/ AwaitRaises(r)
    PROVE  IInv'
<1>1. CASE EnsureHas(r) \/ AwaitGets(r)
  <2>1. /\ req' = [req EXCEPT ![r].at = "post", ![r].session = clientId,
                              ![r].generation = generation]
        /\ req[r].at \in {"ensure", "await"}
        /\ UNCHANGED <<mode, service, state, active, executed, outcome, ending, async>>
        /\ \/ ~At(r, "await") /\ UNCHANGED first
           \/ At(r, "await") /\ Left
    BY <1>1 DEF EnsureHas, AwaitGets, At
  <2>2. clientId # None /\ opened = "open"
    BY <1>1 DEF EnsureHas, AwaitGets, IInv, FirstSession, At
  <2>3. /\ req \in Locals /\ clientId \in Sessions \cup {None}
        /\ generation \in Generations /\ generation <= generation
    BY Bounds DEF IInv, AsyncTypeOK, TypeOK, Locals
  <2>4. /\ req' \in Locals /\ \A q \in Requests \ {r} : req'[q] = req[q]
        /\ req'[r].at = "post" /\ req'[r].session = clientId
        /\ req'[r].generation <= generation
        /\ ~req'[r].resent => ~req[r].resent
    BY ONLY <2>1, <2>3 DEF Locals
  <2>5. active' = active + One(At(r, "idle"))
    BY <2>1, CountTypes DEF One, At, IInv, AsyncTypeOK, TypeOK
  <2>6. QED
    BY <2>1, <2>2, <2>4, <2>5, SentIInv DEF At
<1>2. CASE EnsureRefused(r)
  <2>1. /\ executed' = [executed EXCEPT ![r] = @ + 0]
        /\ Ended(r, "unavailable") /\ req[r].at = "ensure"
        /\ UNCHANGED <<mode, service, state, ending, async, first>>
        /\ "unavailable" \in Results \cup {"cancelled"}
    BY <1>2, NotRun DEF EnsureRefused, At, IInv, Results
  <2>2. QED
    BY <2>1, EndedIInv DEF At
<1>3. CASE AwaitRaises(r)
  <2>1. /\ executed' = [executed EXCEPT ![r] = @ + 0]
        /\ Ended(r, attempt) /\ req[r].at = "await" /\ Left
        /\ UNCHANGED <<mode, service, state, ending, async>>
        /\ attempt \in {"unavailable", "error"} /\ attempt \in Results \cup {"cancelled"}
    BY <1>3, NotRun DEF AwaitRaises, At, IInv, Results
  <2>2. QED
    BY <2>1, EndedIInv DEF At
<1>4. QED
  BY <1>1, <1>2, <1>3

\* CancelledError leaves everything as an error would, but for what it interrupts.
LEMMA CancelIInv == ASSUME IInv, NEW r \in Requests, async, Cancel(r) PROVE IInv'
<1>0. "cancelled" \in Results \cup {"cancelled"}
  OBVIOUS
<1>1. CASE CancelLocked(r)
  <2>1. executed' = [executed EXCEPT ![r] = @ + 0]
    BY <1>1, NotRun DEF CancelLocked, IInv
  <2>2. /\ Ended(r, "cancelled") /\ req[r].at \in {"ensure", "rebuild"}
        /\ UNCHANGED <<mode, service, state, ending, async, first>>
    BY <1>1 DEF CancelLocked
  <2>3. QED
    BY <1>0, <2>1, <2>2, EndedIInv DEF At
<1>2. CASE CancelAwait(r)
  <2>1. executed' = [executed EXCEPT ![r] = @ + 0]
    BY <1>2, NotRun DEF CancelAwait, IInv
  <2>2. /\ Ended(r, "cancelled") /\ req[r].at = "await" /\ Left
        /\ UNCHANGED <<mode, service, state, ending, async>>
    BY <1>2 DEF CancelAwait, At
  <2>3. QED
    BY <1>0, <2>1, <2>2, EndedIInv DEF At
<1>3. CASE CancelPost(r)
  <2>1. PICK ran \in {0, 1} : executed' = [executed EXCEPT ![r] = @ + ran]
    <3>1. \E ran \in 0 .. 1 : executed' = [executed EXCEPT ![r] = @ + ran]
      BY <1>3, Zenon DEF CancelPost
    <3>2. 0 .. 1 = {0, 1}
      OBVIOUS
    <3>3. QED
      BY <3>1, <3>2, Zenon
  <2>2. /\ Ended(r, "cancelled") /\ req[r].at = "post"
        /\ UNCHANGED <<mode, service, state, ending, async, first>>
    BY <1>3 DEF CancelPost, At
  <2>3. QED
    BY <1>0, <2>1, <2>2, EndedIInv DEF At
<1>4. CASE CancelCreate(r)
  <2>1. PICK creation \in Creations : creation.left # "listed" /\ Leaves(creation)
    BY <1>4 DEF CancelCreate
  <2>2. ~rebuilding' /\ rebuilding' \in BOOLEAN
    BY <1>4 DEF CancelCreate
  <2>3. QED
    BY <1>4, <2>1, <2>2, RebuildLostIInv DEF CancelCreate
<1>5. QED
  BY <1>1, <1>2, <1>3, <1>4 DEF Cancel

\* While there is no session yet, nobody uses one and none is listed.
LEMMA NoSessionYet ==
    ASSUME IInv, clientId = None
    PROVE  /\ \A s \in Sessions : sessions[s] # "listed"
           /\ \A r \in Requests : req[r].at \notin {"post", "rebuild", "create"}
BY Bounds, CountTypes DEF IInv, Ending, NoSessionForgotten, Posting

\* The first session is made, or not: by the constructor, or by the attempt.
LEMMA FirstCreationIInv ==
    ASSUME IInv, clientId = None, ~closed,
           One(opened = "new") + One(attempt = "running") = 1,
           One(opened' = "new") + One(attempt' = "running") = 0,
           NEW creation \in Creations, Leaves(creation),
           IF creation.error = None THEN clientId' = made + 1 ELSE UNCHANGED clientId,
           opened' \in {"open", "failed"},
           attempt' \in {"none", "made", "unavailable", "error"},
           UNCHANGED <<managed, generation, rebuilding, failure, rebuilds, calls, ending, async,
                       waiters>>
    PROVE  AsyncTypeOK' /\ Counted' /\ Executed' /\ Rebuilding' /\ Posting' /\ NoSessionForgotten'
<1> USE DEF IInv, AsyncTypeOK, TypeOK, At, calls, ending
<1>1. /\ \A s \in Sessions : sessions[s] # "listed"
      /\ \A r \in Requests : req[r].at \notin {"post", "rebuild", "create"}
  BY NoSessionYet
<1>2. Inside' = Inside /\ Awaiting' = Awaiting /\ Fresh' = Fresh /\ Unsent' = Unsent
  BY DEF Inside, Awaiting, Fresh, Unsent
<1>3. /\ made \in Nat /\ made + 1 + Cardinality(Fresh) + Cardinality(Unsent)
                            <= 2 * Cardinality(Requests) + 1
  <2>1. One(opened = "new") \in {0, 1} /\ One(attempt = "running") \in {0, 1}
    BY DEF One
  <2>2. made + One(opened = "new") + One(attempt = "running")
         + Cardinality(Fresh) + Cardinality(Unsent) <= 2 * Cardinality(Requests) + 1
    BY DEF Counted
  <2>3. made \in Nat
    BY Bounds
  <2>4. QED
    BY <2>1, <2>2, <2>3, CountTypes
<1>4. made + 1 \in Sessions /\ made + 1 \in 0 .. Cardinality(Sessions)
  BY ONLY <1>3, CountTypes, Bounds
<1>5. /\ sessions' \in [Sessions -> {"none", "listed", "gone", "stray"}]
      /\ made' \in {made, made + 1}
      /\ creation.error = None => made' = made + 1
      /\ \A s \in Sessions : s # made + 1 => sessions'[s] = sessions[s]
      /\ sessions'[made + 1] = "listed" => creation.error = None
      /\ \A s \in Sessions : s > made' => sessions'[s] = "none"
  BY <1>4, LeavesFrame DEF Posting
<1>6. made' \in 0 .. Cardinality(Sessions)
  BY <1>3, <1>4, <1>5
<1>7. clientId' \in Sessions \cup {None} /\ (clientId' # None => clientId' <= made')
  BY <1>3, <1>4, <1>5
<1>8. AsyncTypeOK'
  BY <1>5, <1>6, <1>7
<1>9. Counted'
  <2>1. One(opened' = "new") \in {0, 1} /\ One(attempt' = "running") \in {0, 1}
    BY DEF One
  <2>2. made' + Cardinality(Fresh) + Cardinality(Unsent) <= 2 * Cardinality(Requests) + 1
    BY ONLY <1>3, <1>5, CountTypes
  <2>3. made' + One(opened' = "new") + One(attempt' = "running") = made'
    BY <1>3, <1>5, <2>1
  <2>4. QED
    BY <1>2, <2>2, <2>3 DEF Counted
<1>10. Executed'
  BY DEF Executed, OutcomeIsHonest
<1>11. Rebuilding'
  BY <1>1 DEF Rebuilding, OneRebuild
<1>12. Posting'
  BY <1>1, <1>5, <1>7 DEF Posting
<1>13. NoSessionForgotten'
  BY <1>1, <1>4, <1>5 DEF NoSessionForgotten
<1>14. QED
  BY <1>8, <1>9, <1>10, <1>11, <1>12, <1>13

\* The constructors and the attempt.
LEMMA FirstSessionIInv ==
    ASSUME IInv,
           \/ ~async /\ Construct /\ UNCHANGED <<async, first>>
           \/ async /\ (AsyncConstruct \/ AttemptEnds)
    PROVE  IInv'
<1> USE DEF mode, first, At
<1>1. CASE ~async /\ Construct /\ UNCHANGED <<async, first>>
  <2>1. /\ opened = "new" /\ clientId = None /\ ~closing /\ ~closed /\ attempt = "none"
        /\ \A r \in Requests : At(r, "idle")
    BY <1>1 DEF Construct, IInv, FirstSession, Ending
  <2>2. PICK creation \in Creations :
            /\ Leaves(creation)
            /\ IF creation.error = None
               THEN opened' = "open" /\ clientId' = made + 1
               ELSE opened' = "failed" /\ UNCHANGED clientId
    BY <1>1 DEF Construct
  <2>3. AsyncTypeOK' /\ Counted' /\ Executed' /\ Rebuilding' /\ Posting' /\ NoSessionForgotten'
    BY <1>1, <2>1, <2>2, FirstCreationIInv DEF Construct, One
  <2>4. FirstSession'
    <3>1. made + 1 # None
      BY Bounds DEF IInv, AsyncTypeOK, TypeOK
    <3>2. QED
      BY <1>1, <2>1, <2>2, <3>1 DEF Construct, IInv, FirstSession, calls
  <2>5. Ending'
    BY <1>1, <2>1, <2>2, <2>3 DEF Construct, IInv, Ending, calls, ending
  <2>6. QED
    BY <2>3, <2>4, <2>5 DEF IInv
<1>2. CASE async /\ AsyncConstruct
  <2> USE <1>2 DEF AsyncConstruct, IInv, service, state, calls, ending
  <2>1. AsyncTypeOK'
    BY DEF AsyncTypeOK, TypeOK
  <2>2. Counted'
    <3>1. Inside' = Inside /\ Awaiting' = Awaiting /\ Fresh' = Fresh /\ Unsent' = Unsent
      BY DEF Inside, Awaiting, Fresh, Unsent
    <3>2. made \in Nat
      BY Bounds DEF AsyncTypeOK, TypeOK
    <3>3. QED
      BY <3>1, <3>2, CountTypes DEF Counted, One
  <2>3. Executed' /\ Rebuilding' /\ Posting'
    BY DEF Executed, OutcomeIsHonest, Rebuilding, OneRebuild, Posting
  <2>4. FirstSession' /\ Ending'
    BY DEF FirstSession, Ending, NoSessionForgotten
  <2>5. QED
    BY <2>1, <2>2, <2>3, <2>4
<1>3. CASE async /\ AttemptEnds
  <2>1. /\ attempt = "running" /\ clientId = None /\ opened = "open" /\ ~closed
        /\ \A k \in Closers : closer[k] # "deleting"
    <3>1. attempt = "running"
      BY <1>3 DEF AttemptEnds
    <3>2. clientId = None /\ opened = "open"
      BY <3>1 DEF IInv, FirstSession
    <3>3. ~closed /\ \A k \in Closers : closer[k] # "deleting"
      BY <3>1 DEF IInv, Ending
    <3>4. QED
      BY <3>1, <3>2, <3>3
  <2>2. PICK creation \in Creations :
            /\ Leaves(creation)
            /\ IF creation.error = None
               THEN attempt' = "made" /\ clientId' = made + 1
               ELSE attempt' = creation.error /\ UNCHANGED clientId
    BY <1>3 DEF AttemptEnds
  <2>3. creation.error # None => creation.error \in {"unavailable", "error"}
    BY GoTransportAssumption DEF Creations, Results
  <2>4. AsyncTypeOK' /\ Counted' /\ Executed' /\ Rebuilding' /\ Posting' /\ NoSessionForgotten'
    BY <1>3, <2>1, <2>2, <2>3, FirstCreationIInv DEF AttemptEnds, One
  <2>5. FirstSession'
    <3>1. made + 1 # None
      BY Bounds DEF IInv, AsyncTypeOK, TypeOK
    <3>2. QED
      BY <1>3, <2>1, <2>2, <2>3, <3>1 DEF AttemptEnds, IInv, FirstSession, calls
  <2>6. Ending'
    BY <1>3, <2>1, <2>2, <2>3, <2>4 DEF AttemptEnds, IInv, Ending, calls, ending
  <2>7. QED
    BY <2>4, <2>5, <2>6 DEF IInv
<1>4. QED
  BY <1>1, <1>2, <1>3

-----------------------------------------------------------------------------
\* The counts are those of before, when no request moves.
LEMMA CountedStays ==
    ASSUME IInv, UNCHANGED <<opened, generation, active, req, waiters, made>>,
           attempt' \in {attempt, "none"}
    PROVE  Counted'
<1>1. Inside' = Inside /\ Awaiting' = Awaiting /\ Fresh' = Fresh /\ Unsent' = Unsent
  BY DEF Inside, Awaiting, Fresh, Unsent
<1>2. made \in Nat
  BY Bounds DEF IInv, AsyncTypeOK, TypeOK
<1>3. /\ One(opened = "new") \in {0, 1} /\ One(attempt = "running") \in {0, 1}
      /\ One(attempt' = "running") \in {0, 1}
      /\ One(attempt' = "running") <= One(attempt = "running")
  BY DEF One
<1>4. made + One(opened = "new") + One(attempt' = "running")
         + Cardinality(Fresh) + Cardinality(Unsent) <= 2 * Cardinality(Requests) + 1
  BY <1>2, <1>3, CountTypes DEF IInv, Counted
<1>5. QED
  BY <1>1, <1>4 DEF IInv, Counted

\* The service forgets a session; a request that was to rebuild it still is.
LEMMA ReapIInv ==
    ASSUME IInv, NEW s \in Sessions, Reap(s), UNCHANGED <<async, first>> PROVE IInv'
<1> USE DEF Reap, IInv, mode, state, calls, ending, first
<1>1. AsyncTypeOK'
  BY DEF AsyncTypeOK, TypeOK
<1>2. Counted'
  BY CountedStays
<1>3. Executed' /\ Rebuilding'
  BY DEF Executed, OutcomeIsHonest, Rebuilding, OneRebuild, At
<1>4. \A t \in Sessions : sessions'[t] # "none" => sessions[t] # "none"
  BY DEF AsyncTypeOK, TypeOK
<1>5. \A t \in Sessions : sessions'[t] = "listed" => sessions[t] = "listed"
  BY DEF AsyncTypeOK, TypeOK
<1>6. Posting'
  BY <1>4, <1>5 DEF Posting
<1>7. FirstSession'
  BY DEF FirstSession, At
<1>8. Ending'
  BY <1>5 DEF Ending, NoSessionForgotten
<1>9. QED
  BY <1>1, <1>2, <1>3, <1>6, <1>7, <1>8

\* close() begins; the owner of a managed transport may have forgotten the session.
LEMMA CloseBeginIInv ==
    ASSUME IInv, NEW k \in Closers, CloseBegin(k), UNCHANGED <<async, first>> PROVE IInv'
<1> USE DEF CloseBegin, IInv, mode, calls, first
<1>1. /\ opened = "open" /\ closing' = (closing \/ ~closed) /\ (closed => closing)
      /\ \A j \in Closers : closer'[j] = "deleting" => closer[j] = "deleting"
  BY DEF AsyncTypeOK, TypeOK, Ending
<1>2. closing' = TRUE /\ closing' \in BOOLEAN
  BY <1>1 DEF AsyncTypeOK, TypeOK
<1>3. \/ UNCHANGED <<clientId, sessions>>
      \/ /\ active = 0 /\ clientId # None /\ clientId' = None
         /\ sessions' = [sessions EXCEPT ![clientId] = "gone"]
  OBVIOUS
<1>4. \A s \in Sessions : /\ sessions'[s] = "listed" => sessions[s] = "listed" /\ clientId' = clientId
                          /\ sessions'[s] # "none" => sessions[s] # "none" \/ s <= made
  <2>1. CASE UNCHANGED <<clientId, sessions>>
    BY <2>1
  <2>2. CASE /\ clientId # None /\ clientId' = None
             /\ sessions' = [sessions EXCEPT ![clientId] = "gone"]
    <3>1. clientId \in Sessions /\ clientId <= made
      BY <2>2 DEF AsyncTypeOK, TypeOK, Posting
    <3>2. \A s \in Sessions : sessions[s] = "listed" => s = clientId
      BY DEF Ending, NoSessionForgotten
    <3>3. QED
      BY <2>2, <3>1, <3>2 DEF AsyncTypeOK, TypeOK
  <2>3. QED
    BY <1>3, <2>1, <2>2
<1>5. clientId' # None => clientId' = clientId
  BY <1>3
<1>6. clientId' # clientId => clientId' = None /\ \A r \in Requests : req[r].at \in {"idle", "done"}
  <2>1. active = 0 => Inside = {}
    BY CountTypes DEF Counted
  <2>2. QED
    BY <1>3, <2>1 DEF Inside
<1>7. AsyncTypeOK'
  BY <1>2, <1>3 DEF AsyncTypeOK, TypeOK
<1>8. Counted'
  BY CountedStays
<1>9. Executed' /\ Rebuilding'
  BY DEF Executed, OutcomeIsHonest, Rebuilding, OneRebuild, At
<1>10. Posting'
  <2>1. \A s \in Sessions : s > made => sessions'[s] = "none"
    BY <1>4, Bounds DEF Posting, AsyncTypeOK, TypeOK
  <2>2. QED
    BY <1>4, <1>5, <1>6, <2>1 DEF Posting
<1>11. FirstSession'
  BY <1>1, <1>2, <1>5, <1>6 DEF FirstSession, At
<1>12. Ending'
  BY <1>1, <1>2, <1>4 DEF Ending, NoSessionForgotten
<1>13. QED
  BY <1>7, <1>8, <1>9, <1>10, <1>11, <1>12

\* The drained transport is for this close() to finish.
LEMMA CloseTakeIInv ==
    ASSUME IInv, NEW k \in Closers, CloseTake(k), UNCHANGED <<async, waiters>>,
           attempt # "running", attempt' \in {attempt, "none"}
    PROVE  IInv'
<1> USE DEF CloseTake, IInv, mode, service, state, calls
<1>1. AsyncTypeOK'
  BY DEF AsyncTypeOK, TypeOK
<1>2. Counted'
  BY CountedStays
<1>3. Executed' /\ Rebuilding' /\ Posting'
  BY DEF Executed, OutcomeIsHonest, Rebuilding, OneRebuild, Posting, At
<1>4. FirstSession'
  BY DEF FirstSession, At
<1>5. Ending'
  BY DEF Ending, NoSessionForgotten, AsyncTypeOK, TypeOK
<1>6. QED
  BY <1>1, <1>2, <1>3, <1>4, <1>5

\* The session is deleted, or left to the service.
LEMMA CloseDeleteIInv ==
    ASSUME IInv, NEW k \in Closers, CloseDelete(k), UNCHANGED <<async, first>> PROVE IInv'
<1> USE DEF CloseDelete, IInv, mode, state, calls, first
<1>1. closed' = TRUE /\ closed' \in BOOLEAN
  OBVIOUS
<1>2. /\ sessions' \in [Sessions -> {"none", "listed", "gone", "stray"}]
      /\ \A s \in Sessions : sessions'[s] # "listed"
      /\ \A s \in Sessions : sessions[s] = "none" => sessions'[s] = "none"
  <2>1. \A s \in Sessions : sessions[s] = "listed" => s = clientId
    BY DEF Ending, NoSessionForgotten
  <2>2. CASE clientId # None /\ sessions[clientId] = "listed"
    <3>1. clientId \in Sessions
      BY <2>2 DEF AsyncTypeOK, TypeOK
    <3>2. PICK left \in {"gone", "stray"} : sessions' = [sessions EXCEPT ![clientId] = left]
      BY <2>2
    <3>3. QED
      BY <2>1, <2>2, <3>1, <3>2 DEF AsyncTypeOK, TypeOK
  <2>3. CASE ~(clientId # None /\ sessions[clientId] = "listed")
    <3>1. sessions' = sessions
      BY <2>3
    <3>2. \A s \in Sessions : s # None
      BY Bounds
    <3>3. QED
      BY <2>1, <2>3, <3>1, <3>2 DEF AsyncTypeOK, TypeOK
  <2>4. QED
    BY <2>2, <2>3
<1>3. AsyncTypeOK'
  BY <1>1, <1>2 DEF AsyncTypeOK, TypeOK
<1>4. Counted'
  BY CountedStays
<1>5. Executed' /\ Rebuilding'
  BY DEF Executed, OutcomeIsHonest, Rebuilding, OneRebuild, At
<1>6. Posting'
  BY <1>2 DEF Posting
<1>7. FirstSession'
  BY DEF FirstSession, At
<1>8. Ending'
  <2>1. /\ \A j \in Closers : closer'[j] \in {closer[j], "over"} /\ (closer'[j] = closer[j] \/ j = k)
        /\ closer[k] = "deleting"
    BY DEF AsyncTypeOK, TypeOK
  <2>2. active = 0 /\ attempt # "running" /\ closing /\ opened = "open"
    BY <2>1 DEF Ending
  <2>3. QED
    BY <1>2, <2>1, <2>2 DEF Ending, NoSessionForgotten
<1>9. QED
  BY <1>3, <1>4, <1>5, <1>6, <1>7, <1>8

\* Another close() finished it.
LEMMA CloseWaitsIInv ==
    ASSUME IInv, NEW k \in Closers, CloseWaits(k), UNCHANGED <<async, first>> PROVE IInv'
<1> USE DEF CloseWaits, IInv, mode, service, state, calls, first
<1>1. AsyncTypeOK'
  BY DEF AsyncTypeOK, TypeOK
<1>2. Counted'
  BY CountedStays
<1>3. Executed' /\ Rebuilding' /\ Posting'
  BY DEF Executed, OutcomeIsHonest, Rebuilding, OneRebuild, Posting, At
<1>4. FirstSession'
  BY DEF FirstSession, At
<1>5. Ending'
  BY DEF Ending, NoSessionForgotten, AsyncTypeOK, TypeOK
<1>6. QED
  BY <1>1, <1>2, <1>3, <1>4, <1>5

\* The steps a thread's close() takes, after it began.
LEMMA CloserStepIInv ==
    ASSUME IInv, NEW k \in Closers, ~async, CloserStep(k), UNCHANGED <<async, first>>
    PROVE  IInv'
<1>1. CASE CloseTake(k)
  BY <1>1, CloseTakeIInv DEF IInv, FirstSession, first
<1>2. QED
  BY <1>1, CloseDeleteIInv, CloseWaitsIInv DEF CloserStep

\* And those of aclose().
LEMMA AcloseStepIInv ==
    ASSUME IInv, NEW k \in Closers, async, AcloseStep(k)
    PROVE  IInv'
<1>1. CASE AcloseTake(k)
  BY <1>1, CloseTakeIInv DEF AcloseTake
<1>2. QED
  BY <1>1, CloseDeleteIInv, CloseWaitsIInv DEF AcloseStep

\* A step of a coroutine that has entered.
LEMMA AsyncRequestStepIInv ==
    ASSUME IInv, NEW r \in Requests, async, AsyncRequestStep(r)
    PROVE  IInv'
<1>1. CASE AsyncRebuild(r)
  BY <1>1, RebuildStepIInv DEF AsyncRebuild, RequestStep
<1>2. QED
  BY <1>1, EnsureWaitsIInv, EnsuredIInv DEF AsyncRequestStep

\* Nothing in IInv is about anything but these variables.
LEMMA StutterIInv == ASSUME IInv, UNCHANGED asyncVars PROVE IInv'
<1> USE DEF asyncVars, vars, mode, service, state, calls, ending, first
<1>1. Inside' = Inside /\ Awaiting' = Awaiting /\ Fresh' = Fresh /\ Unsent' = Unsent
  BY DEF Inside, Awaiting, Fresh, Unsent
<1>2. AsyncTypeOK' /\ Counted'
  BY <1>1 DEF IInv, AsyncTypeOK, TypeOK, Counted
<1>3. Executed' /\ Rebuilding' /\ Posting'
  BY DEF IInv, Executed, OutcomeIsHonest, Rebuilding, OneRebuild, Posting, At
<1>4. FirstSession' /\ Ending'
  BY DEF IInv, FirstSession, Ending, NoSessionForgotten, At
<1>5. QED
  BY <1>2, <1>3, <1>4 DEF IInv

\* IInv is inductive.
LEMMA EitherStepIInv == IInv /\ [EitherNext]_asyncVars => IInv'
<1> SUFFICES ASSUME IInv, [EitherNext]_asyncVars PROVE IInv'
  OBVIOUS
<1>1. CASE async /\ AsyncNext
  <2>1. CASE AsyncConstruct \/ AttemptEnds
    BY <1>1, <2>1, FirstSessionIInv
  <2>2. CASE \E r \in Requests : AsyncEnter(r) \/ AsyncRequestStep(r) \/ Cancel(r)
    BY <1>1, <2>2, AsyncEnterIInv, AsyncRequestStepIInv, CancelIInv
  <2>3. CASE \E k \in Closers : AcloseStep(k)
    BY <1>1, <2>3, AcloseStepIInv
  <2>4. CASE /\ \/ \E s \in Sessions : Reap(s)
                \/ \E k \in Closers : CloseBegin(k)
             /\ UNCHANGED <<async, first>>
    BY <2>4, ReapIInv, CloseBeginIInv
  <2>5. QED
    BY <1>1, <2>1, <2>2, <2>3, <2>4 DEF AsyncNext
<1>2. CASE ~async /\ Next /\ UNCHANGED <<async, first>>
  <2>1. CASE Construct
    BY <1>2, <2>1, FirstSessionIInv
  <2>2. CASE \E s \in Sessions : Reap(s)
    BY <1>2, <2>2, ReapIInv
  <2>3. CASE \E r \in Requests : Enter(r) \/ RequestStep(r)
    BY <1>2, <2>3, EnterIInv, RebuildStepIInv
  <2>4. CASE \E k \in Closers : CloseBegin(k) \/ CloserStep(k)
    BY <1>2, <2>4, CloseBeginIInv, CloserStepIInv
  <2>5. QED
    BY <1>2, <2>1, <2>2, <2>3, <2>4 DEF Next
<1>3. CASE UNCHANGED asyncVars
  BY <1>3, StutterIInv
<1>4. QED
  BY <1>1, <1>2, <1>3 DEF EitherNext

-----------------------------------------------------------------------------
\* The invariant holds in every reachable state of a transport of either class.
THEOREM Invariance == EitherSpec => []IInv
<1>1. QED
  BY InitIInv, EitherStepIInv, PTL DEF EitherSpec

\* The state is what its types say: in particular the counters of _active and of
\* _session_attempt_waiters never go below zero, and no transport ever asks for more
\* than one session more than twice its requests.
THEOREM TypeCorrectness == EitherSpec => []AsyncTypeOK
<1>1. IInv => AsyncTypeOK
  BY DEF IInv
<1>2. QED
  BY <1>1, Invariance, PTL

\* A re-sent request runs at most once, and what handle_request reports of it is true.
THEOREM ReportsAreHonest == EitherSpec => []OutcomeIsHonest
<1>1. IInv => OutcomeIsHonest
  BY DEF IInv, Executed
<1>2. QED
  BY <1>1, Invariance, PTL

\* A generation's session is rebuilt at most once, however many requests lost it.
THEOREM RebuiltOnce == EitherSpec => []OneRebuild
<1>1. IInv => OneRebuild
  BY DEF IInv, Rebuilding
<1>2. QED
  BY <1>1, Invariance, PTL

\* A session the service lists is the one the transport will delete.
THEOREM NothingForgotten == EitherSpec => []NoSessionForgotten
<1>1. IInv => NoSessionForgotten
  BY DEF IInv, Ending
<1>2. QED
  BY <1>1, Invariance, PTL

\* Where the requests are is up to the requests, and of their steps only one awaits.
LEMMA OnlyEnsureAwaits ==
    ASSUME IInv, [EitherNext]_asyncVars,
           NEW r \in Requests, req[r].at # "await", req'[r].at = "await"
    PROVE  EnsureWaits(r)
<1> USE DEF At
<1>1. req \in Locals
  BY DEF IInv, AsyncTypeOK, TypeOK, Locals
<1>2. req' # req
  OBVIOUS
<1>3. PICK q \in Requests :
         Enter(q) \/ AsyncEnter(q) \/ RequestStep(q) \/ AsyncRequestStep(q) \/ Cancel(q)
  <2>1. CASE async /\ AsyncNext
    BY <1>2, <2>1 DEF AsyncNext, AsyncConstruct, AttemptEnds, AcloseStep, AcloseTake, CloseTake,
       CloseDelete, CloseWaits, CloseBegin, Reap, calls
  <2>2. CASE ~async /\ Next
    BY <1>2, <2>2 DEF Next, Construct, CloserStep, CloseTake, CloseDelete, CloseWaits,
       CloseBegin, Reap, calls
  <2>3. QED
    BY <1>2, <2>1, <2>2 DEF EitherNext, asyncVars, vars, calls
<1>4. ASSUME NEW result, Ended(q, result) PROVE FALSE
  BY <1>1, <1>4 DEF Ended, Outside, Locals
<1>5. ASSUME NEW s, Resend(q, s) PROVE FALSE
  BY <1>1, <1>5 DEF Resend, Locals
<1>6. ASSUME NEW place \in {"ensure", "post", "rebuild", "create", "done"},
             req' = [req EXCEPT ![q].at = place]
      PROVE  FALSE
  BY <1>1, <1>6 DEF Locals
<1>7. ASSUME NEW s, NEW g, req' = [req EXCEPT ![q].at = "post", ![q].session = s,
                                              ![q].generation = g]
      PROVE  FALSE
  BY <1>1, <1>7 DEF Locals
<1>8. ~Enter(q) /\ ~AsyncEnter(q)
  <2>1. ASSUME Enter(q) PROVE FALSE
    <3>1. CASE Refused
      BY <1>6, <2>1, <3>1 DEF Enter
    <3>2. CASE ~Refused
      <4>1. req' = [req EXCEPT ![q].at = "post", ![q].session = clientId,
                               ![q].generation = generation]
        BY <2>1, <3>2 DEF Enter
      <4>2. QED
        BY <1>7, <4>1, Zenon
    <3>3. QED
      BY <3>1, <3>2
  <2>2. ASSUME AsyncEnter(q) PROVE FALSE
    BY <1>6, <2>2, Zenon DEF AsyncEnter
  <2>3. QED
    BY <2>1, <2>2
<1>9. ~RequestStep(q)
  <2>1. ~Post(q)
    BY <1>4, <1>6 DEF Post
  <2>2. ~RebuildDone(q)
    BY <1>5 DEF RebuildDone
  <2>3. ~RebuildFailed(q) /\ ~RebuildRefused(q)
    BY <1>4 DEF RebuildFailed, RebuildRefused
  <2>4. ~RebuildBegins(q)
    BY <1>6 DEF RebuildBegins
  <2>5. ~RebuildEnds(q)
    BY <1>4, <1>5 DEF RebuildEnds
  <2>6. QED
    BY <2>1, <2>2, <2>3, <2>4, <2>5 DEF RequestStep
<1>10. ~AsyncRebuild(q) /\ ~Cancel(q)
  <2>1. ~Cancel(q)
    BY <1>4 DEF Cancel, CancelLocked, CancelAwait, CancelPost, CancelCreate
  <2>2. QED
    BY <1>9, <2>1 DEF AsyncRebuild, RequestStep
<1>11. ~EnsureHas(q) /\ ~EnsureRefused(q) /\ ~AwaitGets(q) /\ ~AwaitRaises(q)
  BY <1>4, <1>7 DEF EnsureHas, EnsureRefused, AwaitGets, AwaitRaises
<1>12. EnsureWaits(q)
  BY <1>3, <1>8, <1>9, <1>10, <1>11 DEF AsyncRequestStep
<1>13. q = r
  BY <1>1, <1>12 DEF EnsureWaits, Locals
<1>14. QED
  BY <1>12, <1>13

\* Who first awaits an attempt awaits a running one: the count of waiters is right, so
\* an attempt that is over is never met by anybody who did not await it before.
THEOREM FailureIsFresh == EitherSpec => NoStaleFailure
<1>1. ASSUME IInv, [EitherNext]_asyncVars,
             \A r \in Requests : ~At(r, "await"), \E r \in Requests : At(r, "await")'
      PROVE  attempt' = "running"
  <2>1. PICK r \in Requests : req'[r].at = "await"
    BY <1>1 DEF At
  <2>2. req[r].at # "await"
    BY <1>1 DEF At
  <2>3. EnsureWaits(r)
    BY <1>1, <2>1, <2>2, OnlyEnsureAwaits DEF At
  <2>4. waiters = 0
    BY <1>1, CountTypes DEF IInv, Counted, Awaiting, At
  <2>5. QED
    BY <1>1, <2>3, <2>4 DEF EnsureWaits, IInv, AsyncTypeOK, Over
<1>2. QED
  BY <1>1, Invariance, PTL DEF EitherSpec, NoStaleFailure

-----------------------------------------------------------------------------
(* The abstract transport.  Its variables are functions of managed, req,   *)
(* executed, outcome, closing and closed, so only steps that move a        *)
(* request from place to place, or ask the target, or begin or end a       *)
(* close() are seen of it: nothing of sessions and their rebuilds is.      *)

\* Where a request is, and that the others stay where they are.
LEMMA PlaceCases ==
    ASSUME NEW r \in Requests
    PROVE  /\ Place(r) = "before" <=> req[r].at = "idle"
           /\ Place(r) = "over" <=> req[r].at = "done"
           /\ Place(r) = "inside" <=> req[r].at \notin {"idle", "done"}
           /\ Place(r)' = "before" <=> req'[r].at = "idle"
           /\ Place(r)' = "over" <=> req'[r].at = "done"
           /\ Place(r)' = "inside" <=> req'[r].at \notin {"idle", "done"}
           /\ req'[r].at = req[r].at => Place(r)' = Place(r)
BY DEF Place, At

\* A step that leaves the requests in their places is not seen.
LEMMA ContractStays ==
    ASSUME \A q \in Requests : Place(q)' = Place(q),
           UNCHANGED <<managed, executed, outcome, closing, closed>>
    PROVE  UNCHANGED Contract!tvars
BY DEF Contract!tvars, Phase

\* A step of one request inside that leaves it there is not seen.
LEMMA InsideStays ==
    ASSUME NEW r \in Requests, req[r].at \notin {"idle", "done"},
           req'[r].at \notin {"idle", "done"}, \A q \in Requests \ {r} : req'[q] = req[q],
           UNCHANGED <<managed, executed, outcome, closing, closed>>
    PROVE  UNCHANGED Contract!tvars
<1>1. Place(r)' = Place(r)
  BY PlaceCases
<1>2. \A q \in Requests \ {r} : Place(q)' = Place(q)
  BY PlaceCases
<1>3. QED
  BY <1>1, <1>2, ContractStays


\* A request that begins enters an open transport, and is refused by any other.
LEMMA EnterContract ==
    ASSUME IInv, NEW r \in Requests, Enter(r) \/ AsyncEnter(r) PROVE Contract!Next
<1>1. /\ req \in Locals /\ req[r].at = "idle"
      /\ UNCHANGED <<managed, executed, closing, closed>>
  BY DEF IInv, AsyncTypeOK, TypeOK, Locals, Enter, AsyncEnter, At, mode, ending
<1>2. CASE closing \/ closed
  <2>1. req' = [req EXCEPT ![r].at = "done"] /\ outcome' = [outcome EXCEPT ![r] = "unavailable"]
    BY <1>2 DEF Enter, AsyncEnter, Refused
  <2>2. req'[r].at = "done" /\ \A q \in Requests \ {r} : req'[q] = req[q]
    BY ONLY <1>1, <2>1, r \in Requests DEF Locals
  <2>3. /\ Place(r) = "before" /\ Place(r)' = "over"
        /\ \A q \in Requests \ {r} : Place(q)' = Place(q)
    BY <1>1, <2>2, PlaceCases
  <2>4. [q \in Requests |-> Place(q)]' = [[q \in Requests |-> Place(q)] EXCEPT ![r] = "over"]
    BY <2>3
  <2>5. Phase # "open" /\ Phase' = Phase
    BY <1>1, <1>2 DEF Phase
  <2>6. Contract!Refuse(r)
    BY <1>1, <2>1, <2>3, <2>4, <2>5 DEF Contract!Refuse
  <2>7. QED
    BY <2>6 DEF Contract!Next
<1>3. CASE ~(closing \/ closed)
  <2>1. /\ \/ req' = [req EXCEPT ![r].at = "post", ![r].session = clientId,
                                 ![r].generation = generation]
           \/ req' = [req EXCEPT ![r].at = "ensure"]
        /\ outcome' = outcome
    BY <1>3 DEF Enter, AsyncEnter, Refused
  <2>2. req'[r].at \in {"post", "ensure"} /\ \A q \in Requests \ {r} : req'[q] = req[q]
    BY ONLY <1>1, <2>1, r \in Requests DEF Locals
  <2>3. /\ Place(r) = "before" /\ Place(r)' = "inside"
        /\ \A q \in Requests \ {r} : Place(q)' = Place(q)
    BY <1>1, <2>2, PlaceCases
  <2>4. [q \in Requests |-> Place(q)]' = [[q \in Requests |-> Place(q)] EXCEPT ![r] = "inside"]
    BY <2>3
  <2>5. Phase = "open" /\ Phase' = Phase
    BY <1>1, <1>3 DEF Phase
  <2>6. Contract!Enter(r)
    BY <1>1, <2>1, <2>3, <2>4, <2>5 DEF Contract!Enter
  <2>7. QED
    BY <2>6 DEF Contract!Next
<1>4. QED
  BY <1>2, <1>3

\* A request that ends has its answer, and the answer is true.
LEMMA EndedContract ==
    ASSUME IInv, NEW r \in Requests, req[r].at \notin {"idle", "done"},
           NEW result \in Results \cup {"cancelled"}, Ended(r, result),
           NEW ran \in {0, 1}, executed' = [executed EXCEPT ![r] = @ + ran],
           result = "ok" => ran = 1, result = "notfound" => ran = 0,
           managed /\ result = "unavailable" => ran = 0,
           UNCHANGED <<managed, closing, closed>>
    PROVE  Contract!Next
<1>1. req \in Locals /\ executed \in [Requests -> 0 .. 2] /\ executed[r] = 0
  BY DEF IInv, AsyncTypeOK, TypeOK, Locals, Executed
<1>2. req'[r].at = "done" /\ \A q \in Requests \ {r} : req'[q] = req[q]
  BY <1>1 DEF Ended, Outside, Locals
<1>3. /\ Place(r) = "inside" /\ Place(r)' = "over"
      /\ \A q \in Requests \ {r} : Place(q)' = Place(q)
  BY <1>2, PlaceCases
<1>4. [q \in Requests |-> Place(q)]' = [[q \in Requests |-> Place(q)] EXCEPT ![r] = "over"]
  BY <1>3
<1>5. result \in Contract!Answers /\ Contract!Truthful(result, ran)
  BY DEF Results, Contract!Answers, Contract!Truthful
<1>6. ran \in {executed[r], 1} /\ executed' = [executed EXCEPT ![r] = ran]
  <2>1. 0 + ran = ran
    OBVIOUS
  <2>2. QED
    BY <1>1, <2>1
<1>7. outcome' = [outcome EXCEPT ![r] = result]
  BY DEF Ended
<1>8. Phase' = Phase
  BY DEF Phase
<1>9. Contract!Answer(r)
  BY <1>3, <1>4, <1>5, <1>6, <1>7, <1>8 DEF Contract!Answer
<1>10. QED
  BY <1>9 DEF Contract!Next

\* One that ends without another exchange does so before the target was asked.
LEMMA EndedEarlyContract ==
    ASSUME IInv, NEW r \in Requests, req[r].at \notin {"idle", "done"},
           NEW result \in {"unavailable", "error", "cancelled"}, Ended(r, result),
           UNCHANGED <<managed, executed, closing, closed>>
    PROVE  Contract!Next
<1>1. executed' = [executed EXCEPT ![r] = @ + 0]
  BY NotRun DEF IInv
<1>2. result \in Results \cup {"cancelled"} /\ result # "ok" /\ result # "notfound"
  BY DEF Results
<1>3. QED
  BY <1>1, <1>2, EndedContract

\* The exchange: the session is gone, or the request has its answer.
LEMMA PostContract ==
    ASSUME IInv, NEW r \in Requests, Post(r)
    PROVE  Contract!Next \/ UNCHANGED Contract!tvars
<1>1. PICK answer \in Answers, ran \in 0 .. 1 :
          /\ answer = "ok" => ran = 1
          /\ answer = "refused" => ran = 0
          /\ answer = "notfound" => ran = 0
          /\ executed' = [executed EXCEPT ![r] = @ + ran]
          /\ IF Rebuilds(r, answer)
             THEN req' = [req EXCEPT ![r].at = "rebuild"] /\ UNCHANGED <<active, outcome>>
             ELSE Ended(r, Verdict(answer))
  BY DEF Post
<1>2. /\ req[r].at = "post" /\ UNCHANGED <<managed, closing, closed>>
      /\ req \in Locals /\ executed \in [Requests -> 0 .. 2]
  BY DEF Post, At, mode, ending, IInv, AsyncTypeOK, TypeOK, Locals
<1>3. CASE Rebuilds(r, answer)
  <2>1. /\ req' = [req EXCEPT ![r].at = "rebuild"] /\ outcome' = outcome
        /\ executed' = [executed EXCEPT ![r] = @ + 0]
    BY <1>1, <1>3 DEF Rebuilds
  <2>2. executed' = executed
    BY ONLY <1>2, <2>1
  <2>3. req'[r].at = "rebuild" /\ \A q \in Requests \ {r} : req'[q] = req[q]
    BY ONLY <1>2, <2>1, r \in Requests DEF Locals
  <2>4. QED
    BY <1>2, <2>1, <2>2, <2>3, InsideStays
<1>4. CASE ~Rebuilds(r, answer)
  <2>1. PICK result : result = Verdict(answer)
    OBVIOUS
  <2>2. /\ result \in Results \cup {"cancelled"}
        /\ result = "ok" => ran = 1
        /\ result = "notfound" => ran = 0
        /\ managed /\ result = "unavailable" => ran = 0
    BY <1>1, <2>1 DEF Verdict, Answers, Results
  <2>3. Ended(r, result) /\ ran \in {0, 1}
    BY <1>1, <1>4, <2>1
  <2>4. QED
    BY <1>1, <1>2, <2>2, <2>3, EndedContract
<1>5. QED
  BY <1>3, <1>4

\* Rebuilding a session is not seen, unless the request ends with it.
LEMMA RebuildContract ==
    ASSUME IInv, NEW r \in Requests,
           \/ RebuildDone(r) \/ RebuildFailed(r) \/ RebuildRefused(r) \/ RebuildBegins(r)
           \/ RebuildEnds(r)
    PROVE  Contract!Next \/ UNCHANGED Contract!tvars
<1>1. /\ req[r].at \in {"rebuild", "create"} /\ req \in Locals
      /\ UNCHANGED <<managed, executed, closing, closed>>
  BY DEF RebuildDone, RebuildFailed, RebuildRefused, RebuildBegins, RebuildEnds, Decides, At,
     mode, ending, IInv, AsyncTypeOK, TypeOK, Locals
<1>2. \/ \E s : Resend(r, s) /\ UNCHANGED outcome
      \/ req' = [req EXCEPT ![r].at = "create"] /\ UNCHANGED outcome
      \/ \E result \in {"unavailable", "error", "cancelled"} : Ended(r, result)
  <2>1. CASE RebuildDone(r)
    BY <2>1 DEF RebuildDone
  <2>2. CASE RebuildFailed(r)
    BY <2>2 DEF RebuildFailed, IInv, Rebuilding
  <2>3. CASE RebuildRefused(r)
    BY <2>3 DEF RebuildRefused
  <2>4. CASE RebuildBegins(r)
    BY <2>4 DEF RebuildBegins
  <2>5. CASE RebuildEnds(r)
    <3>1. PICK creation \in Creations :
            \/ Resend(r, made + 1) /\ UNCHANGED outcome
            \/ creation.error # None /\ Ended(r, creation.error)
      BY <2>5 DEF RebuildEnds
    <3>2. creation.error \in {None, "unavailable", "error"}
      BY DEF Creations
    <3>3. QED
      BY <3>1, <3>2
  <2>6. QED
    BY <2>1, <2>2, <2>3, <2>4, <2>5
<1>3. ASSUME NEW s, Resend(r, s) \/ req' = [req EXCEPT ![r].at = "create"], UNCHANGED outcome
      PROVE  UNCHANGED Contract!tvars
  <2>1. req'[r].at \in {"post", "create"} /\ \A q \in Requests \ {r} : req'[q] = req[q]
    BY ONLY <1>1, <1>3, r \in Requests DEF Resend, Locals
  <2>2. QED
    BY <1>1, <1>3, <2>1, InsideStays
<1>4. QED
  BY <1>1, <1>2, <1>3, EndedEarlyContract

\* Nor are the first session and who waits for it.
LEMMA EnsureContract ==
    ASSUME IInv, NEW r \in Requests,
           EnsureHas(r) \/ EnsureRefused(r) \/ EnsureWaits(r) \/ AwaitGets(r) \/ AwaitRaises(r)
    PROVE  Contract!Next \/ UNCHANGED Contract!tvars
<1>1. /\ req[r].at \in {"ensure", "await"} /\ req \in Locals
      /\ UNCHANGED <<managed, executed, closing, closed>>
  BY DEF EnsureHas, EnsureRefused, EnsureWaits, AwaitGets, AwaitRaises, At, mode, ending,
     IInv, AsyncTypeOK, TypeOK, Locals
<1>2. CASE EnsureHas(r) \/ AwaitGets(r) \/ EnsureWaits(r)
  <2>1. /\ \/ req' = [req EXCEPT ![r].at = "post", ![r].session = clientId,
                                 ![r].generation = generation]
           \/ req' = [req EXCEPT ![r].at = "await"]
        /\ outcome' = outcome
    BY <1>2 DEF EnsureHas, AwaitGets, EnsureWaits
  <2>2. req'[r].at \in {"post", "await"} /\ \A q \in Requests \ {r} : req'[q] = req[q]
    BY ONLY <1>1, <2>1, r \in Requests DEF Locals
  <2>3. QED
    BY <1>1, <2>1, <2>2, InsideStays
<1>3. CASE EnsureRefused(r) \/ AwaitRaises(r)
  <2>1. \E result \in {"unavailable", "error", "cancelled"} : Ended(r, result)
    BY <1>3 DEF EnsureRefused, AwaitRaises
  <2>2. QED
    BY <1>1, <2>1, EndedEarlyContract
<1>4. QED
  BY <1>2, <1>3

\* A request that is cancelled ends, wherever it is.
LEMMA CancelContract ==
    ASSUME IInv, NEW r \in Requests, Cancel(r) PROVE Contract!Next
<1>1. CASE CancelLocked(r) \/ CancelAwait(r) \/ CancelCreate(r)
  <2>1. /\ Ended(r, "cancelled") /\ req[r].at \notin {"idle", "done"}
        /\ UNCHANGED <<managed, executed, closing, closed>>
    BY <1>1 DEF CancelLocked, CancelAwait, CancelCreate, At, mode, ending
  <2>2. QED
    BY <2>1, EndedEarlyContract
<1>2. CASE CancelPost(r)
  <2>1. PICK ran \in {0, 1} : executed' = [executed EXCEPT ![r] = @ + ran]
    <3>1. \E ran \in 0 .. 1 : executed' = [executed EXCEPT ![r] = @ + ran]
      BY <1>2, Zenon DEF CancelPost
    <3>2. 0 .. 1 = {0, 1}
      OBVIOUS
    <3>3. QED
      BY <3>1, <3>2, Zenon
  <2>2. /\ Ended(r, "cancelled") /\ req[r].at = "post"
        /\ UNCHANGED <<managed, closing, closed>>
    BY <1>2 DEF CancelPost, At, mode, ending
  <2>3. "cancelled" \in Results \cup {"cancelled"}
    OBVIOUS
  <2>4. QED
    BY <2>1, <2>2, <2>3, EndedContract
<1>3. QED
  BY <1>1, <1>2 DEF Cancel

\* The first close() closes the door, and ends when nobody is behind it any more.
LEMMA CloseContract ==
    ASSUME IInv, NEW k \in Closers, CloseBegin(k) \/ CloserStep(k)
    PROVE  Contract!Next \/ UNCHANGED Contract!tvars
<1>1. (\A q \in Requests : Place(q)' = Place(q)) /\ UNCHANGED <<managed, executed, outcome>>
  <2>1. UNCHANGED <<req, managed, executed, outcome>>
    BY DEF CloseBegin, CloserStep, CloseTake, CloseDelete, CloseWaits, calls, mode
  <2>2. QED
    BY <2>1, PlaceCases
<1>2. closing \in BOOLEAN /\ closed \in BOOLEAN /\ (closed => closing)
  BY DEF IInv, AsyncTypeOK, TypeOK, Ending
<1>3. CASE CloseBegin(k)
  <2>1. closed' = closed /\ closing' = (closing \/ ~closed)
    BY <1>3 DEF CloseBegin
  <2>2. CASE closing
    <3>1. closing' = closing
      BY <1>2, <2>1, <2>2
    <3>2. QED
      BY <1>1, <2>1, <3>1, ContractStays
  <2>3. CASE ~closing
    <3>1. Phase = "open" /\ Phase' = "closing"
      BY <1>2, <2>1, <2>3 DEF Phase
    <3>2. Contract!StartClosing
      BY <1>1, <3>1 DEF Contract!StartClosing
    <3>3. QED
      BY <3>2 DEF Contract!Next
  <2>4. QED
    BY <2>2, <2>3
<1>4. CASE CloseDelete(k)
  <2>1. closer[k] = "deleting" /\ closed' = TRUE /\ closing' = closing
    BY <1>4 DEF CloseDelete
  <2>2. closing /\ active = 0
    BY <2>1 DEF IInv, Ending
  <2>3. CASE closed
    <3>1. closed' = closed
      BY <1>2, <2>1, <2>3
    <3>2. QED
      BY <1>1, <2>1, <3>1, ContractStays
  <2>4. CASE ~closed
    <3>1. Phase = "closing" /\ Phase' = "closed"
      BY <2>1, <2>2, <2>4 DEF Phase
    <3>2. \A q \in Requests : req[q].at \in {"idle", "done"}
      BY <2>2, CountTypes DEF IInv, Counted, Inside
    <3>3. \A q \in Requests : Place(q) # "inside"
      BY <3>2, PlaceCases
    <3>4. Contract!Close
      BY <1>1, <3>1, <3>3 DEF Contract!Close
    <3>5. QED
      BY <3>4 DEF Contract!Next
  <2>5. QED
    BY <2>3, <2>4
<1>5. CASE CloseTake(k) \/ CloseWaits(k)
  <2>1. UNCHANGED <<closing, closed>>
    BY <1>5 DEF CloseTake, CloseWaits
  <2>2. QED
    BY <1>1, <2>1, ContractStays
<1>6. QED
  BY <1>3, <1>4, <1>5 DEF CloserStep

\* A transport of either class keeps the contract: an external one, which rebuilds its
\* session and does not know what became of a lost answer, and a managed one, which does.
THEOREM Refinement == EitherSpec => KeepsContract
<1>1. AsyncInit => Contract!Init
  <2> SUFFICES ASSUME AsyncInit PROVE Contract!Init
    OBVIOUS
  <2>1. \A r \in Requests : Place(r) = "before"
    BY DEF AsyncInit, Init, Outside, Place, At
  <2>2. Phase = "open"
    BY DEF AsyncInit, Init, Phase
  <2>3. QED
    BY <2>1, <2>2 DEF AsyncInit, Init, Contract!Init
<1>2. IInv /\ [EitherNext]_asyncVars => [Contract!Next]_(Contract!tvars)
  <2> SUFFICES ASSUME IInv, [EitherNext]_asyncVars
               PROVE  Contract!Next \/ UNCHANGED Contract!tvars
    OBVIOUS
  <2>1. ASSUME UNCHANGED <<managed, req, executed, outcome, closing, closed>>
        PROVE  UNCHANGED Contract!tvars
    BY <2>1, PlaceCases, ContractStays
  <2>2. CASE \/ Construct \/ AsyncConstruct \/ AttemptEnds \/ UNCHANGED asyncVars
             \/ \E s \in Sessions : Reap(s)
    <3>1. UNCHANGED <<managed, req, executed, outcome, closing, closed>>
      BY <2>2 DEF Construct, AsyncConstruct, AttemptEnds, Reap, asyncVars, vars, mode, calls, ending
    <3>2. QED
      BY <2>1, <3>1
  <2>3. ASSUME NEW r \in Requests,
               Enter(r) \/ AsyncEnter(r) \/ RequestStep(r) \/ AsyncRequestStep(r) \/ Cancel(r)
        PROVE  Contract!Next \/ UNCHANGED Contract!tvars
    BY <2>3, EnterContract, PostContract, RebuildContract, EnsureContract, CancelContract
       DEF RequestStep, AsyncRequestStep, AsyncRebuild
  <2>4. ASSUME NEW k \in Closers, CloseBegin(k) \/ CloserStep(k) \/ AcloseStep(k)
        PROVE  Contract!Next \/ UNCHANGED Contract!tvars
    BY <2>4, CloseContract DEF AcloseStep, AcloseTake, CloserStep
  <2>5. QED
    BY <2>2, <2>3, <2>4 DEF EitherNext, Next, AsyncNext
<1>3. QED
  BY <1>1, <1>2, Invariance, PTL DEF EitherSpec, KeepsContract, Contract!Spec
=============================================================================
