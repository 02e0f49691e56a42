----------------------- MODULE ManagedTransportProofs -----------------------
(***************************************************************************)
(* Theorems about _ManagedGoTransport, for any finite set of requests, any *)
(* set of close() calls and any number of instances the runtime issues.    *)
(* IInv is the inductive invariant all of them rest on.                    *)
(***************************************************************************)
EXTENDS ManagedTransport, FiniteSetTheorems, TLAPS

One(condition) == IF condition THEN 1 ELSE 0

\* The local variables of all requests.
Locals == [Requests ->
            [at : {"idle", "ensure", "prune", "pruned", "create", "await",
                   "call", "release", "retire", "leave", "done"},
             attempt : 1 .. 2, instance : Instances \cup {None},
             entry : Entries \cup {None}, retire : SUBSET Entries,
             result : Results \cup {None}]]

\* Requests by how far they are, and the users of an entry.  Who is in First may still
\* create two entries, who is only in Second one.
Inside   == {r \in Requests : req[r].at \notin {"idle", "done"}}
Using(e) == {r \in Requests : /\ req[r].entry = e
                              /\ req[r].at \in {"create", "await", "call", "release"}}
First    == {r \in Requests : /\ req[r].attempt = 1
                              /\ req[r].at \in {"idle", "ensure", "prune", "pruned"}}
Second   == {r \in Requests : /\ req[r].at \notin {"leave", "done"}
                              /\ \/ req[r].attempt = 1
                                 \/ req[r].at \in {"ensure", "prune", "pruned"}}

\* The counters count, and bound the entries that can be made.
Counted ==
    /\ active = Cardinality(Inside)
    /\ \A e \in Entries : users[e] = Cardinality(Using(e))
    /\ made + Cardinality(First) + Cardinality(Second) <= 2 * Cardinality(Requests) + 1

\* What a request's local variables mean, by where it is.
LocatedAt(r) ==
    /\ req[r].at = "idle" => req[r].attempt = 1
    /\ req[r].at \in {"prune", "pruned"} => req[r].instance \in Instances
    /\ req[r].at \in {"create", "await", "call", "release", "retire"} =>
          req[r].entry \in Entries /\ ready[req[r].entry] # "none"
    /\ req[r].at = "create" => ready[req[r].entry] = "pending"
    /\ req[r].at \in {"call", "release"} => ready[req[r].entry] = "ok"
    /\ req[r].at = "retire" => req[r].retire = {req[r].entry}
    /\ req[r].at \notin {"pruned", "retire"} => req[r].retire = {}

Located == \A r \in Requests : LocatedAt(r)

\* Nothing has run before the call, and nothing that failed early has run at all.
ExecutedAt(r) ==
    /\ req[r].at \in {"idle", "ensure", "prune", "pruned", "create", "await", "call"}
          => executed[r] = 0
    /\ req[r].at # "done" => outcome[r] = None
    /\ req[r].at \in {"release", "retire", "leave"} =>
          /\ req[r].result \in Results
          /\ req[r].result = "ok" => executed[r] = 1
          /\ req[r].result \in {"unavailable", "notfound"} => executed[r] = 0
    /\ executed[r] <= 1
    /\ outcome[r] = "ok" => executed[r] = 1
    /\ outcome[r] = "unavailable" => executed[r] = 0

Executed == \A r \in Requests : ExecutedAt(r)

\* Entries are mapped under their own instance, and each is made by one request.
Created ==
    /\ \A e \in Entries :
        /\ ready[e] # "none" <=> e <= made
        /\ ready[e] # "none" => of[e] \in Instances
        /\ ready[e] = "pending" => \E r \in Requests : At(r, "create") /\ req[r].entry = e
    /\ \A i \in Instances : mapped[i] # None => of[mapped[i]] = i /\ ready[mapped[i]] # "none"
    /\ \A r, q \in Requests :
        At(r, "create") /\ At(q, "create") /\ req[r].entry = req[q].entry => r = q

Mapped(e) == of[e] \in Instances /\ mapped[of[e]] = e
Kept(e)   == Mapped(e) \/ users[e] > 0

\* An entry that was not kept is in one pair of hands, or was closed by it.  An entry
\* that is not ready is never retired: while it is mapped, somebody uses it.
OwnedAt(e) ==
    /\ closes[e] <= 1
    /\ ready[e] # "ok" => closes[e] = 0 /\ (Mapped(e) => users[e] > 0)
    /\ Kept(e) => closes[e] = 0
    /\ e \in doomed => ready[e] = "ok" /\ closes[e] = 0 /\ ~Kept(e)
    /\ ready[e] = "ok" /\ ~Kept(e) /\ closes[e] = 0 =>
          e \in doomed \/ \E r \in Requests : e \in req[r].retire

RetiredBy(r, e) ==
    /\ ready[e] = "ok" /\ closes[e] = 0 /\ ~Kept(e) /\ e \notin doomed
    /\ \A q \in Requests : e \in req[q].retire => q = r

Owned ==
    /\ \A e \in Entries : OwnedAt(e)
    /\ \A r \in Requests : \A e \in req[r].retire : RetiredBy(r, e)

\* One close() does the work.  From the moment it takes the entries no request is
\* inside, and none enters.
Ending ==
    /\ done => closing
    /\ \A k \in Closers : closer[k] # "idle" => closing
    /\ \A k, j \in Closers :
        closer[k] \in {"draining", "closing"} /\ closer[j] \in {"draining", "closing"} => k = j
    /\ \A k \in Closers : closer[k] \in {"draining", "closing"} => ~done
    /\ \A k \in Closers : closer[k] = "over" => done
    /\ done \/ (\E k \in Closers : closer[k] = "closing")
         => active = 0 /\ \A i \in Instances : mapped[i] = None
    /\ doomed # {} => \E k \in Closers : closer[k] = "closing"
    /\ released = One(done)

IInv ==
    /\ TypeOK
    /\ Counted
    /\ Located
    /\ Executed
    /\ Created
    /\ Owned
    /\ Ending
-----------------------------------------------------------------------------
\* A finite set of which at most one element comes or goes.
LEMMA CountOne ==
    ASSUME NEW S, NEW T, NEW x, IsFiniteSet(S), IsFiniteSet(T), S \ {x} = T \ {x}
    PROVE  /\ Cardinality(S) \in Nat /\ Cardinality(T) \in Nat
           /\ Cardinality(T) + One(x \in S) = Cardinality(S) + One(x \in T)
<1>1. Cardinality(S) \in Nat /\ Cardinality(T) \in Nat
  BY FS_CardinalityType
<1>2. Cardinality(S \ {x}) = Cardinality(S) - One(x \in S)
  BY <1>1, FS_RemoveElement DEF One
<1>3. Cardinality(T \ {x}) = Cardinality(T) - One(x \in T)
  BY <1>1, FS_RemoveElement DEF One
<1>4. QED
  BY <1>1, <1>2, <1>3 DEF One

\* Every set of requests is finite and no larger than that of all.
LEMMA CountRequests ==
    ASSUME NEW S \in SUBSET Requests
    PROVE  /\ IsFiniteSet(S)
           /\ Cardinality(S) \in Nat /\ Cardinality(Requests) \in Nat
           /\ Cardinality(S) <= Cardinality(Requests)
<1>1. IsFiniteSet(S) /\ Cardinality(S) <= Cardinality(Requests)
  BY FS_Subset, TransportAssumption
<1>2. QED
  BY <1>1, FS_CardinalityType, TransportAssumption

\* A step of one request moves that request and no other from set to set.
LEMMA CountMoved ==
    ASSUME NEW r \in Requests, \A q \in Requests \ {r} : req'[q] = req[q]
    PROVE  /\ Cardinality(Inside') + One(r \in Inside)
                 = Cardinality(Inside) + One(r \in Inside')
           /\ Cardinality(First') + One(r \in First)
                 = Cardinality(First) + One(r \in First')
           /\ Cardinality(Second') + One(r \in Second)
                 = Cardinality(Second) + One(r \in Second')
           /\ \A e : Cardinality(Using(e)') + One(r \in Using(e))
                 = Cardinality(Using(e)) + One(r \in Using(e)')
<1>1. /\ Inside \in SUBSET Requests /\ Inside' \in SUBSET Requests
      /\ Inside \ {r} = Inside' \ {r}
  BY DEF Inside
<1>2. /\ First \in SUBSET Requests /\ First' \in SUBSET Requests
      /\ First \ {r} = First' \ {r}
  BY DEF First
<1>3. /\ Second \in SUBSET Requests /\ Second' \in SUBSET Requests
      /\ Second \ {r} = Second' \ {r}
  BY DEF Second
<1>4. ASSUME NEW e
      PROVE  Cardinality(Using(e)') + One(r \in Using(e))
               = Cardinality(Using(e)) + One(r \in Using(e)')
  <2>1. /\ Using(e) \in SUBSET Requests /\ Using(e)' \in SUBSET Requests
        /\ Using(e) \ {r} = Using(e)' \ {r}
    BY DEF Using
  <2>2. QED
    BY <2>1, CountRequests, CountOne
<1>5. QED
  BY <1>1, <1>2, <1>3, <1>4, CountRequests, CountOne

\* All counts are numbers, and not zero for a set that has an element.
LEMMA CountTypes ==
    /\ Cardinality(Requests) \in Nat
    /\ Cardinality(Inside) \in 0 .. Cardinality(Requests)
    /\ Cardinality(First) \in 0 .. Cardinality(Requests)
    /\ Cardinality(Second) \in 0 .. Cardinality(Requests)
    /\ \A e : Cardinality(Using(e)) \in 0 .. Cardinality(Requests)
    /\ (Inside = {} <=> Cardinality(Inside) = 0)
    /\ (First = {} <=> Cardinality(First) = 0)
    /\ (Second = {} <=> Cardinality(Second) = 0)
    /\ \A e : (Using(e) = {} <=> Cardinality(Using(e)) = 0)
<1>1. /\ Inside \in SUBSET Requests /\ First \in SUBSET Requests /\ Second \in SUBSET Requests
      /\ \A e : Using(e) \in SUBSET Requests
  BY DEF Inside, First, Second, Using
<1>2. QED
  BY <1>1, CountRequests, FS_EmptySet

\* The bounds of the types, as numbers.
LEMMA Bounds ==
    /\ Entries = 1 .. (2 * Cardinality(Requests) + 1)
    /\ Cardinality(Entries) = 2 * Cardinality(Requests) + 1
    /\ Cardinality(Entries) \in Nat /\ Instances \subseteq Nat /\ None \notin Nat \cup Results
    /\ 1 \in Entries /\ 1 \in Instances
<1>1. Cardinality(Requests) \in Nat
  BY CountTypes
<1>2. Cardinality(1 .. (2 * Cardinality(Requests) + 1)) = 2 * Cardinality(Requests) + 1
  BY <1>1, FS_Interval
<1>3. QED
  BY <1>1, <1>2, TransportAssumption DEF Entries, Instances

\* The transport starts with one entry, which is mapped, and with nobody inside.
LEMMA InitIInv == Init => IInv
<1> SUFFICES ASSUME Init PROVE IInv
  OBVIOUS
<1> USE CountTypes, Bounds DEF Init, At
<1>1. TypeOK
  <2>1. closed \in BOOLEAN /\ closing \in BOOLEAN /\ done \in BOOLEAN
    OBVIOUS
  <2>2. req \in Locals
    BY DEF Locals
  <2>3. issued \in 0 .. MaxInstances
    BY TransportAssumption
  <2>4. QED
    BY <2>1, <2>2, <2>3 DEF TypeOK, Results, Locals
<1>2. Counted
  <2>1. Inside = {} /\ \A e \in Entries : Using(e) = {}
    BY DEF Inside, Using
  <2>2. QED
    BY <2>1 DEF Counted
<1>3. Located
  BY DEF Located, LocatedAt
<1>4. Executed
  BY DEF Executed, ExecutedAt, Results
<1>5. Created
  BY DEF Created
<1>6. Owned
  BY DEF Owned, OwnedAt, RetiredBy, Kept, Mapped
<1>7. Ending
  BY DEF Ending, One
<1>8. QED
  BY <1>1, <1>2, <1>3, <1>4, <1>5, <1>6, <1>7 DEF IInv

-----------------------------------------------------------------------------
\* A sum that does not grow stays below its bound, when parts are exchanged for others.
LEMMA SumKept ==
    ASSUME NEW x \in Int, NEW y \in Int, NEW x1 \in Int, NEW y1 \in Int,
           NEW w \in Int, NEW z \in Int, NEW w1 \in Int, NEW z1 \in Int,
           NEW rest \in Int, NEW rest1 \in Int, NEW bound \in Int,
           x1 + w = x + w1, y1 + z = y + z1,
           rest1 + w1 + z1 <= rest + w + z,
           rest + x + y <= bound
    PROVE  rest1 + x1 + y1 <= bound
OBVIOUS

\* What a step of one request has to show of the counters.
LEMMA CountedStep ==
    ASSUME TypeOK, Counted,
           NEW r \in Requests, \A q \in Requests \ {r} : req'[q] = req[q],
           active' \in Int, active' + One(r \in Inside) = active + One(r \in Inside'),
           \A e \in Entries :
              /\ users'[e] \in Int
              /\ users'[e] + One(r \in Using(e)) = users[e] + One(r \in Using(e)'),
           made' \in Nat,
           made' + One(r \in First') + One(r \in Second')
             <= made + One(r \in First) + One(r \in Second)
    PROVE  /\ Counted'
           /\ active' \in 0 .. Cardinality(Requests)
           /\ \A e \in Entries : users'[e] \in 0 .. Cardinality(Requests)
           /\ made' \in 0 .. Cardinality(Entries)
<1> DEFINE size == Cardinality(Requests)
<1>1. /\ Inside' \in SUBSET Requests /\ First' \in SUBSET Requests /\ Second' \in SUBSET Requests
      /\ \A e : Using(e)' \in SUBSET Requests
  BY DEF Inside, First, Second, Using
<1>2. /\ Cardinality(Inside') \in 0 .. size /\ Cardinality(First') \in 0 .. size
      /\ Cardinality(Second') \in 0 .. size /\ \A e : Cardinality(Using(e)') \in 0 .. size
  BY <1>1, CountRequests
<1>3. /\ size \in Nat /\ made \in Nat
      /\ Cardinality(Inside) \in 0 .. size /\ Cardinality(First) \in 0 .. size
      /\ Cardinality(Second) \in 0 .. size /\ \A e : Cardinality(Using(e)) \in 0 .. size
  BY CountTypes, Bounds DEF TypeOK
<1>4. /\ One(r \in Inside) \in Int /\ One(r \in Inside') \in Int
      /\ One(r \in First) \in Int /\ One(r \in First') \in Int
      /\ One(r \in Second) \in Int /\ One(r \in Second') \in Int
      /\ \A e : One(r \in Using(e)) \in Int /\ One(r \in Using(e)') \in Int
  BY DEF One
<1>5. active' = Cardinality(Inside')
  BY <1>2, <1>3, <1>4, CountMoved DEF Counted
<1>6. ASSUME NEW e \in Entries PROVE users'[e] = Cardinality(Using(e)')
  <2>1. users[e] = Cardinality(Using(e))
    BY DEF Counted
  <2>2. Cardinality(Using(e)') + One(r \in Using(e)) = Cardinality(Using(e)) + One(r \in Using(e)')
    BY CountMoved
  <2>3. /\ Cardinality(Using(e)) \in Int /\ Cardinality(Using(e)') \in Int
        /\ One(r \in Using(e)) \in Int /\ One(r \in Using(e)') \in Int
        /\ users'[e] \in Int
        /\ users'[e] + One(r \in Using(e)) = users[e] + One(r \in Using(e)')
    BY <1>2, <1>3, <1>4
  <2>4. QED
    BY ONLY <2>1, <2>2, <2>3
<1>7. made' + Cardinality(First') + Cardinality(Second') <= 2 * size + 1
  BY <1>2, <1>3, <1>4, CountMoved, SumKept DEF Counted
<1>8. Counted'
  BY <1>5, <1>6, <1>7 DEF Counted
<1>9. made' <= 2 * size + 1
  BY <1>2, <1>3, <1>7
<1>10. made' \in 0 .. Cardinality(Entries)
  BY ONLY <1>3, <1>9, Bounds, made' \in Nat
<1>11. QED
  BY <1>2, <1>5, <1>6, <1>8, <1>10

\* A request moves on without touching the entries.
LEMMA MoveIInv ==
    ASSUME IInv, NEW r \in Requests,
           UNCHANGED <<runtime, entries, ending>>,
           req' \in Locals, \A q \in Requests \ {r} : req'[q] = req[q],
           \A e \in Entries : r \in Using(e) <=> r \in Using(e)',
           ~At(r, "create"), ~At(r, "create")', req'[r].retire = req[r].retire,
           One(r \in First') + One(r \in Second') <= One(r \in First) + One(r \in Second),
           active' \in Int, active' + One(r \in Inside) = active + One(r \in Inside'),
           r \in Inside' => r \in Inside \/ ~closing,
           executed' \in [Requests -> 0 .. 2], outcome' \in [Requests -> Results \cup {None}],
           \A q \in Requests \ {r} : executed'[q] = executed[q] /\ outcome'[q] = outcome[q],
           LocatedAt(r)', ExecutedAt(r)'
    PROVE  IInv'
<1> USE DEF IInv, At, runtime, entries, ending
<1>1. Counted' /\ active' \in 0 .. Cardinality(Requests)
  <2>1. /\ One(r \in First) \in Int /\ One(r \in First') \in Int
        /\ One(r \in Second) \in Int /\ One(r \in Second') \in Int
        /\ \A e : One(r \in Using(e)) \in Int
    BY DEF One
  <2>2. made \in Nat /\ \A e \in Entries : users[e] \in Int
    <3>1. made \in Nat
      BY Bounds DEF TypeOK
    <3>2. ASSUME NEW e \in Entries PROVE users[e] \in Int
      BY CountTypes DEF TypeOK
    <3>3. QED
      BY <3>1, <3>2
  <2>3. made' \in Nat /\ made' + One(r \in First') + One(r \in Second')
                             <= made + One(r \in First) + One(r \in Second)
    BY <2>1, <2>2
  <2>4. \A e \in Entries :
              /\ users'[e] \in Int
              /\ users'[e] + One(r \in Using(e)) = users[e] + One(r \in Using(e)')
    BY <2>2 DEF One
  <2>5. QED
    BY <2>3, <2>4, CountedStep
<1>2. TypeOK'
  BY <1>1 DEF TypeOK, Locals
<1>3. Located'
  BY DEF Located, LocatedAt
<1>4. Executed'
  BY DEF Executed, ExecutedAt
<1>5. Created'
  BY DEF Created
<1>6. Owned'
  <2>1. \A q \in Requests : req'[q].retire = req[q].retire
    OBVIOUS
  <2>2. QED
    BY <2>1 DEF Owned, OwnedAt, RetiredBy, Kept, Mapped
<1>7. Ending'
  <2>1. active = 0 /\ closing => active' = 0
    <3>1. active = 0 => r \notin Inside
      BY CountTypes DEF Counted
    <3>2. active \in Int
      BY CountTypes DEF TypeOK
    <3>3. active = 0 /\ closing => r \notin Inside /\ r \notin Inside'
      BY <3>1
    <3>4. active' + One(r \in Inside) = active + One(r \in Inside') /\ active' \in Int
      OBVIOUS
    <3>5. active = 0 /\ closing => One(r \in Inside) = 0 /\ One(r \in Inside') = 0
      BY ONLY <3>3, Zenon DEF One
    <3>6. QED
      BY ONLY <3>2, <3>4, <3>5
  <2>2. QED
    BY <2>1 DEF Ending
<1>8. QED
  BY <1>1, <1>2, <1>3, <1>4, <1>5, <1>6, <1>7

\* The sets a request is in, by where it is.
LEMMA Places ==
    ASSUME TypeOK, NEW r \in Requests
    PROVE  /\ req \in Locals
           /\ (r \in Inside <=> req[r].at \notin {"idle", "done"})
           /\ (r \in Inside' <=> req'[r].at \notin {"idle", "done"})
           /\ (r \in First <=> /\ req[r].attempt = 1
                               /\ req[r].at \in {"idle", "ensure", "prune", "pruned"})
           /\ (r \in First' <=> /\ req'[r].attempt = 1
                                /\ req'[r].at \in {"idle", "ensure", "prune", "pruned"})
           /\ (r \in Second <=> /\ req[r].at \notin {"leave", "done"}
                                /\ \/ req[r].attempt = 1
                                   \/ req[r].at \in {"ensure", "prune", "pruned"})
           /\ (r \in Second' <=> /\ req'[r].at \notin {"leave", "done"}
                                 /\ \/ req'[r].attempt = 1
                                    \/ req'[r].at \in {"ensure", "prune", "pruned"})
           /\ \A e : (r \in Using(e) <=> /\ req[r].entry = e
                                         /\ req[r].at \in {"create", "await", "call", "release"})
           /\ \A e : (r \in Using(e)' <=> /\ req'[r].entry = e
                                          /\ req'[r].at \in {"create", "await", "call", "release"})
<1>1. req \in Locals
  BY DEF TypeOK, Locals
<1>2. QED
  BY <1>1 DEF Inside, First, Second, Using

\* handle_request begins.
LEMMA BeginIInv == ASSUME IInv, NEW r \in Requests, Begin(r) PROVE IInv'
<1> USE DEF At
<1>1. req \in Locals /\ TypeOK
  BY Places DEF IInv
<1>2. /\ req[r].at = "idle" /\ UNCHANGED <<runtime, entries, executed, ending>>
      /\ active \in Int /\ executed \in [Requests -> 0 .. 2]
      /\ outcome \in [Requests -> Results \cup {None}]
  BY CountTypes DEF Begin, IInv, TypeOK
<1>3. LocatedAt(r) /\ ExecutedAt(r)
  BY DEF IInv, Located, Executed
<1>4. CASE closing \/ done
  <2>1. /\ req' = [req EXCEPT ![r].at = "done"] /\ active' = active
        /\ outcome' = [outcome EXCEPT ![r] = "unavailable"]
    BY <1>4 DEF Begin
  <2>2. /\ req' \in Locals /\ \A q \in Requests \ {r} : req'[q] = req[q]
        /\ req'[r].at = "done" /\ req'[r].attempt = req[r].attempt
        /\ req'[r].entry = req[r].entry /\ req'[r].retire = req[r].retire
    BY ONLY <1>1, <2>1, r \in Requests DEF Locals
  <2>3. LocatedAt(r)' /\ ExecutedAt(r)'
    BY <1>1, <1>2, <1>3, <2>1, <2>2 DEF LocatedAt, ExecutedAt
  <2>4. /\ \A e \in Entries : r \in Using(e) <=> r \in Using(e)'
        /\ One(r \in First') + One(r \in Second') <= One(r \in First) + One(r \in Second)
        /\ r \notin Inside /\ r \notin Inside'
    <3>1. /\ \A e : r \notin Using(e) /\ r \notin Using(e)'
          /\ r \in First' => r \in First
          /\ r \in Second' => r \in Second
          /\ r \notin Inside /\ r \notin Inside'
      BY <1>1, <1>2, <1>3, <2>2, Places DEF LocatedAt
    <3>2. QED
      BY <3>1 DEF One
  <2>5. active' \in Int /\ active' + One(r \in Inside) = active + One(r \in Inside')
    BY <1>2, <2>1, <2>4
  <2>6. /\ outcome' \in [Requests -> Results \cup {None}] /\ executed' = executed
        /\ \A q \in Requests \ {r} : executed'[q] = executed[q] /\ outcome'[q] = outcome[q]
    BY <1>2, <2>1 DEF Results
  <2>7. QED
    BY <1>2, <2>2, <2>3, <2>4, <2>5, <2>6, MoveIInv
<1>5. CASE ~(closing \/ done)
  <2>1. /\ req' = [req EXCEPT ![r].at = "ensure"] /\ active' = active + 1
        /\ outcome' = outcome /\ ~closing
    BY <1>5 DEF Begin
  <2>2. /\ req' \in Locals /\ \A q \in Requests \ {r} : req'[q] = req[q]
        /\ req'[r].at = "ensure" /\ req'[r].attempt = req[r].attempt
        /\ req'[r].entry = req[r].entry /\ req'[r].retire = req[r].retire
    BY ONLY <1>1, <2>1, r \in Requests DEF Locals
  <2>3. LocatedAt(r)' /\ ExecutedAt(r)'
    BY <1>1, <1>2, <1>3, <2>1, <2>2 DEF LocatedAt, ExecutedAt
  <2>4. /\ \A e \in Entries : r \in Using(e) <=> r \in Using(e)'
        /\ One(r \in First') + One(r \in Second') <= One(r \in First) + One(r \in Second)
        /\ r \notin Inside /\ r \in Inside'
    <3>1. /\ \A e : r \notin Using(e) /\ r \notin Using(e)'
          /\ r \in First' => r \in First
          /\ r \in Second' <=> r \in Second
          /\ r \notin Inside /\ r \in Inside'
      BY <1>1, <1>2, <1>3, <2>2, Places DEF LocatedAt
    <3>2. QED
      BY <3>1 DEF One
  <2>5. active' \in Int /\ active' + One(r \in Inside) = active + One(r \in Inside')
    BY <1>2, <2>1, <2>4 DEF One
  <2>6. QED
    BY <1>2, <2>1, <2>2, <2>3, <2>4, <2>5, MoveIInv
<1>6. QED
  BY <1>4, <1>5

\* A step inside handle_request that only moves the request, by its local variables.
LEMMA InsideMoveIInv ==
    ASSUME IInv, NEW r \in Requests,
           UNCHANGED <<runtime, entries, ending, outcome, active>>,
           req' \in Locals, \A q \in Requests \ {r} : req'[q] = req[q],
           req[r].at \notin {"idle", "create", "done"},
           req'[r].at \notin {"idle", "create", "done"},
           req'[r].retire = req[r].retire,
           req'[r].attempt = req[r].attempt \/ req'[r].at = "leave",
           \/ /\ req[r].at \in {"await", "call", "release"}
              /\ req'[r].at \in {"await", "call", "release"}
              /\ req'[r].entry = req[r].entry
           \/ /\ req[r].at \notin {"await", "call", "release"}
              /\ req'[r].at \notin {"await", "call", "release"},
           req'[r].at \in {"ensure", "prune", "pruned"} => req[r].at \in {"ensure", "prune", "pruned"},
           req[r].at = "leave" => req'[r].at = "leave",
           executed' \in [Requests -> 0 .. 2],
           \A q \in Requests \ {r} : executed'[q] = executed[q],
           LocatedAt(r)', ExecutedAt(r)'
    PROVE  IInv'
<1>1. req \in Locals /\ TypeOK /\ active \in Int /\ outcome \in [Requests -> Results \cup {None}]
  BY Places, CountTypes DEF IInv, TypeOK
<1>2. /\ \A e \in Entries : r \in Using(e) <=> r \in Using(e)'
      /\ r \in First' => r \in First
      /\ r \in Second' => r \in Second
      /\ r \in Inside /\ r \in Inside'
  BY <1>1, Places
<1>3. One(r \in First') + One(r \in Second') <= One(r \in First) + One(r \in Second)
  BY <1>2 DEF One
<1>4. active' \in Int /\ active' + One(r \in Inside) = active + One(r \in Inside')
  BY <1>1, <1>2 DEF One
<1>5. QED
  BY <1>1, <1>2, <1>3, <1>4, MoveIInv DEF At

\* runtime.ensure() answers, or raises.
LEMMA EnsureIInv ==
    ASSUME IInv, NEW r \in Requests, Ensure(r) \/ EnsureRaises(r) PROVE IInv'
<1> USE DEF At
<1>1. /\ req \in Locals /\ req[r].at = "ensure" /\ executed \in [Requests -> 0 .. 2]
      /\ LocatedAt(r) /\ ExecutedAt(r) /\ None \notin Results
      /\ UNCHANGED <<runtime, entries, executed, outcome, active, ending>>
  BY Places, Bounds DEF Ensure, EnsureRaises, IInv, TypeOK, Located, Executed
<1>2. CASE Ensure(r)
  <2>1. req' = [req EXCEPT ![r].at = "prune", ![r].instance = service] /\ service \in Instances
    BY <1>2 DEF Ensure, IInv, TypeOK
  <2>2. /\ req' \in Locals /\ \A q \in Requests \ {r} : req'[q] = req[q]
        /\ req'[r].at = "prune" /\ req'[r].attempt = req[r].attempt
        /\ req'[r].instance \in Instances /\ req'[r].retire = req[r].retire
    BY ONLY <1>1, <2>1, r \in Requests, ZenonT(30) DEF Locals
  <2>3. LocatedAt(r)' /\ ExecutedAt(r)'
    BY <1>1, <2>2 DEF LocatedAt, ExecutedAt
  <2>4. QED
    BY <1>1, <2>2, <2>3, InsideMoveIInv
<1>3. CASE EnsureRaises(r)
  <2>1. PICK error \in {"unavailable", "error"} :
            req' = [req EXCEPT ![r] = Leaving(error)]
    BY <1>3 DEF EnsureRaises
  <2>2. /\ req' \in Locals /\ \A q \in Requests \ {r} : req'[q] = req[q]
        /\ req'[r].at = "leave" /\ req'[r].result = error /\ error \in Results
        /\ req'[r].retire = req[r].retire
    <3>1. req' = [req EXCEPT ![r] = [at |-> "leave", attempt |-> 1, instance |-> None,
                                     entry |-> None, retire |-> {}, result |-> error]]
      BY <2>1 DEF Leaving
    <3>2. req[r].retire = {}
      BY <1>1 DEF LocatedAt
    <3>3. QED
      BY ONLY <1>1, <2>1, <3>1, <3>2, r \in Requests DEF Locals, Results
  <2>3. LocatedAt(r)' /\ ExecutedAt(r)'
    BY <1>1, <2>1, <2>2 DEF LocatedAt, ExecutedAt
  <2>4. QED
    BY <1>1, <2>2, <2>3, InsideMoveIInv
<1>4. QED
  BY <1>2, <1>3

\* The entry proves to be usable.
LEMMA AwaitIInv == ASSUME IInv, NEW r \in Requests, Await(r) PROVE IInv'
<1> USE DEF At
<1>1. /\ req \in Locals /\ req[r].at = "await" /\ executed \in [Requests -> 0 .. 2]
      /\ LocatedAt(r) /\ ExecutedAt(r) /\ ready[req[r].entry] = "ok"
      /\ UNCHANGED <<runtime, entries, executed, outcome, active, ending, ready>>
      /\ req' = [req EXCEPT ![r].at = "call"]
  BY Places DEF Await, IInv, TypeOK, Located, Executed, entries
<1>2. /\ req' \in Locals /\ \A q \in Requests \ {r} : req'[q] = req[q]
      /\ req'[r].at = "call" /\ req'[r].attempt = req[r].attempt
      /\ req'[r].entry = req[r].entry /\ req'[r].retire = req[r].retire
  BY ONLY <1>1, r \in Requests DEF Locals
<1>3. LocatedAt(r)' /\ ExecutedAt(r)'
  BY <1>1, <1>2 DEF LocatedAt, ExecutedAt
<1>4. QED
  BY <1>1, <1>2, <1>3, InsideMoveIInv

\* The inner call ends, and tells of itself what is true.
LEMMA CallIInv == ASSUME IInv, NEW r \in Requests, Call(r) PROVE IInv'
<1> USE DEF At
<1>1. /\ req \in Locals /\ req[r].at = "call" /\ executed \in [Requests -> 0 .. 2]
      /\ LocatedAt(r) /\ ExecutedAt(r)
      /\ UNCHANGED <<runtime, entries, outcome, active, ending, ready>>
  BY Places DEF Call, IInv, TypeOK, Located, Executed, entries
<1>2. PICK result \in Results, ran \in 0 .. 1 :
        /\ result = "unavailable" => ran = 0
        /\ result = "notfound" => ran = 0
        /\ result = "ok" => ran = 1
        /\ executed' = [executed EXCEPT ![r] = @ + ran]
        /\ req' = [req EXCEPT ![r].at = "release", ![r].result = result]
  BY DEF Call
<1>3. /\ req' \in Locals /\ \A q \in Requests \ {r} : req'[q] = req[q]
      /\ req'[r].at = "release" /\ req'[r].attempt = req[r].attempt /\ req'[r].result = result
      /\ req'[r].entry = req[r].entry /\ req'[r].retire = req[r].retire
  BY ONLY <1>1, <1>2, r \in Requests DEF Locals
<1>4. executed[r] = 0
  BY <1>1 DEF ExecutedAt
<1>5. /\ executed' \in [Requests -> 0 .. 2] /\ executed'[r] = ran
      /\ \A q \in Requests \ {r} : executed'[q] = executed[q]
  BY <1>1, <1>2, <1>4
<1>6. LocatedAt(r)' /\ ExecutedAt(r)'
  <2>1. LocatedAt(r)'
    BY <1>1, <1>3 DEF LocatedAt
  <2>2. outcome'[r] = None /\ None # "ok" /\ None # "unavailable"
    BY <1>1, Bounds DEF ExecutedAt, Results
  <2>3. ExecutedAt(r)'
    BY <1>2, <1>3, <1>5, <2>2 DEF ExecutedAt
  <2>4. QED
    BY <2>1, <2>3
<1>7. QED
  BY <1>1, <1>3, <1>5, <1>6, InsideMoveIInv

\* handle_request returns or raises.
LEMMA LeaveIInv == ASSUME IInv, NEW r \in Requests, Leave(r) PROVE IInv'
<1> USE DEF At
<1>1. /\ req \in Locals /\ TypeOK /\ req[r].at = "leave" /\ executed \in [Requests -> 0 .. 2]
      /\ LocatedAt(r) /\ ExecutedAt(r) /\ active \in Int
      /\ outcome \in [Requests -> Results \cup {None}]
      /\ UNCHANGED <<runtime, entries, executed, ending, ready>>
      /\ req' = [req EXCEPT ![r].at = "done", ![r].result = None] /\ active' = active - 1
      /\ outcome' = [outcome EXCEPT ![r] = Raised(req[r].result)]
  BY Places, CountTypes DEF Leave, IInv, TypeOK, Located, Executed, entries
<1>2. /\ req' \in Locals /\ \A q \in Requests \ {r} : req'[q] = req[q]
      /\ req'[r].at = "done" /\ req'[r].retire = req[r].retire
  <2>1. req \in Locals /\ req' = [req EXCEPT ![r].at = "done", ![r].result = None]
    BY <1>1
  <2>2. QED
    BY ONLY <2>1, r \in Requests, ZenonT(30) DEF Locals
<1>3. req[r].result \in Results /\ Raised(req[r].result) \in Results
  BY <1>1 DEF ExecutedAt, Raised, Results
<1>4. LocatedAt(r)' /\ ExecutedAt(r)'
  <2>1. outcome'[r] = Raised(req[r].result) /\ executed' = executed
    BY <1>1
  <2>2. QED
    BY <1>1, <1>2, <1>3, <2>1 DEF LocatedAt, ExecutedAt, Raised
<1>5. /\ \A e \in Entries : r \in Using(e) <=> r \in Using(e)'
      /\ r \notin First' /\ r \notin Second' /\ r \in Inside /\ r \notin Inside'
  BY <1>1, <1>2, Places
<1>6. One(r \in First') + One(r \in Second') <= One(r \in First) + One(r \in Second)
  BY <1>5 DEF One
<1>7. active' \in Int /\ active' + One(r \in Inside) = active + One(r \in Inside')
  BY <1>1, <1>5 DEF One
<1>8. /\ outcome' \in [Requests -> Results \cup {None}] /\ executed' \in [Requests -> 0 .. 2]
      /\ \A q \in Requests \ {r} : executed'[q] = executed[q] /\ outcome'[q] = outcome[q]
  BY <1>1, <1>3
<1>9. QED
  BY <1>1, <1>2, <1>4, <1>5, <1>6, <1>7, <1>8, MoveIInv

-----------------------------------------------------------------------------
\* While a request is inside, no close() has got further than to wait for it.
LEMMA InsideIsOpen ==
    ASSUME IInv, NEW r \in Requests, req[r].at \notin {"idle", "done"}
    PROVE  /\ active # 0 /\ doomed = {}
           /\ UNCHANGED ending => Ending' /\ doomed' = {}
<1>1. r \in Inside
  BY DEF Inside
<1>2. active # 0
  BY <1>1, CountTypes DEF IInv, Counted
<1>3. ~done /\ (\A k \in Closers : closer[k] # "closing") /\ doomed = {}
  BY <1>2 DEF IInv, Ending
<1>4. ASSUME UNCHANGED ending PROVE Ending' /\ doomed' = {}
  BY <1>3, <1>4 DEF IInv, Ending, ending
<1>5. QED
  BY <1>2, <1>3, <1>4

\* _close_entry closes, and changes nothing else the transport knows of.
LEMMA CloseEntryCloses ==
    ASSUME TypeOK, NEW e \in Entries, CloseEntry(e)
    PROVE  /\ closes' = [closes EXCEPT ![e] = @ + 1]
           /\ session' \in [Entries -> {"none", "listed", "reaped", "deleted", "lost"}]
<1>1. CASE UNCHANGED session
  BY <1>1 DEF CloseEntry, TypeOK
<1>2. CASE \E left \in {"deleted", "lost"} : session' = [session EXCEPT ![e] = left]
  BY <1>2 DEF CloseEntry, TypeOK
<1>3. QED
  BY <1>1, <1>2 DEF CloseEntry

\* What a step of one request that stays inside has to show of the counters.
LEMMA InsideCounted ==
    ASSUME IInv, NEW r \in Requests, \A q \in Requests \ {r} : req'[q] = req[q],
           req[r].at \notin {"idle", "done"}, req'[r].at \notin {"idle", "done"},
           active' = active, made' = made,
           \A e \in Entries :
              users'[e] = users[e] + One(r \in Using(e)') - One(r \in Using(e)),
           r \in First' => r \in First,
           r \in Second' => r \in Second
    PROVE  Counted' /\ \A e \in Entries : users'[e] \in 0 .. Cardinality(Requests)
<1>1. /\ \A e \in Entries : users[e] \in Int
      /\ active \in Int /\ made \in Nat
  <2>1. ASSUME NEW e \in Entries PROVE users[e] \in Int
    BY CountTypes DEF IInv, TypeOK
  <2>2. QED
    BY <2>1, CountTypes, Bounds DEF IInv, TypeOK
<1>2. ASSUME NEW e \in Entries
      PROVE  users'[e] \in Int /\ users'[e] + One(r \in Using(e)) = users[e] + One(r \in Using(e)')
  <2>1. One(r \in Using(e)) \in {0, 1} /\ One(r \in Using(e)') \in {0, 1}
    BY DEF One
  <2>2. users[e] \in Int /\ users'[e] = users[e] + One(r \in Using(e)') - One(r \in Using(e))
    BY <1>1
  <2>3. QED
    BY ONLY <2>1, <2>2
<1>3. active' \in Int /\ active' + One(r \in Inside) = active + One(r \in Inside')
  BY <1>1 DEF Inside
<1>4. /\ made' \in Nat
      /\ made' + One(r \in First') + One(r \in Second')
             <= made + One(r \in First) + One(r \in Second)
  BY <1>1 DEF One
<1>5. QED
  BY <1>2, <1>3, <1>4, CountedStep DEF IInv

\* The same, when it goes on using what it uses.
LEMMA InsideCountedStill ==
    ASSUME IInv, NEW r \in Requests, \A q \in Requests \ {r} : req'[q] = req[q],
           req[r].at \notin {"idle", "done"}, req'[r].at \notin {"idle", "done"},
           UNCHANGED <<active, made, users>>,
           \/ /\ req[r].at \in {"create", "await", "call", "release"}
              /\ req'[r].at \in {"create", "await", "call", "release"}
              /\ req'[r].entry = req[r].entry
           \/ /\ req[r].at \notin {"create", "await", "call", "release"}
              /\ req'[r].at \notin {"create", "await", "call", "release"},
           r \in First' => r \in First,
           r \in Second' => r \in Second
    PROVE  Counted'
<1>1. \A e : r \in Using(e) <=> r \in Using(e)'
  BY DEF Using
<1>2. ASSUME NEW e \in Entries
      PROVE  users'[e] = users[e] + One(r \in Using(e)') - One(r \in Using(e))
  <2>1. One(r \in Using(e)) \in Int /\ One(r \in Using(e)') = One(r \in Using(e))
    BY <1>1 DEF One
  <2>2. users'[e] = users[e] /\ users[e] \in Int
    BY CountTypes DEF IInv, TypeOK
  <2>3. QED
    BY ONLY <2>1, <2>2
<1>3. active' = active /\ made' = made
  OBVIOUS
<1>4. QED
  BY <1>2, <1>3, InsideCounted

\* Who creates entries is the same, the map has no new ones.
LEMMA CreatedStays ==
    ASSUME Created, UNCHANGED <<made, of, ready>>,
           \A i \in Instances : mapped'[i] # None => mapped'[i] = mapped[i],
           \A q \in Requests : req'[q].at = "create" <=> req[q].at = "create",
           \A q \in Requests : req[q].at = "create" => req'[q].entry = req[q].entry
    PROVE  Created'
<1>1. ASSUME NEW e \in Entries, ready[e] = "pending"
      PROVE  \E q \in Requests : req'[q].at = "create" /\ req'[q].entry = e
  BY <1>1 DEF Created, At
<1>2. \A i \in Instances : mapped'[i] # None => of'[mapped'[i]] = i /\ ready'[mapped'[i]] # "none"
  BY DEF Created
<1>3. \A q, t \in Requests : req'[q].at = "create" /\ req'[t].at = "create"
                               /\ req'[q].entry = req'[t].entry => q = t
  BY DEF Created, At
<1>4. QED
  BY <1>1, <1>2, <1>3 DEF Created, At

\* _prune takes unused entries, which are ready, into the hands of the request.
LEMMA PruneIInv == ASSUME IInv, NEW r \in Requests, Prune(r) PROVE IInv'
<1> DEFINE i == req[r].instance
           old == Unused(i)
<1>1. /\ req \in Locals /\ req[r].at = "prune" /\ TypeOK
      /\ LocatedAt(r) /\ i \in Instances /\ req[r].retire = {}
      /\ mapped' = [j \in Instances |-> IF mapped[j] \in old THEN None ELSE mapped[j]]
      /\ req' = [req EXCEPT ![r].at = "pruned", ![r].retire = old]
      /\ UNCHANGED <<runtime, made, of, ready, users, closes, session,
                     executed, outcome, active, ending>>
  BY Places DEF Prune, At, IInv, Located, LocatedAt
<1>2. doomed = {} /\ doomed' = {} /\ Ending'
  BY <1>1, InsideIsOpen
<1>3. ASSUME NEW e \in Entries PROVE e \in old <=> Mapped(e) /\ of[e] # i /\ users[e] = 0
  <2>1. \A j \in Instances : mapped[j] # None => of[mapped[j]] = j
    BY DEF IInv, Created
  <2>2. e \in old <=> \E j \in Instances : j # i /\ mapped[j] # None /\ users[mapped[j]] = 0
                                        /\ mapped[j] = e
    BY DEF Unused
  <2>3. e # None
    BY Bounds
  <2>4. QED
    BY <2>1, <2>2, <2>3 DEF Mapped
<1>4. old \subseteq Entries
  BY <1>1 DEF Unused, TypeOK
<1> HIDE DEF old
<1>5. /\ req' \in Locals /\ \A q \in Requests \ {r} : req'[q] = req[q]
      /\ req'[r].at = "pruned" /\ req'[r].attempt = req[r].attempt
      /\ req'[r].instance = req[r].instance /\ req'[r].retire = old
  <2>1. old \in SUBSET Entries
    BY <1>4
  <2>2. QED
    BY ONLY <1>1, <2>1, r \in Requests, ZenonT(30) DEF Locals
<1>6. \A e \in Entries : Mapped(e)' <=> Mapped(e) /\ e \notin old
  BY <1>1, Bounds DEF Mapped
<1>7. Counted'
  BY <1>1, <1>5, Places, InsideCountedStill
<1>8. TypeOK'
  BY <1>1, <1>5 DEF TypeOK, Locals, runtime, ending
<1>9. Located'
  <2>1. LocatedAt(r)'
    BY <1>1, <1>5 DEF LocatedAt
  <2>2. ASSUME NEW q \in Requests \ {r} PROVE LocatedAt(q)'
    BY <1>1, <1>5, ZenonT(30) DEF IInv, Located, LocatedAt
  <2>3. QED
    BY <2>1, <2>2 DEF Located
<1>10. Executed'
  BY <1>1, <1>5 DEF IInv, Executed, ExecutedAt
<1>11. Created'
  <2>1. \A j \in Instances : mapped'[j] # None => mapped'[j] = mapped[j]
    BY <1>1
  <2>2. \A q \in Requests : req'[q].at = "create" <=> req[q].at = "create"
    BY <1>1, <1>5
  <2>3. \A q \in Requests : req[q].at = "create" => req'[q].entry = req[q].entry
    BY <1>1, <1>5
  <2>4. Created /\ UNCHANGED <<made, of, ready>>
    BY <1>1 DEF IInv
  <2>5. QED
    BY <2>1, <2>2, <2>3, <2>4, CreatedStays
<1>12. Owned'
  <2>1. \A q \in Requests \ {r} : req'[q].retire = req[q].retire
    BY <1>5
  <2>2. ASSUME NEW e \in Entries PROVE OwnedAt(e)'
    <3>1. /\ OwnedAt(e)
          /\ Mapped(e)' <=> Mapped(e) /\ e \notin old
          /\ Kept(e)' <=> (Mapped(e)' \/ users[e] > 0)
          /\ users'[e] = users[e] /\ ready'[e] = ready[e] /\ closes'[e] = closes[e]
      BY <1>1, <1>6 DEF IInv, Owned, Kept
    <3>2. QED
      BY <1>1, <1>2, <1>5, <2>1, <3>1 DEF OwnedAt, Kept
  <2>3. ASSUME NEW e \in old PROVE RetiredBy(r, e)'
    <3>1. Mapped(e) /\ users[e] = 0 /\ OwnedAt(e) /\ e \in Entries
      BY <1>3, <1>4 DEF IInv, Owned
    <3>2. ready[e] = "ok" /\ closes[e] = 0 /\ ~Kept(e)'
      BY <1>1, <1>6, <3>1 DEF OwnedAt, Kept
    <3>3. \A q \in Requests : e \notin req[q].retire
      BY <3>1 DEF IInv, Owned, RetiredBy, Kept
    <3>4. QED
      BY <1>1, <1>2, <1>5, <3>2, <3>3 DEF RetiredBy
  <2>4. ASSUME NEW q \in Requests \ {r}, NEW e \in req[q].retire PROVE RetiredBy(q, e)'
    <3>1. RetiredBy(q, e) /\ e \in Entries
      BY <1>1 DEF IInv, Owned, Locals
    <3>2. e \notin old
      BY <1>3, <3>1 DEF RetiredBy, Kept
    <3>3. ~Kept(e)'
      BY <1>1, <1>6, <3>1 DEF RetiredBy, Kept
    <3>4. QED
      BY <1>1, <1>2, <1>5, <3>1, <3>2, <3>3 DEF RetiredBy
  <2>5. QED
    BY <1>5, <2>1, <2>2, <2>3, <2>4 DEF Owned
<1>13. QED
  BY <1>2, <1>7, <1>8, <1>9, <1>10, <1>11, <1>12 DEF IInv

\* It closes them one by one.
LEMMA ClosePrunedIInv == ASSUME IInv, NEW r \in Requests, ClosePruned(r) PROVE IInv'
<1>1. PICK e \in req[r].retire :
        CloseEntry(e) /\ req' = [req EXCEPT ![r].retire = @ \ {e}]
  BY DEF ClosePruned
<1>2. /\ req \in Locals /\ req[r].at = "pruned" /\ TypeOK /\ e \in Entries
      /\ LocatedAt(r) /\ req[r].instance \in Instances
      /\ UNCHANGED <<runtime, mapped, made, of, ready, users,
                     executed, outcome, active, ending>>
  BY <1>1, Places DEF ClosePruned, At, IInv, Located, LocatedAt, Locals
<1>3. /\ closes' = [closes EXCEPT ![e] = @ + 1]
      /\ session' \in [Entries -> {"none", "listed", "reaped", "deleted", "lost"}]
  BY <1>1, <1>2, CloseEntryCloses
<1>4. doomed = {} /\ doomed' = {} /\ Ending'
  BY <1>2, InsideIsOpen
<1>5. /\ req' \in Locals /\ \A q \in Requests \ {r} : req'[q] = req[q]
      /\ req'[r].at = "pruned" /\ req'[r].attempt = req[r].attempt
      /\ req'[r].instance = req[r].instance /\ req'[r].retire = req[r].retire \ {e}
  BY ONLY <1>1, <1>2, r \in Requests DEF Locals
<1>6. ready[e] = "ok" /\ closes[e] = 0 /\ ~Kept(e) /\ \A q \in Requests : e \in req[q].retire => q = r
  BY <1>1, <1>2 DEF IInv, Owned, RetiredBy
<1>7. closes' \in [Entries -> Nat] /\ closes'[e] = 1 /\ \A x \in Entries \ {e} : closes'[x] = closes[x]
  BY <1>2, <1>3, <1>6 DEF TypeOK
<1>8. Counted'
  BY <1>2, <1>5, Places, InsideCountedStill
<1>9. TypeOK'
  BY <1>2, <1>3, <1>5, <1>7 DEF TypeOK, Locals, runtime, ending
<1>10. Located'
  BY <1>2, <1>5 DEF IInv, Located, LocatedAt
<1>11. Executed'
  BY <1>2, <1>5 DEF IInv, Executed, ExecutedAt
<1>12. Created'
  BY <1>2, <1>5 DEF IInv, Created, At
<1>13. Owned'
  <2>1. \A q \in Requests \ {r} : req'[q].retire = req[q].retire
    BY <1>5
  <2>2. \A x : Kept(x)' <=> Kept(x)
    BY <1>2 DEF Kept, Mapped
  <2>3. ASSUME NEW x \in Entries PROVE OwnedAt(x)'
    <3>1. OwnedAt(x)
      BY DEF IInv, Owned
    <3>2. CASE x = e
      BY <1>2, <1>4, <1>6, <1>7, <2>2, <3>2 DEF OwnedAt
    <3>3. CASE x # e
      <4>1. (Mapped(x)' <=> Mapped(x)) /\ users' = users /\ ready' = ready
        BY <1>2 DEF Mapped
      <4>2. (\E q \in Requests : x \in req[q].retire) => \E q \in Requests : x \in req'[q].retire
        BY <1>5, <2>1, <3>3
      <4>3. QED
        BY <1>4, <1>7, <2>2, <3>1, <3>3, <4>1, <4>2 DEF OwnedAt
    <3>4. QED
      BY <3>2, <3>3
  <2>4. ASSUME NEW q \in Requests, NEW x \in req'[q].retire PROVE RetiredBy(q, x)'
    <3>1. x \in req[q].retire /\ x # e /\ x \in Entries
      BY <1>2, <1>5, <1>6, <2>1 DEF Locals
    <3>2. RetiredBy(q, x)
      BY <3>1 DEF IInv, Owned
    <3>3. QED
      BY <1>2, <1>4, <1>5, <1>7, <2>1, <2>2, <3>1, <3>2 DEF RetiredBy
  <2>5. QED
    BY <2>3, <2>4 DEF Owned
<1>14. QED
  BY <1>4, <1>8, <1>9, <1>10, <1>11, <1>12, <1>13 DEF IInv

\* What a step about one entry has to show of it, and of all others.
LEMMA OwnedExcept ==
    ASSUME Owned, doomed = {}, doomed' = {},
           req \in Locals, req' \in Locals,
           NEW r \in Requests, \A q \in Requests \ {r} : req'[q] = req[q],
           NEW e \in Entries,
           \A x \in Entries \ {e} :
              /\ closes'[x] = closes[x] /\ ready'[x] = ready[x] /\ users'[x] = users[x]
              /\ Mapped(x)' <=> Mapped(x)
              /\ x \in req'[r].retire <=> x \in req[r].retire,
           OwnedAt(e)',
           \A q \in Requests : e \in req'[q].retire => RetiredBy(q, e)'
    PROVE  Owned'
<1>1. ASSUME NEW x \in Entries \ {e} PROVE Kept(x)' <=> Kept(x)
  BY DEF Kept
<1>2. ASSUME NEW x \in Entries \ {e}, NEW q \in Requests
      PROVE  x \in req'[q].retire <=> x \in req[q].retire
  OBVIOUS
<1>3. ASSUME NEW x \in Entries \ {e} PROVE OwnedAt(x)'
  <2>1. /\ OwnedAt(x)
        /\ Mapped(x)' <=> Mapped(x)
        /\ closes'[x] = closes[x] /\ ready'[x] = ready[x] /\ users'[x] = users[x]
    BY DEF Owned
  <2>2. QED
    BY <1>1, <1>2, <2>1 DEF OwnedAt
<1>4. ASSUME NEW q \in Requests, NEW x \in req'[q].retire PROVE RetiredBy(q, x)'
  <2>1. CASE x = e
    BY <2>1
  <2>2. CASE x # e
    <3>1. x \in Entries \ {e} /\ x \in req[q].retire
      BY <1>2, <2>2 DEF Locals
    <3>2. RetiredBy(q, x)
      BY <3>1 DEF Owned
    <3>3. QED
      BY <1>1, <1>2, <3>1, <3>2 DEF RetiredBy
  <2>3. QED
    BY <2>1, <2>2
<1>5. QED
  BY <1>3, <1>4 DEF Owned

\* A thread joins the entry there is.
LEMMA CheckoutJoinIInv == ASSUME IInv, NEW r \in Requests, CheckoutJoin(r) PROVE IInv'
<1>0. PICK e : e = mapped[req[r].instance]
  OBVIOUS
<1>1. /\ req \in Locals /\ req[r].at = "pruned" /\ TypeOK /\ req[r].retire = {}
      /\ LocatedAt(r) /\ ExecutedAt(r) /\ req[r].instance \in Instances /\ e # None
      /\ users' = [users EXCEPT ![e] = @ + 1]
      /\ req' = [req EXCEPT ![r].at = "await", ![r].entry = e]
      /\ UNCHANGED <<runtime, mapped, made, of, ready, closes, session,
                     executed, outcome, active, ending>>
  BY <1>0, Places DEF CheckoutJoin, At, IInv, Located, LocatedAt, Executed
<1>2. doomed = {} /\ doomed' = {} /\ Ending'
  BY <1>1, InsideIsOpen
<1>3. e \in Entries /\ of[e] = req[r].instance /\ ready[e] # "none" /\ Mapped(e)
  BY <1>0, <1>1 DEF IInv, Created, Mapped, TypeOK
<1>4. /\ req' \in Locals /\ \A q \in Requests \ {r} : req'[q] = req[q]
      /\ req'[r].at = "await" /\ req'[r].attempt = req[r].attempt
      /\ req'[r].entry = e /\ req'[r].retire = {}
  BY ONLY <1>1, <1>3, r \in Requests, ZenonT(30) DEF Locals
<1>5. \A x \in Entries : Mapped(x)' <=> Mapped(x)
  BY <1>1 DEF Mapped
<1>6. users[e] \in Nat /\ users'[e] = users[e] + 1 /\ \A x \in Entries \ {e} : users'[x] = users[x]
  BY <1>1, <1>3, CountTypes DEF TypeOK
<1>7. Counted' /\ users' \in [Entries -> 0 .. Cardinality(Requests)]
  <2>1. /\ r \notin Using(e) /\ r \in Using(e)'
        /\ \A x \in Entries \ {e} : r \notin Using(x) /\ r \notin Using(x)'
        /\ r \in First' => r \in First
        /\ r \in Second' => r \in Second
    BY <1>1, <1>4, Places
  <2>2. ASSUME NEW x \in Entries
        PROVE  users'[x] = users[x] + One(r \in Using(x)') - One(r \in Using(x))
    <3>1. users[x] \in Int
      BY <1>1, CountTypes DEF TypeOK
    <3>2. CASE x = e
      BY <1>6, <2>1, <3>2 DEF One
    <3>3. CASE x # e
      BY <1>6, <2>1, <3>1, <3>3 DEF One
    <3>4. QED
      BY <3>2, <3>3
  <2>3. Counted' /\ \A x \in Entries : users'[x] \in 0 .. Cardinality(Requests)
    BY <1>1, <1>4, <2>1, <2>2, InsideCounted
  <2>4. QED
    BY <1>1, <2>3 DEF TypeOK
<1>8. TypeOK'
  BY <1>1, <1>4, <1>7 DEF TypeOK, Locals, runtime, ending
<1>9. Located'
  <2>1. LocatedAt(r)'
    BY <1>1, <1>3, <1>4 DEF LocatedAt
  <2>2. ASSUME NEW q \in Requests \ {r} PROVE LocatedAt(q)'
    BY <1>1, <1>4, ZenonT(30) DEF IInv, Located, LocatedAt
  <2>3. QED
    BY <2>1, <2>2 DEF Located
<1>10. Executed'
  BY <1>1, <1>4 DEF IInv, Executed, ExecutedAt
<1>11. Created'
  <2>1. \A q \in Requests : req'[q].at = "create" <=> req[q].at = "create"
    BY <1>1, <1>4
  <2>2. \A q \in Requests : req[q].at = "create" => req'[q].entry = req[q].entry
    BY <1>1, <1>4
  <2>3. Created /\ UNCHANGED <<made, of, ready, mapped>>
    BY <1>1 DEF IInv
  <2>4. QED
    BY <2>1, <2>2, <2>3, CreatedStays
<1>12. Owned'
  <2>1. OwnedAt(e)
    BY <1>3 DEF IInv, Owned
  <2>2. Kept(e) /\ Kept(e)'
    BY <1>3, <1>5 DEF Kept
  <2>3. OwnedAt(e)'
    BY <1>1, <1>2, <1>6, <2>1, <2>2 DEF OwnedAt
  <2>4. \A q \in Requests : e \notin req[q].retire
    BY <2>2 DEF IInv, Owned, RetiredBy
  <2>5. \A q \in Requests : e \notin req'[q].retire
    BY <1>4, <2>4
  <2>6. \A x \in Entries \ {e} :
              /\ closes'[x] = closes[x] /\ ready'[x] = ready[x] /\ users'[x] = users[x]
              /\ Mapped(x)' <=> Mapped(x)
              /\ x \in req'[r].retire <=> x \in req[r].retire
    BY <1>1, <1>4, <1>5, <1>6
  <2>7. Owned
    BY DEF IInv
  <2>8. QED
    BY <1>1, <1>2, <1>3, <1>4, <2>3, <2>5, <2>6, <2>7, OwnedExcept
<1>13. QED
  BY <1>2, <1>7, <1>8, <1>9, <1>10, <1>11, <1>12 DEF IInv

\* Or it makes a new one, which nobody knew before.
LEMMA CheckoutCreateIInv == ASSUME IInv, NEW r \in Requests, CheckoutCreate(r) PROVE IInv'
<1>0. PICK e : e = made + 1
  OBVIOUS
<1>1. /\ req \in Locals /\ req[r].at = "pruned" /\ TypeOK /\ req[r].retire = {}
      /\ LocatedAt(r) /\ ExecutedAt(r) /\ req[r].instance \in Instances
      /\ mapped[req[r].instance] = None
      /\ made' = e
      /\ of' = [of EXCEPT ![e] = req[r].instance]
      /\ ready' = [ready EXCEPT ![e] = "pending"]
      /\ users' = [users EXCEPT ![e] = 1]
      /\ mapped' = [mapped EXCEPT ![req[r].instance] = e]
      /\ req' = [req EXCEPT ![r].at = "create", ![r].entry = e]
      /\ UNCHANGED <<runtime, closes, session, executed, outcome, active, ending>>
  BY <1>0, Places DEF CheckoutCreate, At, IInv, Located, LocatedAt, Executed
<1>2. doomed = {} /\ doomed' = {} /\ Ending'
  BY <1>1, InsideIsOpen
<1>3. made \in Nat /\ e \in Nat /\ e \in Entries /\ ready[e] = "none"
  <2>1. made \in Nat
    BY <1>1, Bounds DEF TypeOK
  <2>2. Cardinality(Second) # 0
    BY <1>1, Places, CountTypes
  <2>3. made + Cardinality(First) + Cardinality(Second) <= 2 * Cardinality(Requests) + 1
    BY DEF IInv, Counted
  <2>4. e <= 2 * Cardinality(Requests) + 1
    BY <1>0, <2>1, <2>2, <2>3, CountTypes
  <2>5. e \in Entries /\ ~(e <= made)
    BY <1>0, <2>1, <2>4, Bounds
  <2>6. QED
    BY <1>0, <2>1, <2>5 DEF IInv, Created
<1>4. /\ req' \in Locals /\ \A q \in Requests \ {r} : req'[q] = req[q]
      /\ req'[r].at = "create" /\ req'[r].attempt = req[r].attempt
      /\ req'[r].entry = e /\ req'[r].retire = {}
  <2>1. /\ req \in Locals /\ req[r].retire = {} /\ e \in Entries
        /\ req' = [req EXCEPT ![r].at = "create", ![r].entry = e]
    BY <1>1, <1>3
  <2>2. QED
    BY ONLY <2>1, r \in Requests DEF Locals
<1>5. \A q \in Requests : req[q].at \in {"create", "await", "call", "release", "retire"}
                            => req[q].entry # e
  BY <1>3 DEF IInv, Located, LocatedAt
<1>6. Using(e) = {} /\ users[e] = 0
  <2>1. Using(e) = {}
    BY <1>5 DEF Using
  <2>2. QED
    BY <1>3, <2>1, CountTypes DEF IInv, Counted
<1>7. /\ of'[e] = req[r].instance /\ ready'[e] = "pending" /\ users'[e] = 1
      /\ \A x \in Entries \ {e} : of'[x] = of[x] /\ ready'[x] = ready[x] /\ users'[x] = users[x]
      /\ \A i \in Instances : mapped'[i] = IF i = req[r].instance THEN e ELSE mapped[i]
  BY <1>1, <1>3 DEF TypeOK
<1>8. \A x \in Entries \ {e} : Mapped(x)' <=> Mapped(x)
  BY <1>1, <1>7, Bounds DEF Mapped
<1>9. /\ Counted' /\ users' \in [Entries -> 0 .. Cardinality(Requests)]
      /\ made' \in 0 .. Cardinality(Entries)
  <2>1. /\ r \notin Using(e) /\ r \in Using(e)'
        /\ \A x \in Entries \ {e} : r \notin Using(x) /\ r \notin Using(x)'
        /\ r \in Inside /\ r \in Inside' /\ r \notin First' /\ r \in Second
        /\ r \in First <=> req[r].attempt = 1
        /\ r \in Second' <=> req[r].attempt = 1
    BY <1>1, <1>4, Places
  <2>2. ASSUME NEW x \in Entries
        PROVE  users'[x] \in Int /\ users'[x] + One(r \in Using(x)) = users[x] + One(r \in Using(x)')
    <3>1. users[x] \in Int
      BY <1>1, CountTypes DEF TypeOK
    <3>2. CASE x = e
      BY <1>6, <1>7, <2>1, <3>2 DEF One
    <3>3. CASE x # e
      BY <1>7, <2>1, <3>1, <3>3 DEF One
    <3>4. QED
      BY <3>2, <3>3
  <2>3. active' \in Int /\ active' + One(r \in Inside) = active + One(r \in Inside')
    BY <1>1, <2>1, CountTypes DEF One, TypeOK
  <2>4. made' \in Nat /\ made' + One(r \in First') + One(r \in Second')
                           <= made + One(r \in First) + One(r \in Second)
    BY <1>0, <1>1, <1>3, <2>1 DEF One
  <2>5. Counted
    BY DEF IInv
  <2>6. /\ Counted' /\ \A x \in Entries : users'[x] \in 0 .. Cardinality(Requests)
        /\ made' \in 0 .. Cardinality(Entries)
    BY <1>1, <1>4, <2>2, <2>3, <2>4, <2>5, CountedStep
  <2>7. QED
    BY <1>1, <2>6 DEF TypeOK
<1>10. TypeOK'
  BY <1>1, <1>3, <1>4, <1>9 DEF TypeOK, Locals, runtime, ending
<1>11. Located'
  <2>1. LocatedAt(r)'
    BY <1>3, <1>4, <1>7 DEF LocatedAt
  <2>2. ASSUME NEW q \in Requests \ {r} PROVE LocatedAt(q)'
    <3>1. LocatedAt(q) /\ req'[q] = req[q]
      BY <1>4 DEF IInv, Located
    <3>2. QED
      BY <1>5, <1>7, <3>1 DEF LocatedAt
  <2>3. QED
    BY <2>1, <2>2 DEF Located
<1>12. Executed'
  BY <1>1, <1>4 DEF IInv, Executed, ExecutedAt
<1>13. Created'
  <2>1. ASSUME NEW x \in Entries
        PROVE  /\ ready'[x] # "none" <=> x <= made'
               /\ ready'[x] # "none" => of'[x] \in Instances
               /\ ready'[x] = "pending"
                    => \E q \in Requests : req'[q].at = "create" /\ req'[q].entry = x
    <3>1. CASE x = e
      <4>1. e <= made' /\ ready'[e] = "pending" /\ of'[e] \in Instances
        BY <1>1, <1>3, <1>7
      <4>2. req'[r].at = "create" /\ req'[r].entry = x
        BY <1>4, <3>1
      <4>3. QED
        BY <3>1, <4>1, <4>2
    <3>2. CASE x # e
      <4>1. /\ ready[x] # "none" <=> x <= made
            /\ ready[x] # "none" => of[x] \in Instances
            /\ ready[x] = "pending"
                 => \E q \in Requests : req[q].at = "create" /\ req[q].entry = x
        BY DEF IInv, Created, At
      <4>2. x <= made' <=> x <= made
        BY <1>0, <1>1, <1>3, <3>2, Bounds
      <4>3. \A q \in Requests : req[q].at = "create" => req'[q] = req[q]
        BY <1>1, <1>4
      <4>4. QED
        BY <1>7, <3>2, <4>1, <4>2, <4>3
    <3>3. QED
      BY <3>1, <3>2
  <2>2. ASSUME NEW i \in Instances, mapped'[i] # None
        PROVE  of'[mapped'[i]] = i /\ ready'[mapped'[i]] # "none"
    <3>1. CASE i = req[r].instance
      BY <1>7, <3>1
    <3>2. CASE i # req[r].instance
      <4>1. mapped'[i] = mapped[i] /\ mapped[i] \in Entries
        BY <1>1, <1>7, <2>2, <3>2 DEF TypeOK
      <4>2. of[mapped[i]] = i /\ ready[mapped[i]] # "none"
        BY <2>2, <4>1 DEF IInv, Created
      <4>3. QED
        BY <1>3, <1>7, <4>1, <4>2
    <3>3. QED
      BY <3>1, <3>2
  <2>3. ASSUME NEW q \in Requests, NEW t \in Requests, req'[q].at = "create",
               req'[t].at = "create", req'[q].entry = req'[t].entry
        PROVE  q = t
    BY <1>4, <1>5, <2>3 DEF IInv, Created, At
  <2>4. QED
    BY <2>1, <2>2, <2>3 DEF Created, At
<1>14. Owned'
  <2>1. OwnedAt(e)
    BY <1>3 DEF IInv, Owned
  <2>2. OwnedAt(e)'
    BY <1>1, <1>2, <1>3, <1>7, <2>1 DEF OwnedAt
  <2>3. \A q \in Requests : e \notin req[q].retire
    BY <1>3 DEF IInv, Owned, RetiredBy
  <2>4. \A q \in Requests : e \notin req'[q].retire
    BY <1>4, <2>3
  <2>5. \A x \in Entries \ {e} :
              /\ closes'[x] = closes[x] /\ ready'[x] = ready[x] /\ users'[x] = users[x]
              /\ Mapped(x)' <=> Mapped(x)
              /\ x \in req'[r].retire <=> x \in req[r].retire
    BY <1>1, <1>4, <1>7, <1>8
  <2>6. Owned
    BY DEF IInv
  <2>7. QED
    BY <1>1, <1>2, <1>3, <1>4, <2>2, <2>4, <2>5, <2>6, OwnedExcept
<1>15. QED
  BY <1>2, <1>9, <1>10, <1>11, <1>12, <1>13, <1>14 DEF IInv

\* The factory ends: the entry is ready, or is known to have failed.
LEMMA CreateIInv == ASSUME IInv, NEW r \in Requests, Create(r) PROVE IInv'
<1>0. PICK e : e = req[r].entry
  OBVIOUS
<1>1. /\ req \in Locals /\ req[r].at = "create" /\ TypeOK /\ req[r].retire = {}
      /\ LocatedAt(r) /\ ExecutedAt(r) /\ e \in Entries /\ ready[e] = "pending"
      /\ req' = [req EXCEPT ![r].at = "await"]
      /\ UNCHANGED <<runtime, mapped, made, of, users, closes,
                     executed, outcome, active, ending>>
  BY <1>0, Places DEF Create, At, IInv, Located, LocatedAt, Executed
<1>2. doomed = {} /\ doomed' = {} /\ Ending'
  BY <1>1, InsideIsOpen
<1>3. PICK state \in {"ok", "unavailable", "error"} : ready' = [ready EXCEPT ![e] = state]
  BY <1>0 DEF Create
<1>4. session' \in [Entries -> {"none", "listed", "reaped", "deleted", "lost"}]
  <2>1. CASE UNCHANGED session
    BY <1>1, <2>1 DEF TypeOK
  <2>2. CASE session' = [session EXCEPT ![e] = "listed"]
    BY <1>1, <2>2 DEF TypeOK
  <2>3. QED
    BY <1>0, <2>1, <2>2 DEF Create
<1>5. /\ req' \in Locals /\ \A q \in Requests \ {r} : req'[q] = req[q]
      /\ req'[r].at = "await" /\ req'[r].attempt = req[r].attempt
      /\ req'[r].entry = e /\ req'[r].retire = {}
  BY ONLY <1>0, <1>1, r \in Requests DEF Locals
<1>6. /\ ready' \in [Entries -> {"none", "pending", "ok", "unavailable", "error"}]
      /\ ready'[e] = state /\ \A x \in Entries \ {e} : ready'[x] = ready[x]
  BY <1>1, <1>3 DEF TypeOK
<1>7. users[e] > 0
  <2>1. r \in Using(e)
    BY <1>0, <1>1 DEF Using
  <2>2. users[e] = Cardinality(Using(e)) /\ Cardinality(Using(e)) # 0
    BY <1>1, <2>1, CountTypes DEF IInv, Counted
  <2>3. QED
    BY <2>2, CountTypes
<1>8. Counted'
  BY <1>0, <1>1, <1>5, Places, InsideCountedStill
<1>9. TypeOK'
  BY <1>1, <1>4, <1>5, <1>6 DEF TypeOK, Locals, runtime, ending
<1>10. Located'
  <2>1. LocatedAt(r)'
    BY <1>1, <1>5, <1>6 DEF LocatedAt
  <2>2. ASSUME NEW q \in Requests \ {r} PROVE LocatedAt(q)'
    <3>1. LocatedAt(q) /\ req'[q] = req[q]
      BY <1>5 DEF IInv, Located
    <3>2. req[q].at = "create" => req[q].entry # e
      BY <1>0, <1>1 DEF IInv, Created, At
    <3>3. QED
      BY <1>1, <1>6, <3>1, <3>2 DEF LocatedAt
  <2>3. QED
    BY <2>1, <2>2 DEF Located
<1>11. Executed'
  BY <1>1, <1>5 DEF IInv, Executed, ExecutedAt
<1>12. Created'
  <2>1. ASSUME NEW x \in Entries
        PROVE  /\ ready'[x] # "none" <=> x <= made'
               /\ ready'[x] # "none" => of'[x] \in Instances
    BY <1>1, <1>6 DEF IInv, Created
  <2>2. ASSUME NEW x \in Entries, ready'[x] = "pending"
        PROVE  \E q \in Requests : req'[q].at = "create" /\ req'[q].entry = x
    <3>1. x # e /\ ready[x] = "pending"
      BY <1>6, <2>2
    <3>2. PICK q \in Requests : req[q].at = "create" /\ req[q].entry = x
      BY <3>1 DEF IInv, Created, At
    <3>3. QED
      BY <1>0, <1>5, <3>1, <3>2
  <2>3. ASSUME NEW i \in Instances, mapped'[i] # None
        PROVE  of'[mapped'[i]] = i /\ ready'[mapped'[i]] # "none"
    <3>1. mapped'[i] = mapped[i] /\ mapped[i] \in Entries
      BY <1>1, <2>3 DEF TypeOK
    <3>2. QED
      BY <1>1, <1>6, <2>3, <3>1 DEF IInv, Created
  <2>4. ASSUME NEW q \in Requests, NEW t \in Requests, req'[q].at = "create",
               req'[t].at = "create", req'[q].entry = req'[t].entry
        PROVE  q = t
    BY <1>5, <2>4 DEF IInv, Created, At
  <2>5. QED
    BY <2>1, <2>2, <2>3, <2>4 DEF Created, At
<1>13. Owned'
  <2>1. OwnedAt(e)
    BY <1>1 DEF IInv, Owned
  <2>2. Kept(e) /\ Kept(e)' /\ users'[e] > 0
    BY <1>1, <1>7 DEF Kept
  <2>3. OwnedAt(e)'
    BY <1>1, <1>2, <1>6, <2>1, <2>2 DEF OwnedAt
  <2>4. \A q \in Requests : e \notin req[q].retire
    BY <2>2 DEF IInv, Owned, RetiredBy
  <2>5. \A q \in Requests : e \notin req'[q].retire
    BY <1>5, <2>4
  <2>6. \A x \in Entries \ {e} :
              /\ closes'[x] = closes[x] /\ ready'[x] = ready[x] /\ users'[x] = users[x]
              /\ Mapped(x)' <=> Mapped(x)
              /\ x \in req'[r].retire <=> x \in req[r].retire
    BY <1>1, <1>5, <1>6 DEF Mapped
  <2>7. Owned
    BY DEF IInv
  <2>8. QED
    BY <1>1, <1>2, <1>5, <2>3, <2>5, <2>6, <2>7, OwnedExcept
<1>14. QED
  BY <1>2, <1>8, <1>9, <1>10, <1>11, <1>12, <1>13 DEF IInv

-----------------------------------------------------------------------------
\* After an attempt the request starts the second one, or leaves.
LEMMA Proceeds ==
    ASSUME req \in Locals, NEW r \in Requests, NEW result \in Results,
           req' = [req EXCEPT ![r] = Proceed(r, result)]
    PROVE  /\ req' \in Locals /\ \A q \in Requests \ {r} : req'[q] = req[q]
           /\ req'[r].at \in {"ensure", "leave"} /\ req'[r].retire = {}
           /\ req'[r].at = "ensure" => /\ req'[r].attempt = 2 /\ req[r].attempt = 1
                                       /\ result \in {"unavailable", "notfound"}
           /\ req'[r].at = "leave" => req'[r].result = result
<1>1. CASE Retried(r, result)
  <2>1. req' = [req EXCEPT ![r] = [at |-> "ensure", attempt |-> 2, instance |-> None,
                                   entry |-> None, retire |-> {}, result |-> None]]
    BY <1>1 DEF Proceed
  <2>2. req[r].attempt = 1 /\ result \in {"unavailable", "notfound"}
    BY <1>1 DEF Retried
  <2>3. QED
    BY <2>1, <2>2 DEF Locals
<1>2. CASE ~Retried(r, result)
  <2>1. req' = [req EXCEPT ![r] = [at |-> "leave", attempt |-> 1, instance |-> None,
                                   entry |-> None, retire |-> {}, result |-> result]]
    BY <1>2 DEF Proceed, Leaving
  <2>2. QED
    BY <2>1 DEF Locals
<1>3. QED
  BY <1>1, <1>2

\* What that leaves of its own part of the invariant.
LEMMA ProceedsWell ==
    ASSUME TypeOK, NEW r \in Requests, NEW result \in Results,
           req' = [req EXCEPT ![r] = Proceed(r, result)],
           req[r].at \in {"await", "release", "retire"},
           ExecutedAt(r), executed' = executed, outcome' = outcome,
           result = "ok" => executed[r] = 1,
           result \in {"unavailable", "notfound"} => executed[r] = 0
    PROVE  /\ req' \in Locals /\ \A q \in Requests \ {r} : req'[q] = req[q]
           /\ req'[r].at \in {"ensure", "leave"} /\ req'[r].retire = {}
           /\ LocatedAt(r)' /\ ExecutedAt(r)'
           /\ r \notin First' /\ (r \in Second' => r \in Second)
           /\ \A x : r \notin Using(x)'
<1>1. req \in Locals
  BY Places
<1>2. /\ req' \in Locals /\ \A q \in Requests \ {r} : req'[q] = req[q]
      /\ req'[r].at \in {"ensure", "leave"} /\ req'[r].retire = {}
      /\ req'[r].at = "ensure" => /\ req'[r].attempt = 2 /\ req[r].attempt = 1
                                  /\ result \in {"unavailable", "notfound"}
      /\ req'[r].at = "leave" => req'[r].result = result
  BY ONLY <1>1, r \in Requests, result \in Results, Proceeds,
          req' = [req EXCEPT ![r] = Proceed(r, result)]
<1>3. LocatedAt(r)'
  BY <1>2 DEF LocatedAt
<1>4. ExecutedAt(r)'
  BY <1>2 DEF ExecutedAt
<1>5. r \notin First' /\ (r \in Second' => r \in Second) /\ \A x : r \notin Using(x)'
  BY <1>2, Places
<1>6. QED
  BY <1>2, <1>3, <1>4, <1>5

\* A user leaves an entry: how the counters follow.
LEMMA LeavesEntry ==
    ASSUME IInv, NEW r \in Requests, \A q \in Requests \ {r} : req'[q] = req[q],
           NEW e \in Entries, req[r].entry = e, req[r].at \in {"await", "release"},
           users' = [users EXCEPT ![e] = @ - 1],
           req'[r].at \in {"ensure", "leave", "retire"},
           r \notin First', r \in Second' => r \in Second,
           active' = active, made' = made
    PROVE  /\ Counted' /\ users' \in [Entries -> 0 .. Cardinality(Requests)]
           /\ users[e] \in Nat /\ users[e] > 0 /\ users'[e] = users[e] - 1
           /\ \A x \in Entries \ {e} : users'[x] = users[x]
<1>1. /\ r \in Using(e) /\ r \notin Using(e)'
      /\ \A x \in Entries \ {e} : r \notin Using(x) /\ r \notin Using(x)'
  BY Places DEF IInv
<1>2. users[e] \in Nat /\ users[e] > 0
  <2>1. users[e] = Cardinality(Using(e)) /\ Cardinality(Using(e)) # 0
    BY <1>1, CountTypes DEF IInv, Counted
  <2>2. QED
    BY <2>1, CountTypes
<1>3. users'[e] = users[e] - 1 /\ \A x \in Entries \ {e} : users'[x] = users[x]
  BY <1>2 DEF IInv, TypeOK
<1>4. ASSUME NEW x \in Entries
      PROVE  users'[x] = users[x] + One(r \in Using(x)') - One(r \in Using(x))
  <2>1. users[x] \in Int
    BY CountTypes DEF IInv, TypeOK
  <2>2. CASE x = e
    BY <1>1, <1>2, <1>3, <2>2 DEF One
  <2>3. CASE x # e
    BY <1>1, <1>3, <2>1, <2>3 DEF One
  <2>4. QED
    BY <2>2, <2>3
<1>5. Counted' /\ \A x \in Entries : users'[x] \in 0 .. Cardinality(Requests)
  BY <1>4, InsideCounted
<1>6. users' \in [Entries -> 0 .. Cardinality(Requests)]
  BY <1>5 DEF IInv, TypeOK
<1>7. QED
  BY <1>2, <1>3, <1>5, <1>6

\* The entry proves to have failed: nobody else will find it.
LEMMA AwaitRaisesIInv == ASSUME IInv, NEW r \in Requests, AwaitRaises(r) PROVE IInv'
<1>0. PICK e : e = req[r].entry
  OBVIOUS
<1>1. /\ req \in Locals /\ req[r].at = "await" /\ TypeOK /\ req[r].retire = {}
      /\ LocatedAt(r) /\ ExecutedAt(r) /\ e \in Entries /\ executed[r] = 0
      /\ ready[e] \in {"unavailable", "error"} /\ ready[e] \in Results
      /\ users' = [users EXCEPT ![e] = @ - 1]
      /\ mapped' = [i \in Instances |-> IF mapped[i] = e THEN None ELSE mapped[i]]
      /\ req' = [req EXCEPT ![r] = Proceed(r, ready[e])]
      /\ UNCHANGED <<runtime, made, of, ready, closes, session,
                     executed, outcome, active, ending>>
  BY <1>0, Places DEF AwaitRaises, Unmap, At, IInv, Located, LocatedAt, Executed, ExecutedAt, Results
<1>2. doomed = {} /\ doomed' = {} /\ Ending'
  BY <1>1, InsideIsOpen
<1>3. /\ req' \in Locals /\ \A q \in Requests \ {r} : req'[q] = req[q]
      /\ req'[r].at \in {"ensure", "leave"} /\ req'[r].retire = {}
      /\ LocatedAt(r)' /\ ExecutedAt(r)'
      /\ r \notin First' /\ (r \in Second' => r \in Second)
  BY <1>1, ProceedsWell
<1>4. /\ Counted' /\ users' \in [Entries -> 0 .. Cardinality(Requests)]
      /\ \A x \in Entries \ {e} : users'[x] = users[x]
  BY <1>0, <1>1, <1>3, LeavesEntry
<1>5. ~Mapped(e)' /\ \A x \in Entries \ {e} : Mapped(x)' <=> Mapped(x)
  BY <1>1, Bounds DEF Mapped
<1>6. TypeOK'
  BY <1>1, <1>3, <1>4 DEF TypeOK, Locals, runtime, ending
<1>7. Located'
  <2>1. ASSUME NEW q \in Requests \ {r} PROVE LocatedAt(q)'
    BY <1>1, <1>3 DEF IInv, Located, LocatedAt
  <2>2. QED
    BY <1>3, <2>1 DEF Located
<1>8. Executed'
  <2>1. ASSUME NEW q \in Requests \ {r} PROVE ExecutedAt(q)'
    BY <1>1, <1>3 DEF IInv, Executed, ExecutedAt
  <2>2. QED
    BY <1>3, <2>1 DEF Executed
<1>9. Created'
  <2>1. \A q \in Requests : req'[q].at = "create" <=> req[q].at = "create"
    BY <1>1, <1>3
  <2>2. \A q \in Requests : req[q].at = "create" => req'[q].entry = req[q].entry
    BY <1>1, <1>3
  <2>3. \A i \in Instances : mapped'[i] # None => mapped'[i] = mapped[i]
    BY <1>1
  <2>4. Created /\ UNCHANGED <<made, of, ready>>
    BY <1>1 DEF IInv
  <2>5. QED
    BY <2>1, <2>2, <2>3, <2>4, CreatedStays
<1>10. Owned'
  <2>1. OwnedAt(e)
    BY <1>1 DEF IInv, Owned
  <2>2. OwnedAt(e)'
    BY <1>1, <1>2, <1>5, <2>1 DEF OwnedAt
  <2>3. \A q \in Requests : e \notin req[q].retire
    BY <1>1 DEF IInv, Owned, RetiredBy
  <2>4. \A q \in Requests : e \notin req'[q].retire
    BY <1>3, <2>3
  <2>5. \A x \in Entries \ {e} :
              /\ closes'[x] = closes[x] /\ ready'[x] = ready[x] /\ users'[x] = users[x]
              /\ Mapped(x)' <=> Mapped(x)
              /\ x \in req'[r].retire <=> x \in req[r].retire
    BY <1>1, <1>3, <1>4, <1>5
  <2>6. Owned
    BY DEF IInv
  <2>7. QED
    BY <1>1, <1>2, <1>3, <2>2, <2>4, <2>5, <2>6, OwnedExcept
<1>11. QED
  BY <1>2, <1>4, <1>6, <1>7, <1>8, <1>9, <1>10 DEF IInv

\* The last user of an entry that is not mapped any more keeps it, to close it.
LEMMA ReleaseIInv == ASSUME IInv, NEW r \in Requests, Release(r) PROVE IInv'
<1>0. PICK e, result : e = req[r].entry /\ result = req[r].result
  OBVIOUS
<1>1. /\ req \in Locals /\ req[r].at = "release" /\ TypeOK /\ req[r].retire = {}
      /\ LocatedAt(r) /\ ExecutedAt(r) /\ e \in Entries /\ result \in Results
      /\ result = "ok" => executed[r] = 1
      /\ result \in {"unavailable", "notfound"} => executed[r] = 0
      /\ ready[e] = "ok" /\ of[e] \in Instances
  BY <1>0, Places DEF Release, At, IInv, Located, LocatedAt, Executed, ExecutedAt, Created
<1>2. /\ users' = [users EXCEPT ![e] = @ - 1]
      /\ mapped' \in {mapped, Unmap(e)}
      /\ UNCHANGED <<runtime, made, of, ready, closes, session,
                     executed, outcome, active, ending>>
  BY <1>0 DEF Release
<1>3. IF Released(e) THEN req' = [req EXCEPT ![r].at = "retire", ![r].retire = {e}]
                     ELSE req' = [req EXCEPT ![r] = Proceed(r, result)]
  BY <1>0 DEF Release
<1>4. doomed = {} /\ doomed' = {} /\ Ending'
  BY <1>1, <1>2, InsideIsOpen
<1>5. /\ req' \in Locals /\ \A q \in Requests \ {r} : req'[q] = req[q]
      /\ req'[r].at \in {"ensure", "leave", "retire"}
      /\ LocatedAt(r)' /\ ExecutedAt(r)'
      /\ r \notin First' /\ (r \in Second' => r \in Second)
      /\ Released(e) => req'[r].retire = {e}
      /\ ~Released(e) => req'[r].retire = {}
  <2>1. CASE Released(e)
    <3>1. req' = [req EXCEPT ![r].at = "retire", ![r].retire = {e}]
      BY <1>3, <2>1
    <3>2. /\ req' \in Locals /\ \A q \in Requests \ {r} : req'[q] = req[q]
          /\ req'[r].at = "retire" /\ req'[r].attempt = req[r].attempt
          /\ req'[r].result = result /\ req'[r].entry = e /\ req'[r].retire = {e}
      BY ONLY <1>0, <1>1, <3>1, r \in Requests, ZenonT(30) DEF Locals
    <3>3. LocatedAt(r)' /\ ExecutedAt(r)'
      BY <1>0, <1>1, <1>2, <3>2 DEF LocatedAt, ExecutedAt
    <3>4. r \notin First' /\ (r \in Second' => r \in Second)
      BY <1>1, <3>2, Places
    <3>5. QED
      BY <2>1, <3>2, <3>3, <3>4
  <2>2. CASE ~Released(e)
    <3>1. req' = [req EXCEPT ![r] = Proceed(r, result)]
      BY <1>3, <2>2
    <3>2. executed' = executed /\ outcome' = outcome
      BY <1>2
    <3>3. QED
      BY <1>1, <2>2, <3>1, <3>2, ProceedsWell
  <2>3. QED
    BY <2>1, <2>2
<1>6. /\ Counted' /\ users' \in [Entries -> 0 .. Cardinality(Requests)]
      /\ users[e] > 0 /\ \A x \in Entries \ {e} : users'[x] = users[x]
  BY <1>0, <1>1, <1>2, <1>5, LeavesEntry
<1>7. \A x \in Entries \ {e} : Mapped(x)' <=> Mapped(x)
  <2>1. CASE mapped' = mapped
    BY <1>2, <2>1 DEF Mapped
  <2>2. CASE mapped' = Unmap(e)
    BY <1>2, <2>2, Bounds DEF Mapped, Unmap
  <2>3. QED
    BY <1>2, <2>1, <2>2
<1>8. Released(e) <=> ~Kept(e)'
  <2>1. users'[e] \in 0 .. Cardinality(Requests)
    BY <1>1, <1>6
  <2>2. users'[e] = 0 <=> ~(users'[e] > 0)
    BY <2>1, CountTypes
  <2>3. Mapped(e)' <=> mapped'[of[e]] = e
    BY <1>1, <1>2 DEF Mapped
  <2>4. QED
    BY <2>2, <2>3 DEF Released, Kept
<1>9. TypeOK'
  <2>1. mapped' \in [Instances -> Entries \cup {None}]
    BY <1>1, <1>2 DEF TypeOK, Unmap
  <2>2. QED
    BY <1>1, <1>2, <1>5, <1>6, <2>1 DEF TypeOK, Locals, runtime, ending
<1>10. Located'
  <2>1. ASSUME NEW q \in Requests \ {r} PROVE LocatedAt(q)'
    BY <1>2, <1>5 DEF IInv, Located, LocatedAt
  <2>2. QED
    BY <1>5, <2>1 DEF Located
<1>11. Executed'
  <2>1. ASSUME NEW q \in Requests \ {r} PROVE ExecutedAt(q)'
    BY <1>2, <1>5 DEF IInv, Executed, ExecutedAt
  <2>2. QED
    BY <1>5, <2>1 DEF Executed
<1>12. Created'
  <2>1. \A q \in Requests : req'[q].at = "create" <=> req[q].at = "create"
    BY <1>1, <1>5
  <2>2. \A q \in Requests : req[q].at = "create" => req'[q].entry = req[q].entry
    BY <1>1, <1>5
  <2>3. \A i \in Instances : mapped'[i] # None => mapped'[i] = mapped[i]
    BY <1>2 DEF Unmap
  <2>4. Created /\ UNCHANGED <<made, of, ready>>
    BY <1>2 DEF IInv
  <2>5. QED
    BY <2>1, <2>2, <2>3, <2>4, CreatedStays
<1>13. Owned'
  <2>1. OwnedAt(e)
    BY <1>1 DEF IInv, Owned
  <2>2. Kept(e) /\ closes[e] = 0
    BY <1>6, <2>1 DEF OwnedAt, Kept
  <2>3. \A q \in Requests : e \notin req[q].retire
    BY <2>2 DEF IInv, Owned, RetiredBy
  <2>4. /\ \A q \in Requests \ {r} : e \notin req'[q].retire
        /\ e \in req'[r].retire <=> ~Kept(e)'
    BY <1>5, <1>8, <2>3
  <2>5. OwnedAt(e)'
    BY <1>1, <1>2, <1>4, <2>2, <2>4 DEF OwnedAt
  <2>6. \A q \in Requests : e \in req'[q].retire => RetiredBy(q, e)'
    BY <1>1, <1>2, <1>4, <2>2, <2>4 DEF RetiredBy
  <2>7. \A x \in Entries \ {e} :
              /\ closes'[x] = closes[x] /\ ready'[x] = ready[x] /\ users'[x] = users[x]
              /\ Mapped(x)' <=> Mapped(x)
              /\ x \in req'[r].retire <=> x \in req[r].retire
    BY <1>1, <1>2, <1>5, <1>6, <1>7
  <2>8. Owned
    BY DEF IInv
  <2>9. QED
    BY <1>1, <1>4, <1>5, <2>5, <2>6, <2>7, <2>8, OwnedExcept
<1>14. QED
  BY <1>4, <1>6, <1>9, <1>10, <1>11, <1>12, <1>13 DEF IInv

\* And closes it.
LEMMA CloseReleasedIInv == ASSUME IInv, NEW r \in Requests, CloseReleased(r) PROVE IInv'
<1>0. PICK e, result : e = req[r].entry /\ result = req[r].result
  OBVIOUS
<1>1. /\ req \in Locals /\ req[r].at = "retire" /\ TypeOK /\ req[r].retire = {e}
      /\ LocatedAt(r) /\ ExecutedAt(r) /\ e \in Entries /\ result \in Results
      /\ result = "ok" => executed[r] = 1
      /\ result \in {"unavailable", "notfound"} => executed[r] = 0
      /\ CloseEntry(e)
      /\ req' = [req EXCEPT ![r] = Proceed(r, result)]
      /\ UNCHANGED <<runtime, mapped, made, of, ready, users,
                     executed, outcome, active, ending>>
  BY <1>0, Places DEF CloseReleased, At, IInv, Located, LocatedAt, Executed, ExecutedAt
<1>2. /\ closes' = [closes EXCEPT ![e] = @ + 1]
      /\ session' \in [Entries -> {"none", "listed", "reaped", "deleted", "lost"}]
  BY <1>1, CloseEntryCloses
<1>3. doomed = {} /\ doomed' = {} /\ Ending'
  BY <1>1, InsideIsOpen
<1>4. /\ req' \in Locals /\ \A q \in Requests \ {r} : req'[q] = req[q]
      /\ req'[r].at \in {"ensure", "leave"} /\ req'[r].retire = {}
      /\ LocatedAt(r)' /\ ExecutedAt(r)'
      /\ r \notin First' /\ (r \in Second' => r \in Second)
  BY <1>1, ProceedsWell
<1>5. RetiredBy(r, e)
  BY <1>1 DEF IInv, Owned
<1>6. closes' \in [Entries -> Nat] /\ closes'[e] = 1 /\ \A x \in Entries \ {e} : closes'[x] = closes[x]
  BY <1>1, <1>2, <1>5 DEF TypeOK, RetiredBy
<1>7. Counted'
  BY <1>1, <1>4, Places, InsideCountedStill
<1>8. TypeOK'
  BY <1>1, <1>2, <1>4, <1>6 DEF TypeOK, Locals, runtime, ending
<1>9. Located'
  <2>1. ASSUME NEW q \in Requests \ {r} PROVE LocatedAt(q)'
    BY <1>1, <1>4 DEF IInv, Located, LocatedAt
  <2>2. QED
    BY <1>4, <2>1 DEF Located
<1>10. Executed'
  <2>1. ASSUME NEW q \in Requests \ {r} PROVE ExecutedAt(q)'
    BY <1>1, <1>4 DEF IInv, Executed, ExecutedAt
  <2>2. QED
    BY <1>4, <2>1 DEF Executed
<1>11. Created'
  <2>1. \A q \in Requests : req'[q].at = "create" <=> req[q].at = "create"
    BY <1>1, <1>4
  <2>2. \A q \in Requests : req[q].at = "create" => req'[q].entry = req[q].entry
    BY <1>1, <1>4
  <2>3. Created /\ UNCHANGED <<made, of, ready, mapped>>
    BY <1>1 DEF IInv
  <2>4. QED
    BY <2>1, <2>2, <2>3, CreatedStays
<1>12. Owned'
  <2>1. \A x \in Entries : Mapped(x)' <=> Mapped(x)
    BY <1>1 DEF Mapped
  <2>2. ~Kept(e) /\ ~Kept(e)' /\ ready[e] = "ok"
    BY <1>1, <1>5, <2>1 DEF RetiredBy, Kept
  <2>3. OwnedAt(e)'
    BY <1>1, <1>3, <1>6, <2>2 DEF OwnedAt
  <2>4. \A q \in Requests : e \notin req'[q].retire
    BY <1>4, <1>5 DEF RetiredBy
  <2>5. \A x \in Entries \ {e} :
              /\ closes'[x] = closes[x] /\ ready'[x] = ready[x] /\ users'[x] = users[x]
              /\ Mapped(x)' <=> Mapped(x)
              /\ x \in req'[r].retire <=> x \in req[r].retire
    BY <1>1, <1>4, <1>6, <2>1
  <2>6. Owned
    BY DEF IInv
  <2>7. QED
    BY <1>1, <1>3, <1>4, <2>3, <2>4, <2>5, <2>6, OwnedExcept
<1>13. QED
  BY <1>3, <1>7, <1>8, <1>9, <1>10, <1>11, <1>12 DEF IInv

-----------------------------------------------------------------------------
\* What does not move requests, entries or users leaves the counters as they are.
LEMMA CountedStays ==
    ASSUME Counted, UNCHANGED <<req, active, users, made>> PROVE Counted'
<1>1. /\ Inside' = Inside /\ First' = First /\ Second' = Second
      /\ \A e : Using(e)' = Using(e)
  BY DEF Inside, First, Second, Using
<1>2. QED
  BY <1>1 DEF Counted

\* The requests' own parts do not depend on the rest.
LEMMA RequestsStay ==
    ASSUME Located, Executed, UNCHANGED <<req, ready, executed, outcome>>
    PROVE  Located' /\ Executed'
BY DEF Located, LocatedAt, Executed, ExecutedAt

\* Nor who owns which entry on the steps of the runtime and of the service.
LEMMA OwnersStay ==
    ASSUME Owned, UNCHANGED <<mapped, of, ready, users, closes, req, doomed>>
    PROVE  Owned'
BY DEF Owned, OwnedAt, RetiredBy, Kept, Mapped

\* The runtime replaces instances, or the service forgets a session.
LEMMA SurroundingsIInv ==
    ASSUME IInv, RuntimeStep \/ \E e \in Live : Reap(e) PROVE IInv'
<1>1. UNCHANGED <<mapped, made, of, ready, users, closes, calls, ending>>
  BY DEF RuntimeStep, Reap, entries
<1>2. TypeOK'
  <2>1. CASE RuntimeStep
    <3>1. /\ issued \in 0 .. MaxInstances /\ issued' <= MaxInstances /\ TypeOK
          /\ MaxInstances \in Nat /\ Runtime!Next
      BY <2>1, TransportAssumption DEF RuntimeStep, IInv, TypeOK
    <3>2. /\ issued' \in 0 .. MaxInstances /\ service' \in Instances \cup {None}
      BY <3>1, TransportAssumption DEF Runtime!Next, Runtime!Publish, Runtime!Burn,
         Runtime!Withdraw, Runtime!Close, Instances, TypeOK
    <3>3. closed' \in BOOLEAN
      <4>1. CASE Runtime!Close
        <5>1. closed' = TRUE /\ closed' \in BOOLEAN
          BY <4>1 DEF Runtime!Close
        <5>2. QED
          BY <5>1
      <4>2. CASE Runtime!Publish \/ Runtime!Burn \/ Runtime!Withdraw
        BY <3>1, <4>2 DEF Runtime!Publish, Runtime!Burn, Runtime!Withdraw, TypeOK
      <4>3. QED
        BY <3>1, <4>1, <4>2 DEF Runtime!Next
    <3>4. session' = session
      BY <2>1 DEF RuntimeStep, entries
    <3>5. QED
      BY <1>1, <3>1, <3>2, <3>3, <3>4 DEF TypeOK, calls, ending
  <2>2. CASE \E e \in Live : Reap(e)
    BY <1>1, <2>2 DEF Reap, IInv, TypeOK, runtime, calls, ending
  <2>3. QED
    BY <2>1, <2>2
<1>3. Counted'
  BY <1>1, CountedStays DEF IInv, calls
<1>4. Located' /\ Executed'
  BY <1>1, RequestsStay DEF IInv, calls
<1>5. Created'
  <2>1. Created /\ UNCHANGED <<made, of, ready, mapped, req>>
    BY <1>1 DEF IInv, calls
  <2>2. QED
    BY <2>1, CreatedStays
<1>6. Owned'
  BY <1>1, OwnersStay DEF IInv, calls, ending
<1>7. Ending'
  BY <1>1 DEF IInv, Ending, calls, ending
<1>8. QED
  BY <1>2, <1>3, <1>4, <1>5, <1>6, <1>7 DEF IInv

\* close() is called, or has waited for another one.
LEMMA CloseCalledIInv ==
    ASSUME IInv, NEW k \in Closers, CloseBegin(k) \/ CloseWaits(k) PROVE IInv'
<1>1. UNCHANGED <<runtime, entries, calls, done, doomed, released>>
  BY DEF CloseBegin, CloseWaits
<1>2. /\ closing' \in BOOLEAN
      /\ closing => closing'
      /\ closer' \in [Closers -> {"idle", "draining", "closing", "waiting", "over"}]
      /\ \A j \in Closers \ {k} : closer'[j] = closer[j]
      /\ closer'[k] # "idle" => closing'
      /\ closer'[k] = "draining" => ~closing /\ ~done
      /\ closer'[k] # "closing" /\ closer[k] # "closing"
      /\ closer'[k] = "over" => done
  <2>1. CASE CloseBegin(k)
    <3>1. closing \in BOOLEAN /\ closing' = (closing \/ ~done) /\ (done => closing)
      BY <2>1 DEF CloseBegin, IInv, TypeOK, Ending
    <3>2. closing' = TRUE /\ closing' \in BOOLEAN
      BY <3>1
    <3>3. QED
      BY <2>1, <3>2 DEF CloseBegin, IInv, TypeOK, Ending
  <2>2. CASE CloseWaits(k)
    BY <2>2 DEF CloseWaits, IInv, TypeOK, Ending
  <2>3. QED
    BY <2>1, <2>2
<1>3. TypeOK'
  BY <1>1, <1>2 DEF IInv, TypeOK, runtime, entries, calls
<1>4. Counted'
  BY <1>1, CountedStays DEF IInv, entries, calls
<1>5. Located' /\ Executed'
  BY <1>1, RequestsStay DEF IInv, entries, calls
<1>6. Created'
  <2>1. Created /\ UNCHANGED <<made, of, ready, mapped, req>>
    BY <1>1 DEF IInv, entries, calls
  <2>2. QED
    BY <2>1, CreatedStays
<1>7. Owned'
  BY <1>1, OwnersStay DEF IInv, entries, calls
<1>8. Ending'
  <2>1. \A j \in Closers : closer[j] \in {"draining", "closing"} => closing
    BY DEF IInv, Ending
  <2>2. \A i, j \in Closers : closer'[i] \in {"draining", "closing"}
                              /\ closer'[j] \in {"draining", "closing"} => i = j
    BY <1>2, <2>1 DEF IInv, Ending
  <2>3. (\E j \in Closers : closer'[j] = "closing") <=> \E j \in Closers : closer[j] = "closing"
    BY <1>2
  <2>4. /\ \A j \in Closers : closer'[j] # "idle" => closing'
        /\ \A j \in Closers : closer'[j] \in {"draining", "closing"} => ~done
        /\ \A j \in Closers : closer'[j] = "over" => done
    BY <1>2 DEF IInv, Ending
  <2>5. /\ done => closing
        /\ done \/ (\E j \in Closers : closer[j] = "closing")
             => active = 0 /\ \A i \in Instances : mapped[i] = None
        /\ doomed # {} => \E j \in Closers : closer[j] = "closing"
        /\ released = One(done)
    BY DEF IInv, Ending
  <2>6. QED
    BY <1>1, <1>2, <2>2, <2>3, <2>4, <2>5 DEF Ending, entries, calls
<1>9. QED
  BY <1>3, <1>4, <1>5, <1>6, <1>7, <1>8 DEF IInv

\* Nobody is inside: nobody uses an entry, and nobody holds one.
LEMMA NobodyInside ==
    ASSUME IInv, active = 0
    PROVE  /\ \A r \in Requests : req[r].at \in {"idle", "done"} /\ req[r].retire = {}
           /\ \A e \in Entries : users[e] = 0
<1>1. \A r \in Requests : req[r].at \in {"idle", "done"}
  BY CountTypes DEF IInv, Counted, Inside
<1>2. \A r \in Requests : req[r].retire = {}
  BY <1>1 DEF IInv, Located, LocatedAt
<1>3. ASSUME NEW e \in Entries PROVE users[e] = 0
  <2>1. Using(e) = {}
    BY <1>1 DEF Using
  <2>2. QED
    BY <2>1, CountTypes DEF IInv, Counted
<1>4. QED
  BY <1>1, <1>2, <1>3

\* close() takes all that is mapped: all of it is ready, for nobody is inside.
LEMMA CloseTakeIInv == ASSUME IInv, NEW k \in Closers, CloseTake(k) PROVE IInv'
<1>1. /\ closer[k] = "draining" /\ active = 0 /\ TypeOK
      /\ closer' = [closer EXCEPT ![k] = "closing"]
      /\ mapped' = [i \in Instances |-> None]
      /\ UNCHANGED <<runtime, made, of, ready, users, closes, session, calls,
                     closing, done, released>>
  BY DEF CloseTake, IInv
<1>2. \A j \in Closers : closer[j] # "closing"
  BY <1>1 DEF IInv, Ending
<1>3. doomed = {}
  BY <1>2 DEF IInv, Ending
<1>4. doomed' \subseteq Entries /\ \A e \in Entries : e \in doomed' <=> Mapped(e)
  <2>1. doomed' = {mapped[i] : i \in {j \in Instances : mapped[j] # None}}
    BY DEF CloseTake
  <2>2. \A i \in Instances : mapped[i] # None => of[mapped[i]] = i
    BY DEF IInv, Created
  <2>3. QED
    BY <1>1, <2>1, <2>2, Bounds DEF Mapped, TypeOK
<1>5. /\ \A r \in Requests : req[r].at \in {"idle", "done"} /\ req[r].retire = {}
      /\ \A e \in Entries : users[e] = 0
  BY <1>1, NobodyInside
<1>6. TypeOK'
  BY <1>1, <1>4 DEF TypeOK, runtime, calls
<1>7. Counted'
  BY <1>1, CountedStays DEF IInv, calls
<1>8. Located' /\ Executed'
  BY <1>1, RequestsStay DEF IInv, calls
<1>9. Created'
  <2>1. Created /\ UNCHANGED <<made, of, ready, req>> /\ \A i \in Instances : mapped'[i] = None
    BY <1>1 DEF IInv, calls
  <2>2. QED
    BY <2>1, CreatedStays
<1>10. Owned'
  <2>1. \A e \in Entries : ~Mapped(e)' /\ ~Kept(e)'
    BY <1>1, <1>5, Bounds DEF Mapped, Kept
  <2>2. ASSUME NEW e \in Entries PROVE OwnedAt(e)'
    <3>1. OwnedAt(e)
      BY DEF IInv, Owned
    <3>2. Kept(e) <=> Mapped(e)
      BY <1>5 DEF Kept
    <3>3. users[e] = 0 /\ e \notin doomed /\ ~\E r \in Requests : e \in req[r].retire
      BY <1>3, <1>5
    <3>4. QED
      BY <1>1, <1>4, <2>1, <3>1, <3>2, <3>3 DEF OwnedAt
  <2>3. \A r \in Requests : req'[r].retire = {}
    BY <1>1, <1>5 DEF calls
  <2>4. QED
    BY <2>2, <2>3 DEF Owned
<1>11. Ending'
  <2>1. /\ closer'[k] = "closing" /\ \A j \in Closers \ {k} : closer'[j] = closer[j]
        /\ \A j \in Closers \ {k} : closer[j] \notin {"draining", "closing"}
        /\ closing /\ ~done
    BY <1>1 DEF IInv, TypeOK, Ending
  <2>2. active' = 0 /\ \A i \in Instances : mapped'[i] = None
    BY <1>1 DEF calls
  <2>3. QED
    BY <1>1, <2>1, <2>2 DEF IInv, Ending
<1>12. QED
  BY <1>6, <1>7, <1>8, <1>9, <1>10, <1>11 DEF IInv

\* It closes them one by one.
LEMMA CloseNextIInv == ASSUME IInv, NEW k \in Closers, CloseNext(k) PROVE IInv'
<1>1. PICK e \in doomed :
        /\ doomed' = doomed \ {e}
        /\ IF ready[e] = "ok" THEN CloseEntry(e) ELSE UNCHANGED <<closes, session>>
  BY DEF CloseNext
<1>2. /\ closer[k] = "closing" /\ TypeOK /\ e \in Entries
      /\ UNCHANGED <<runtime, mapped, made, of, ready, users, calls,
                     closing, done, closer, released>>
  BY <1>1 DEF CloseNext, IInv, TypeOK
<1>3. ready[e] = "ok" /\ closes[e] = 0 /\ ~Kept(e)
  BY <1>1, <1>2 DEF IInv, Owned, OwnedAt
<1>4. /\ closes' = [closes EXCEPT ![e] = @ + 1]
      /\ session' \in [Entries -> {"none", "listed", "reaped", "deleted", "lost"}]
  BY <1>1, <1>2, <1>3, CloseEntryCloses
<1>5. closes' \in [Entries -> Nat] /\ closes'[e] = 1 /\ \A x \in Entries \ {e} : closes'[x] = closes[x]
  BY <1>2, <1>3, <1>4 DEF TypeOK
<1>6. /\ active = 0 /\ \A r \in Requests : req[r].retire = {}
  <2>1. active = 0
    BY <1>2 DEF IInv, Ending
  <2>2. QED
    BY <2>1, NobodyInside
<1>7. TypeOK'
  BY <1>1, <1>2, <1>4, <1>5 DEF TypeOK, runtime, calls
<1>8. Counted'
  BY <1>2, CountedStays DEF IInv, calls
<1>9. Located' /\ Executed'
  BY <1>2, RequestsStay DEF IInv, calls
<1>10. Created'
  <2>1. Created /\ UNCHANGED <<made, of, ready, req, mapped>>
    BY <1>2 DEF IInv, calls
  <2>2. QED
    BY <2>1, CreatedStays
<1>11. Owned'
  <2>1. \A x \in Entries : (Mapped(x)' <=> Mapped(x)) /\ (Kept(x)' <=> Kept(x))
    BY <1>2 DEF Mapped, Kept
  <2>2. ASSUME NEW x \in Entries PROVE OwnedAt(x)'
    <3>1. OwnedAt(x)
      BY DEF IInv, Owned
    <3>2. CASE x = e
      BY <1>1, <1>2, <1>3, <1>5, <2>1, <3>2 DEF OwnedAt
    <3>3. CASE x # e
      <4>1. x \in doomed' <=> x \in doomed
        BY <1>1, <3>3
      <4>2. /\ Mapped(x)' <=> Mapped(x)
            /\ Kept(x)' <=> Kept(x)
            /\ closes'[x] = closes[x] /\ ready' = ready /\ users' = users /\ req' = req
        BY <1>2, <1>5, <2>1, <3>3 DEF calls
      <4>3. QED
        BY <3>1, <4>1, <4>2 DEF OwnedAt
    <3>4. QED
      BY <3>2, <3>3
  <2>3. \A r \in Requests : req'[r].retire = {}
    BY <1>2, <1>6 DEF calls
  <2>4. QED
    BY <2>2, <2>3 DEF Owned
<1>12. Ending'
  BY <1>1, <1>2 DEF IInv, Ending, calls
<1>13. QED
  BY <1>7, <1>8, <1>9, <1>10, <1>11, <1>12 DEF IInv

\* And is done.
LEMMA CloseFinishIInv == ASSUME IInv, NEW k \in Closers, CloseFinish(k) PROVE IInv'
<1>1. /\ closer[k] = "closing" /\ TypeOK /\ doomed = {}
      /\ released' = released + 1
      /\ closer' = [closer EXCEPT ![k] = "over"]
      /\ UNCHANGED <<runtime, entries, calls, closing, doomed>>
  BY DEF CloseFinish, IInv
<1>2. done' = TRUE /\ done' \in BOOLEAN
  BY DEF CloseFinish
<1>3. TypeOK'
  BY <1>1, <1>2 DEF TypeOK, runtime, entries, calls
<1>4. Counted'
  BY <1>1, CountedStays DEF IInv, entries, calls
<1>5. Located' /\ Executed'
  BY <1>1, RequestsStay DEF IInv, entries, calls
<1>6. Created'
  <2>1. Created /\ UNCHANGED <<made, of, ready, mapped, req>>
    BY <1>1 DEF IInv, entries, calls
  <2>2. QED
    BY <2>1, CreatedStays
<1>7. Owned'
  BY <1>1, OwnersStay DEF IInv, entries, calls
<1>8. Ending'
  <2>1. /\ closer'[k] = "over" /\ \A j \in Closers \ {k} : closer'[j] = closer[j]
        /\ \A j \in Closers \ {k} : closer[j] \notin {"draining", "closing"}
        /\ closing /\ ~done /\ active = 0 /\ \A i \in Instances : mapped[i] = None
    BY <1>1 DEF IInv, TypeOK, Ending
  <2>2. released = 0 /\ released' = One(done')
    BY <1>1, <1>2, <2>1 DEF IInv, Ending, One
  <2>3. \A j \in Closers : closer'[j] \notin {"draining", "closing"}
    BY <2>1
  <2>4. \A j \in Closers : closer'[j] # "idle" => closing'
    BY <1>1, <2>1
  <2>5. QED
    BY <1>1, <1>2, <2>1, <2>2, <2>3, <2>4 DEF Ending, entries, calls
<1>9. QED
  BY <1>3, <1>4, <1>5, <1>6, <1>7, <1>8 DEF IInv

\* IInv is inductive.
LEMMA StepIInv == IInv /\ [Next]_vars => IInv'
<1> SUFFICES ASSUME IInv, [Next]_vars PROVE IInv'
  OBVIOUS
<1>1. CASE RuntimeStep \/ \E e \in Live : Reap(e)
  BY <1>1, SurroundingsIInv
<1>2. ASSUME NEW r \in Requests, Begin(r) \/ RequestStep(r) PROVE IInv'
  BY <1>2, BeginIInv, EnsureIInv, PruneIInv, ClosePrunedIInv, CheckoutJoinIInv,
     CheckoutCreateIInv, CreateIInv, AwaitIInv, AwaitRaisesIInv, CallIInv, ReleaseIInv,
     CloseReleasedIInv, LeaveIInv DEF RequestStep
<1>3. ASSUME NEW k \in Closers, CloseBegin(k) \/ CloserStep(k) PROVE IInv'
  BY <1>3, CloseCalledIInv, CloseTakeIInv, CloseNextIInv, CloseFinishIInv DEF CloserStep
<1>4. CASE UNCHANGED vars
  <2>1. UNCHANGED <<runtime, entries, calls, ending>>
    BY <1>4 DEF vars
  <2>2. TypeOK' /\ Ending'
    BY <2>1 DEF IInv, TypeOK, Ending, runtime, entries, calls, ending
  <2>3. Counted' /\ Located' /\ Executed' /\ Owned'
    BY <2>1, CountedStays, RequestsStay, OwnersStay DEF IInv, entries, calls, ending
  <2>4. Created'
    <3>1. Created /\ UNCHANGED <<made, of, ready, mapped, req>>
      BY <2>1 DEF IInv, entries, calls
    <3>2. QED
      BY <3>1, CreatedStays
  <2>5. QED
    BY <2>2, <2>3, <2>4 DEF IInv
<1>5. QED
  BY <1>1, <1>2, <1>3, <1>4 DEF Next

\* The entries that were made are among those the types know.
LEMMA LiveEntries == TypeOK => \A e \in Live : e \in Entries /\ e # None /\ closes[e] \in Nat
<1> SUFFICES ASSUME TypeOK, NEW e \in Live PROVE e \in Entries /\ e # None /\ closes[e] \in Nat
  OBVIOUS
<1>1. made \in Nat /\ made <= 2 * Cardinality(Requests) + 1
  BY Bounds DEF TypeOK
<1>2. e \in Nat /\ 1 <= e /\ e <= made
  BY <1>1 DEF Live
<1>3. e \in Entries
  BY ONLY <1>1, <1>2, Bounds, CountTypes
<1>4. QED
  BY <1>3, Bounds DEF TypeOK

\* What IInv says of an entry, in the words of OneOwner: who holds it is one, or none.
LEMMA OwnersAreOne == IInv => OneOwner
<1> SUFFICES ASSUME IInv, NEW e \in Live, ready[e] = "ok"
             PROVE  LET kept == mapped[of[e]] = e \/ users[e] > 0
                    IN Cardinality(Takers(e)) + closes[e] = (IF kept THEN 0 ELSE 1)
  BY DEF OneOwner
<1>1. e \in Entries /\ closes[e] \in Nat /\ OwnedAt(e)
  BY LiveEntries DEF IInv, Owned
<1>2. Kept(e) <=> mapped[of[e]] = e \/ users[e] > 0
  BY <1>1 DEF IInv, Created, Kept, Mapped
<1>3. \A r \in Requests : e \in req[r].retire => RetiredBy(r, e)
  BY DEF IInv, Owned
<1>4. CASE Kept(e) \/ closes[e] # 0
  <2>1. e \notin doomed /\ \A r \in Requests : e \notin req[r].retire
    BY <1>1, <1>3, <1>4 DEF OwnedAt, RetiredBy
  <2>2. Takers(e) = {}
    BY <2>1 DEF Takers
  <2>3. closes[e] = IF Kept(e) THEN 0 ELSE 1
    BY <1>1, <1>4 DEF OwnedAt
  <2>4. QED
    BY <1>2, <2>2, <2>3, FS_EmptySet
<1>5. CASE ~Kept(e) /\ closes[e] = 0
  <2>1. \E t : Takers(e) = {t}
    <3>1. CASE e \in doomed
      <4>1. \A r \in Requests : e \notin req[r].retire
        BY <1>3, <3>1 DEF RetiredBy
      <4>2. Takers(e) = {"close"}
        BY <3>1, <4>1 DEF Takers
      <4>3. QED
        BY <4>2
    <3>2. CASE e \notin doomed
      <4>1. PICK r \in Requests : e \in req[r].retire
        BY <1>1, <1>5, <3>2 DEF OwnedAt
      <4>2. Takers(e) = {r}
        BY <1>3, <3>2, <4>1 DEF Takers, RetiredBy
      <4>3. QED
        BY <4>2
    <3>3. QED
      BY <3>1, <3>2
  <2>2. Cardinality(Takers(e)) = 1
    BY <2>1, FS_Singleton
  <2>3. QED
    BY <1>2, <1>5, <2>2
<1>6. QED
  BY <1>4, <1>5

-----------------------------------------------------------------------------
\* The invariant holds in every reachable state.
THEOREM Invariance == Spec => []IInv
<1>1. QED
  BY InitIInv, StepIInv, PTL DEF Spec

\* The transport keeps its types: _active and entry.users count, and never below zero,
\* and no request is the cause of more than two entries.
THEOREM TypeCorrectness == Spec => []TypeOK
<1>1. IInv => TypeOK
  BY DEF IInv
<1>2. QED
  BY <1>1, Invariance, PTL

\* A request that is retried on another instance runs at most once.
THEOREM RetryIsSafe == Spec => []RunsAtMostOnce
<1>1. IInv => RunsAtMostOnce
  BY DEF IInv, Executed, ExecutedAt, RunsAtMostOnce
<1>2. QED
  BY <1>1, Invariance, PTL

\* What handle_request reports of the target is true.
THEOREM ReportsAreHonest == Spec => []OutcomeIsHonest
<1>1. IInv => OutcomeIsHonest
  BY DEF IInv, Executed, ExecutedAt, OutcomeIsHonest
<1>2. QED
  BY <1>1, Invariance, PTL

\* However requests, retirements and close() interleave, an entry that is ready has one
\* owner, who closes it once.
THEOREM EntriesAreOwned == Spec => []OneOwner
<1>1. QED
  BY Invariance, OwnersAreOne, PTL

\* Nobody who retires an entry waits for its factory, or meets its error.
THEOREM RetiredEntriesAreReady == Spec => []RetiredIsReady
<1>1. ASSUME IInv PROVE RetiredIsReady
  <2>1. ASSUME NEW e \in Live, Takers(e) # {} PROVE ready[e] = "ok"
    <3>1. e \in Entries
      BY <1>1, LiveEntries DEF IInv
    <3>2. e \in doomed \/ \E r \in Requests : e \in req[r].retire
      BY <2>1 DEF Takers
    <3>3. QED
      BY <1>1, <3>1, <3>2 DEF IInv, Owned, OwnedAt, RetiredBy
  <2>2. QED
    BY <2>1 DEF RetiredIsReady
<1>2. QED
  BY <1>1, Invariance, PTL

\* When close() has returned nobody is inside, every session was closed once, and the
\* runtime was released once, however many threads called close().
THEOREM ClosingIsComplete == Spec => []CloseIsComplete
<1>1. ASSUME IInv PROVE CloseIsComplete
  <2>1. SUFFICES ASSUME NEW k \in Closers, closer[k] = "over"
                 PROVE  /\ released = 1 /\ active = 0
                        /\ \A r \in Requests : req[r].at \in {"idle", "done"}
                        /\ \A e \in Live : ready[e] = "ok" => closes[e] = 1
    BY DEF CloseIsComplete
  <2>2. done /\ released = 1 /\ active = 0 /\ (\A i \in Instances : mapped[i] = None) /\ doomed = {}
    BY <1>1, <2>1 DEF IInv, Ending, One
  <2>3. /\ \A r \in Requests : req[r].at \in {"idle", "done"} /\ req[r].retire = {}
        /\ \A e \in Entries : users[e] = 0
    BY <1>1, <2>2, NobodyInside
  <2>4. ASSUME NEW e \in Live, ready[e] = "ok" PROVE closes[e] = 1
    <3>1. e \in Entries /\ OwnedAt(e) /\ closes[e] \in Nat /\ e # None
      BY <1>1, LiveEntries DEF IInv, Owned
    <3>2. ~Kept(e)
      BY <2>2, <2>3, <3>1 DEF Kept, Mapped
    <3>3. QED
      BY <2>2, <2>3, <2>4, <3>1, <3>2 DEF OwnedAt
  <2>5. QED
    BY <2>2, <2>3, <2>4
<1>2. QED
  BY <1>1, Invariance, PTL

-----------------------------------------------------------------------------
(* The abstract transport.  Its variables are functions of req, executed,  *)
(* outcome, closing and done, so only steps that move a request from place *)
(* to place, or call the target, or begin or end a close() are seen of it. *)

\* Where a request is, and that the others stay where they are.
LEMMA PlaceCases ==
    ASSUME NEW r \in Requests
    PROVE  /\ Place(r) = "before" <=> req[r].at = "idle"
           /\ Place(r) = "over" <=> req[r].at = "done"
           /\ Place(r) = "inside" <=> req[r].at \notin {"idle", "done"}
           /\ Place(r)' = "before" <=> req'[r].at = "idle"
           /\ Place(r)' = "over" <=> req'[r].at = "done"
           /\ Place(r)' = "inside" <=> req'[r].at \notin {"idle", "done"}
           /\ req'[r].at = req[r].at => Place(r)' = Place(r)
BY DEF Place, At

\* A step that leaves the requests in their places is not seen.
LEMMA ContractStays ==
    ASSUME \A q \in Requests : Place(q)' = Place(q),
           UNCHANGED <<executed, outcome, closing, done>>
    PROVE  UNCHANGED Contract!tvars
BY DEF Contract!tvars, Phase

\* A step of one request inside that leaves it there is not seen.
LEMMA InsideStays ==
    ASSUME NEW r \in Requests, req[r].at \notin {"idle", "done"},
           req'[r].at \notin {"idle", "done"}, \A q \in Requests \ {r} : req'[q] = req[q],
           UNCHANGED <<executed, outcome, closing, done>>
    PROVE  UNCHANGED Contract!tvars
<1>1. Place(r)' = Place(r)
  BY PlaceCases
<1>2. \A q \in Requests \ {r} : Place(q)' = Place(q)
  BY PlaceCases
<1>3. QED
  BY <1>1, <1>2, ContractStays

\* A request that begins enters an open transport, and is refused by any other.
LEMMA BeginContract ==
    ASSUME IInv, NEW r \in Requests, Begin(r) PROVE Contract!Next
<1>1. /\ req \in Locals /\ req[r].at = "idle" /\ UNCHANGED <<executed, closing, done>>
  BY Places DEF IInv, Begin, At, ending
<1>2. CASE closing \/ done
  <2>1. req' = [req EXCEPT ![r].at = "done"] /\ outcome' = [outcome EXCEPT ![r] = "unavailable"]
    BY <1>2 DEF Begin
  <2>2. req'[r].at = "done" /\ \A q \in Requests \ {r} : req'[q] = req[q]
    BY ONLY <1>1, <2>1, r \in Requests DEF Locals
  <2>3. /\ Place(r) = "before" /\ Place(r)' = "over"
        /\ \A q \in Requests \ {r} : Place(q)' = Place(q)
    BY <1>1, <2>2, PlaceCases
  <2>4. [q \in Requests |-> Place(q)]' = [[q \in Requests |-> Place(q)] EXCEPT ![r] = "over"]
    BY <2>3
  <2>5. Phase # "open" /\ Phase' = Phase
    BY <1>1, <1>2 DEF Phase
  <2>6. Contract!Refuse(r)
    BY <1>1, <2>1, <2>3, <2>4, <2>5 DEF Contract!Refuse
  <2>7. QED
    BY <2>6 DEF Contract!Next
<1>3. CASE ~(closing \/ done)
  <2>1. req' = [req EXCEPT ![r].at = "ensure"] /\ outcome' = outcome
    BY <1>3 DEF Begin
  <2>2. req'[r].at = "ensure" /\ \A q \in Requests \ {r} : req'[q] = req[q]
    BY ONLY <1>1, <2>1, r \in Requests DEF Locals
  <2>3. /\ Place(r) = "before" /\ Place(r)' = "inside"
        /\ \A q \in Requests \ {r} : Place(q)' = Place(q)
    BY <1>1, <2>2, PlaceCases
  <2>4. [q \in Requests |-> Place(q)]' = [[q \in Requests |-> Place(q)] EXCEPT ![r] = "inside"]
    BY <2>3
  <2>5. Phase = "open" /\ Phase' = Phase
    BY <1>1, <1>3 DEF Phase
  <2>6. Contract!Enter(r)
    BY <1>1, <2>1, <2>3, <2>4, <2>5 DEF Contract!Enter
  <2>7. QED
    BY <2>6 DEF Contract!Next
<1>4. QED
  BY <1>2, <1>3

\* What a request inside does before its call and after it is not seen.
LEMMA AttemptContract ==
    ASSUME IInv, NEW r \in Requests,
           \/ Ensure(r) \/ EnsureRaises(r) \/ Prune(r) \/ ClosePruned(r) \/ CheckoutJoin(r)
           \/ CheckoutCreate(r) \/ Create(r) \/ Await(r) \/ AwaitRaises(r)
           \/ Release(r) \/ CloseReleased(r)
    PROVE  UNCHANGED Contract!tvars
<1>1. /\ req \in Locals /\ req[r].at \notin {"idle", "done"}
      /\ UNCHANGED <<executed, outcome, closing, done>>
  BY Places DEF IInv, Ensure, EnsureRaises, Prune, ClosePruned, CheckoutJoin, CheckoutCreate,
     Create, Await, AwaitRaises, Release, CloseReleased, At, ending
<1>2. \/ \E place \in {"prune", "pruned", "create", "await", "call", "retire", "leave"} :
           /\ req'[r].at = place
           /\ \A q \in Requests \ {r} : req'[q] = req[q]
      \/ \E result : req' = [req EXCEPT ![r] = Proceed(r, result)]
  <2>1. CASE Ensure(r)
    <3>1. req' = [req EXCEPT ![r].at = "prune", ![r].instance = service]
      BY <2>1 DEF Ensure
    <3>2. req'[r].at = "prune" /\ \A q \in Requests \ {r} : req'[q] = req[q]
      BY ONLY <1>1, <3>1, r \in Requests DEF Locals
    <3>3. QED
      BY <3>2
  <2>2. CASE EnsureRaises(r)
    <3>1. PICK error : req' = [req EXCEPT ![r] = Leaving(error)]
      BY <2>2 DEF EnsureRaises
    <3>2. req'[r].at = "leave" /\ \A q \in Requests \ {r} : req'[q] = req[q]
      BY ONLY <1>1, <3>1, r \in Requests DEF Locals, Leaving
    <3>3. QED
      BY <3>2
  <2>3. CASE Prune(r)
    <3>1. PICK old : req' = [req EXCEPT ![r].at = "pruned", ![r].retire = old]
      BY <2>3 DEF Prune
    <3>2. req'[r].at = "pruned" /\ \A q \in Requests \ {r} : req'[q] = req[q]
      BY ONLY <1>1, <3>1, r \in Requests DEF Locals
    <3>3. QED
      BY <3>2
  <2>4. CASE ClosePruned(r)
    <3>1. PICK e : req' = [req EXCEPT ![r].retire = @ \ {e}]
      BY <2>4 DEF ClosePruned
    <3>2. req[r].at = "pruned"
      BY <2>4 DEF ClosePruned, At
    <3>3. req'[r].at = "pruned" /\ \A q \in Requests \ {r} : req'[q] = req[q]
      BY ONLY <1>1, <3>1, <3>2, r \in Requests DEF Locals
    <3>4. QED
      BY <3>3
  <2>5. CASE CheckoutJoin(r)
    <3>1. PICK e : req' = [req EXCEPT ![r].at = "await", ![r].entry = e]
      BY <2>5 DEF CheckoutJoin
    <3>2. req'[r].at = "await" /\ \A q \in Requests \ {r} : req'[q] = req[q]
      BY ONLY <1>1, <3>1, r \in Requests DEF Locals
    <3>3. QED
      BY <3>2
  <2>6. CASE CheckoutCreate(r)
    <3>1. req' = [req EXCEPT ![r].at = "create", ![r].entry = made + 1]
      BY <2>6 DEF CheckoutCreate
    <3>2. req'[r].at = "create" /\ \A q \in Requests \ {r} : req'[q] = req[q]
      BY ONLY <1>1, <3>1, r \in Requests DEF Locals
    <3>3. QED
      BY <3>2
  <2>7. CASE Create(r)
    <3>1. req' = [req EXCEPT ![r].at = "await"]
      BY <2>7 DEF Create
    <3>2. req'[r].at = "await" /\ \A q \in Requests \ {r} : req'[q] = req[q]
      BY ONLY <1>1, <3>1, r \in Requests DEF Locals
    <3>3. QED
      BY <3>2
  <2>8. CASE Await(r)
    <3>1. req' = [req EXCEPT ![r].at = "call"]
      BY <2>8 DEF Await
    <3>2. req'[r].at = "call" /\ \A q \in Requests \ {r} : req'[q] = req[q]
      BY ONLY <1>1, <3>1, r \in Requests DEF Locals
    <3>3. QED
      BY <3>2
  <2>9. CASE AwaitRaises(r) \/ CloseReleased(r)
    BY <2>9 DEF AwaitRaises, CloseReleased
  <2>10. CASE Release(r)
    <3>1. PICK e : req' = IF Released(e)
                          THEN [req EXCEPT ![r].at = "retire", ![r].retire = {e}]
                          ELSE [req EXCEPT ![r] = Proceed(r, req[r].result)]
      BY <2>10 DEF Release
    <3>2. CASE Released(e)
      <4>1. req' = [req EXCEPT ![r].at = "retire", ![r].retire = {e}]
        BY <3>1, <3>2
      <4>2. req'[r].at = "retire" /\ \A q \in Requests \ {r} : req'[q] = req[q]
        BY ONLY <1>1, <4>1, r \in Requests DEF Locals
      <4>3. QED
        BY <4>2
    <3>3. CASE ~Released(e)
      BY <3>1, <3>3
    <3>4. QED
      BY <3>2, <3>3
  <2>11. QED
    BY <2>1, <2>2, <2>3, <2>4, <2>5, <2>6, <2>7, <2>8, <2>9, <2>10
<1>3. req'[r].at \notin {"idle", "done"} /\ \A q \in Requests \ {r} : req'[q] = req[q]
  <2>1. ASSUME NEW result, req' = [req EXCEPT ![r] = Proceed(r, result)]
        PROVE  /\ req'[r].at \in {"ensure", "leave"}
               /\ \A q \in Requests \ {r} : req'[q] = req[q]
    <3>1. Proceed(r, result).at \in {"ensure", "leave"}
      BY DEF Proceed, Leaving
    <3>2. req'[r] = Proceed(r, result) /\ \A q \in Requests \ {r} : req'[q] = req[q]
      BY <1>1, <2>1 DEF Locals
    <3>3. QED
      BY <3>1, <3>2
  <2>2. QED
    BY <1>2, <2>1
<1>4. QED
  BY <1>1, <1>3, InsideStays

\* The call asks the target, or it does not.
LEMMA CallContract ==
    ASSUME IInv, NEW r \in Requests, Call(r) PROVE Contract!Next \/ UNCHANGED Contract!tvars
<1>1. /\ req \in Locals /\ req[r].at = "call" /\ executed[r] = 0
      /\ executed \in [Requests -> 0 .. 2] /\ UNCHANGED <<outcome, closing, done>>
  BY Places DEF IInv, TypeOK, Executed, ExecutedAt, Call, At, ending
<1>2. PICK result \in Results, ran \in 0 .. 1 :
        /\ executed' = [executed EXCEPT ![r] = @ + ran]
        /\ req' = [req EXCEPT ![r].at = "release", ![r].result = result]
  BY DEF Call
<1>3. req'[r].at = "release" /\ \A q \in Requests \ {r} : req'[q] = req[q]
  BY ONLY <1>1, <1>2, r \in Requests DEF Locals
<1>4. CASE ran = 0
  <2>1. executed' = executed
    BY ONLY <1>1, <1>2, <1>4
  <2>2. QED
    BY <1>1, <1>3, <2>1, InsideStays
<1>5. CASE ran = 1
  <2>1. executed' = [executed EXCEPT ![r] = 1]
    BY ONLY <1>1, <1>2, <1>5
  <2>2. Place(r) = "inside" /\ \A q \in Requests : Place(q)' = Place(q)
    BY <1>1, <1>3, PlaceCases
  <2>3. Phase' = Phase
    BY <1>1 DEF Phase
  <2>4. Contract!Ask(r)
    BY <1>1, <2>1, <2>2, <2>3 DEF Contract!Ask
  <2>5. QED
    BY <2>4 DEF Contract!Next
<1>6. QED
  BY <1>2, <1>4, <1>5

\* A request that leaves has its answer, and the answer is true.
LEMMA LeaveContract ==
    ASSUME IInv, NEW r \in Requests, Leave(r) PROVE Contract!Next
<1>1. /\ req \in Locals /\ req[r].at = "leave" /\ UNCHANGED <<executed, closing, done>>
      /\ executed \in [Requests -> 0 .. 2]
      /\ req' = [req EXCEPT ![r].at = "done", ![r].result = None]
      /\ outcome' = [outcome EXCEPT ![r] = Raised(req[r].result)]
  BY Places DEF IInv, TypeOK, Leave, At, ending
<1>2. req'[r].at = "done" /\ \A q \in Requests \ {r} : req'[q] = req[q]
  BY ONLY <1>1, r \in Requests DEF Locals
<1>3. /\ Place(r) = "inside" /\ Place(r)' = "over"
      /\ \A q \in Requests \ {r} : Place(q)' = Place(q)
  BY <1>1, <1>2, PlaceCases
<1>4. [q \in Requests |-> Place(q)]' = [[q \in Requests |-> Place(q)] EXCEPT ![r] = "over"]
  BY <1>3
<1>5. PICK a : a = Raised(req[r].result)
  OBVIOUS
<1>6. /\ req[r].result \in Results
      /\ req[r].result = "ok" => executed[r] = 1
      /\ req[r].result \in {"unavailable", "notfound"} => executed[r] = 0
  BY <1>1 DEF IInv, Executed, ExecutedAt
<1>7. a \in Contract!Answers /\ Contract!Truthful(a, executed[r])
  BY <1>5, <1>6 DEF Raised, Results, Contract!Answers, Contract!Truthful
<1>8. executed' = [executed EXCEPT ![r] = executed[r]] /\ outcome' = [outcome EXCEPT ![r] = a]
  BY <1>1, <1>5
<1>9. Phase' = Phase
  BY <1>1 DEF Phase
<1>10. Contract!Answer(r)
  BY <1>3, <1>4, <1>7, <1>8, <1>9 DEF Contract!Answer
<1>11. QED
  BY <1>10 DEF Contract!Next

\* The first close() closes the door, and ends when nobody is behind it any more.
LEMMA CloseContract ==
    ASSUME IInv, NEW k \in Closers, CloseBegin(k) \/ CloserStep(k)
    PROVE  Contract!Next \/ UNCHANGED Contract!tvars
<1>1. /\ \A q \in Requests : Place(q)' = Place(q)
      /\ UNCHANGED <<executed, outcome>>
  <2>1. UNCHANGED <<req, executed, outcome>>
    BY DEF CloseBegin, CloserStep, CloseTake, CloseNext, CloseFinish, CloseWaits, calls
  <2>2. QED
    BY <2>1, PlaceCases
<1>2. CASE CloseBegin(k)
  <2>1. done' = done /\ closing' = (closing \/ ~done) /\ closing \in BOOLEAN /\ (done => closing)
    BY <1>2 DEF CloseBegin, IInv, TypeOK, Ending
  <2>2. CASE closing
    <3>1. closing' = closing
      BY <2>1, <2>2
    <3>2. QED
      BY <1>1, <2>1, <3>1, ContractStays
  <2>3. CASE ~closing
    <3>1. Phase = "open" /\ Phase' = "closing"
      BY <2>1, <2>3 DEF Phase
    <3>2. Contract!StartClosing
      BY <1>1, <3>1 DEF Contract!StartClosing
    <3>3. QED
      BY <3>2 DEF Contract!Next
  <2>4. QED
    BY <2>2, <2>3
<1>3. CASE CloseFinish(k)
  <2>1. closer[k] = "closing" /\ done' = TRUE
    BY <1>3 DEF CloseFinish
  <2>2. closing /\ ~done /\ active = 0
    BY <2>1 DEF IInv, Ending
  <2>3. Phase = "closing" /\ Phase' = "closed"
    BY <2>1, <2>2 DEF Phase
  <2>4. \A q \in Requests : Place(q) # "inside"
    BY <2>2, NobodyInside, PlaceCases
  <2>5. Contract!Close
    BY <1>1, <2>3, <2>4 DEF Contract!Close
  <2>6. QED
    BY <2>5 DEF Contract!Next
<1>4. CASE CloseTake(k) \/ CloseNext(k) \/ CloseWaits(k)
  <2>1. UNCHANGED <<closing, done>>
    BY <1>4 DEF CloseTake, CloseNext, CloseWaits
  <2>2. QED
    BY <1>1, <2>1, ContractStays
<1>5. QED
  BY <1>2, <1>3, <1>4 DEF CloserStep

\* The managed transport keeps the contract of TransportService: each of its steps is
\* one of the abstract transport, or is not seen.  For any finite set of requests, any
\* set of closers and any number of instances.
THEOREM Refinement == Spec => KeepsContract
<1>1. Init => Contract!Init
  <2> SUFFICES ASSUME Init PROVE Contract!Init
    OBVIOUS
  <2>1. \A r \in Requests : Place(r) = "before"
    BY DEF Init, Place, At
  <2>2. Phase = "open"
    BY DEF Init, Phase
  <2>3. QED
    BY <2>1, <2>2 DEF Init, Contract!Init
<1>2. IInv /\ [Next]_vars => [Contract!Next]_(Contract!tvars)
  <2> SUFFICES ASSUME IInv, [Next]_vars
               PROVE  Contract!Next \/ UNCHANGED Contract!tvars
    OBVIOUS
  <2>1. ASSUME UNCHANGED <<req, executed, outcome, closing, done>>
        PROVE  UNCHANGED Contract!tvars
    BY <2>1, PlaceCases, ContractStays
  <2>2. CASE RuntimeStep \/ (\E e \in Live : Reap(e)) \/ UNCHANGED vars
    <3>1. UNCHANGED <<req, executed, outcome, closing, done>>
      BY <2>2 DEF RuntimeStep, Reap, vars, calls, ending
    <3>2. QED
      BY <2>1, <3>1
  <2>3. ASSUME NEW r \in Requests, Begin(r) \/ RequestStep(r)
        PROVE  Contract!Next \/ UNCHANGED Contract!tvars
    BY <2>3, BeginContract, AttemptContract, CallContract, LeaveContract DEF RequestStep
  <2>4. ASSUME NEW k \in Closers, CloseBegin(k) \/ CloserStep(k)
        PROVE  Contract!Next \/ UNCHANGED Contract!tvars
    BY <2>4, CloseContract
  <2>5. QED
    BY <2>2, <2>3, <2>4 DEF Next
<1>3. QED
  BY <1>1, <1>2, Invariance, PTL DEF Spec, KeepsContract, Contract!Spec
=============================================================================
