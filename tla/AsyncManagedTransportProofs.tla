-------------------- MODULE AsyncManagedTransportProofs --------------------
(***************************************************************************)
(* Theorems about _ManagedAsyncGoTransport, for any finite set of          *)
(* requests, any set of aclose() calls and any number of instances: every  *)
(* request may be cancelled at every await.  IInv is the inductive         *)
(* invariant all of them rest on.                                          *)
(***************************************************************************)
EXTENDS AsyncManagedTransport, FiniteSetTheorems, TLAPS

One(condition) == IF condition THEN 1 ELSE 0

Endings == Results \cup {"cancelled"}

\* The local variables of all requests.
Locals == [Requests ->
            [at : {"idle", "ensure", "prune", "call", "retire", "done"},
             attempt : 1 .. 2, instance : Instances \cup {None},
             entry : Entries \cup {None}, retire : SUBSET Entries,
             result : Endings \cup {None}]]

\* Requests by how far they are, and the users of an entry.  Who is in First may still
\* create two entries, who is only in Second one.
Inside   == {r \in Requests : req[r].at \notin {"idle", "done"}}
Using(e) == {r \in Requests : req[r].at = "call" /\ req[r].entry = e}
First    == {r \in Requests : req[r].attempt = 1 /\ req[r].at \in {"idle", "ensure", "prune"}}
Second   == {r \in Requests : /\ req[r].at # "done"
                              /\ req[r].attempt = 1 \/ req[r].at \in {"ensure", "prune"}}

\* The counters count, and bound the entries that can be made.
Counted ==
    /\ active = Cardinality(Inside)
    /\ \A e \in Entries : users[e] = Cardinality(Using(e))
    /\ made + Cardinality(First) + Cardinality(Second) <= 2 * Cardinality(Requests) + 1

\* What a request's local variables mean, by where it is.  What an idle one holds is
\* nothing, and only a prune holds entries it has yet to close.
LocatedAt(r) ==
    /\ req[r].at = "idle" => req[r].attempt = 1
    /\ req[r].at = "prune" => req[r].instance \in Instances
    /\ req[r].at \in {"prune", "call", "retire"} => req[r].entry \in Live
    /\ req[r].at = "retire" => req[r].result \in Endings
    /\ req[r].at # "prune" => req[r].retire = {}

Located == \A r \in Requests : LocatedAt(r)

\* Nothing has run before the call, and nothing that failed early has run at all.
ExecutedAt(r) ==
    /\ req[r].at \in {"idle", "ensure", "prune", "call"} => executed[r] = 0
    /\ req[r].at = "retire" =>
          /\ req[r].result = "ok" => executed[r] = 1
          /\ req[r].result \in {"unavailable", "notfound"} => executed[r] = 0
    /\ executed[r] <= 1
    /\ outcome[r] = "ok" => executed[r] = 1
    /\ outcome[r] = "unavailable" => executed[r] = 0
    /\ req[r].at # "done" => outcome[r] = None

Executed == \A r \in Requests : ExecutedAt(r)

\* Entries are mapped under their own instance.
Created ==
    /\ \A e \in Live : of[e] \in Instances
    /\ \A i \in Instances : mapped[i] # None => mapped[i] \in Live /\ of[mapped[i]] = i

Kept(e) == (\E i \in Instances : of[e] = i /\ mapped[i] = e) \/ users[e] > 0

\* A request that holds an entry is the only one, and the entry is nowhere else.
HeldBy(r, e) ==
    /\ e \in Live /\ ~Kept(e)
    /\ closes[e] = 0 /\ e \notin doomed /\ e \notin lost
    /\ \A q \in Requests : e \in req[q].retire => q = r

\* An entry is kept, or in one pair of hands, or lost, or was closed once; its task
\* was made by who closed it.
OwnedAt(e) ==
    /\ task[e] = "none" <=> closes[e] = 0
    /\ closes[e] > 0 => ~Kept(e) /\ e \in Live
    /\ e \in doomed => ~Kept(e) /\ closes[e] = 0 /\ e \notin lost /\ e \in Live
    /\ e \in lost => ~Kept(e) /\ closes[e] = 0 /\ e \in Live
    /\ \A r \in Requests : e \in req[r].retire => HeldBy(r, e)
    /\ e \in Live /\ ~Kept(e) =>
          closes[e] > 0 \/ e \in doomed \/ e \in lost \/ \E r \in Requests : e \in req[r].retire

Owned == \A e \in Entries : OwnedAt(e)

\* One cleanup does the work.  From the moment it takes the entries no request is
\* inside, and none enters; when it is over no task runs, and none is made.
Ending ==
    /\ cleanup \in {"polling", "closing", "over"} => closing
    /\ cleanup \in {"closing", "over"} => active = 0 /\ \A i \in Instances : mapped[i] = None
    /\ doomed # {} => cleanup = "closing"
    /\ cleanup = "over" => released = 1 /\ \A e \in Entries : task[e] # "running"
    /\ cleanup # "over" => released = 0
    /\ \A k \in Closers : closer[k] = "over" => cleanup = "over"

IInv ==
    /\ AsyncTypeOK
    /\ Counted
    /\ Located
    /\ Executed
    /\ Created
    /\ Owned
    /\ Ending

-----------------------------------------------------------------------------
(* Counting sets of requests.                                              *)

\* A finite set of which at most one element comes or goes.
LEMMA CountOne ==
    ASSUME NEW S, NEW T, NEW x, IsFiniteSet(S), IsFiniteSet(T), S \ {x} = T \ {x}
    PROVE  /\ Cardinality(S) \in Nat /\ Cardinality(T) \in Nat
           /\ Cardinality(T) + One(x \in S) = Cardinality(S) + One(x \in T)
<1>1. Cardinality(S) \in Nat /\ Cardinality(T) \in Nat
  BY FS_CardinalityType
<1>2. Cardinality(S \ {x}) = Cardinality(S) - One(x \in S)
  BY <1>1, FS_RemoveElement DEF One
<1>3. Cardinality(T \ {x}) = Cardinality(T) - One(x \in T)
  BY <1>1, FS_RemoveElement DEF One
<1>4. QED
  BY <1>1, <1>2, <1>3 DEF One

\* Every set of requests is finite and no larger than that of all.
LEMMA CountRequests ==
    ASSUME NEW S \in SUBSET Requests
    PROVE  /\ IsFiniteSet(S)
           /\ Cardinality(S) \in Nat /\ Cardinality(Requests) \in Nat
           /\ Cardinality(S) <= Cardinality(Requests)
<1>1. IsFiniteSet(S) /\ Cardinality(S) <= Cardinality(Requests)
  BY FS_Subset, TransportAssumption
<1>2. QED
  BY <1>1, FS_CardinalityType, TransportAssumption

\* A step of one request moves that request and no other from set to set.
LEMMA CountMoved ==
    ASSUME NEW r \in Requests, \A q \in Requests \ {r} : req'[q] = req[q]
    PROVE  /\ Cardinality(Inside') + One(r \in Inside)
                 = Cardinality(Inside) + One(r \in Inside')
           /\ Cardinality(First') + One(r \in First)
                 = Cardinality(First) + One(r \in First')
           /\ Cardinality(Second') + One(r \in Second)
                 = Cardinality(Second) + One(r \in Second')
           /\ \A e : Cardinality(Using(e)') + One(r \in Using(e))
                 = Cardinality(Using(e)) + One(r \in Using(e)')
<1>1. /\ Inside \in SUBSET Requests /\ Inside' \in SUBSET Requests
      /\ Inside \ {r} = Inside' \ {r}
  BY DEF Inside
<1>2. /\ First \in SUBSET Requests /\ First' \in SUBSET Requests
      /\ First \ {r} = First' \ {r}
  BY DEF First
<1>3. /\ Second \in SUBSET Requests /\ Second' \in SUBSET Requests
      /\ Second \ {r} = Second' \ {r}
  BY DEF Second
<1>4. ASSUME NEW e
      PROVE  Cardinality(Using(e)') + One(r \in Using(e))
               = Cardinality(Using(e)) + One(r \in Using(e)')
  <2>1. /\ Using(e) \in SUBSET Requests /\ Using(e)' \in SUBSET Requests
        /\ Using(e) \ {r} = Using(e)' \ {r}
    BY DEF Using
  <2>2. QED
    BY <2>1, CountRequests, CountOne
<1>5. QED
  BY <1>1, <1>2, <1>3, <1>4, CountRequests, CountOne

\* All counts are numbers, and not zero for a set that has an element.
LEMMA CountTypes ==
    /\ Cardinality(Requests) \in Nat
    /\ Cardinality(Inside) \in 0 .. Cardinality(Requests)
    /\ Cardinality(First) \in 0 .. Cardinality(Requests)
    /\ Cardinality(Second) \in 0 .. Cardinality(Requests)
    /\ \A e : Cardinality(Using(e)) \in 0 .. Cardinality(Requests)
    /\ (Inside = {} <=> Cardinality(Inside) = 0)
    /\ (First = {} <=> Cardinality(First) = 0)
    /\ (Second = {} <=> Cardinality(Second) = 0)
    /\ \A e : (Using(e) = {} <=> Cardinality(Using(e)) = 0)
<1>1. /\ Inside \in SUBSET Requests /\ First \in SUBSET Requests /\ Second \in SUBSET Requests
      /\ \A e : Using(e) \in SUBSET Requests
  BY DEF Inside, First, Second, Using
<1>2. QED
  BY <1>1, CountRequests, FS_EmptySet

\* The bounds of the types, as numbers.
LEMMA Bounds ==
    /\ Entries = 1 .. (2 * Cardinality(Requests) + 1)
    /\ Cardinality(Entries) = 2 * Cardinality(Requests) + 1
    /\ Cardinality(Entries) \in Nat /\ Instances \subseteq Nat /\ None \notin Nat \cup Results
    /\ 1 \in Entries /\ 1 \in Instances
<1>1. Cardinality(Requests) \in Nat
  BY CountTypes
<1>2. Cardinality(1 .. (2 * Cardinality(Requests) + 1)) = 2 * Cardinality(Requests) + 1
  BY <1>1, FS_Interval
<1>3. QED
  BY <1>1, <1>2, TransportAssumption DEF Entries, Instances

-----------------------------------------------------------------------------
(* Counting steps.                                                         *)

\* A sum that does not grow stays below its bound, when parts are exchanged for others.
LEMMA SumKept ==
    ASSUME NEW x \in Int, NEW y \in Int, NEW x1 \in Int, NEW y1 \in Int,
           NEW w \in Int, NEW z \in Int, NEW w1 \in Int, NEW z1 \in Int,
           NEW rest \in Int, NEW rest1 \in Int, NEW bound \in Int,
           x1 + w = x + w1, y1 + z = y + z1,
           rest1 + w1 + z1 <= rest + w + z,
           rest + x + y <= bound
    PROVE  rest1 + x1 + y1 <= bound
OBVIOUS

\* What a step of one request has to show of the counters.
LEMMA CountedStep ==
    ASSUME AsyncTypeOK, Counted,
           NEW r \in Requests, \A q \in Requests \ {r} : req'[q] = req[q],
           active' \in Int, active' + One(r \in Inside) = active + One(r \in Inside'),
           \A e \in Entries :
              /\ users'[e] \in Int
              /\ users'[e] + One(r \in Using(e)) = users[e] + One(r \in Using(e)'),
           made' \in Nat,
           made' + One(r \in First') + One(r \in Second')
             <= made + One(r \in First) + One(r \in Second)
    PROVE  /\ Counted'
           /\ active' \in 0 .. Cardinality(Requests)
           /\ \A e \in Entries : users'[e] \in 0 .. Cardinality(Requests)
           /\ made' \in 0 .. Cardinality(Entries)
<1> DEFINE size == Cardinality(Requests)
<1>1. /\ Inside' \in SUBSET Requests /\ First' \in SUBSET Requests /\ Second' \in SUBSET Requests
      /\ \A e : Using(e)' \in SUBSET Requests
  BY DEF Inside, First, Second, Using
<1>2. /\ Cardinality(Inside') \in 0 .. size /\ Cardinality(First') \in 0 .. size
      /\ Cardinality(Second') \in 0 .. size /\ \A e : Cardinality(Using(e)') \in 0 .. size
  BY <1>1, CountRequests
<1>3. /\ size \in Nat /\ made \in Nat
      /\ Cardinality(Inside) \in 0 .. size /\ Cardinality(First) \in 0 .. size
      /\ Cardinality(Second) \in 0 .. size /\ \A e : Cardinality(Using(e)) \in 0 .. size
  BY CountTypes, Bounds DEF AsyncTypeOK
<1>4. /\ One(r \in Inside) \in Int /\ One(r \in Inside') \in Int
      /\ One(r \in First) \in Int /\ One(r \in First') \in Int
      /\ One(r \in Second) \in Int /\ One(r \in Second') \in Int
      /\ \A e : One(r \in Using(e)) \in Int /\ One(r \in Using(e)') \in Int
  BY DEF One
<1>5. active' = Cardinality(Inside')
  BY <1>2, <1>3, <1>4, CountMoved DEF Counted
<1>6. ASSUME NEW e \in Entries PROVE users'[e] = Cardinality(Using(e)')
  <2>1. users[e] = Cardinality(Using(e))
    BY DEF Counted
  <2>2. Cardinality(Using(e)') + One(r \in Using(e)) = Cardinality(Using(e)) + One(r \in Using(e)')
    BY CountMoved
  <2>3. /\ Cardinality(Using(e)) \in Int /\ Cardinality(Using(e)') \in Int
        /\ One(r \in Using(e)) \in Int /\ One(r \in Using(e)') \in Int
        /\ users'[e] \in Int
        /\ users'[e] + One(r \in Using(e)) = users[e] + One(r \in Using(e)')
    BY <1>2, <1>3, <1>4
  <2>4. QED
    BY ONLY <2>1, <2>2, <2>3
<1>7. made' + Cardinality(First') + Cardinality(Second') <= 2 * size + 1
  BY <1>2, <1>3, <1>4, CountMoved, SumKept DEF Counted
<1>8. Counted'
  BY <1>5, <1>6, <1>7 DEF Counted
<1>9. made' <= 2 * size + 1
  BY <1>2, <1>3, <1>7
<1>10. made' \in 0 .. Cardinality(Entries)
  BY ONLY <1>3, <1>9, Bounds, made' \in Nat
<1>11. QED
  BY <1>2, <1>5, <1>6, <1>8, <1>10

\* The transport starts with no entry and with nobody inside.
LEMMA InitIInv == AsyncInit => IInv
<1> SUFFICES ASSUME AsyncInit PROVE IInv
  OBVIOUS
<1> USE CountTypes, Bounds DEF AsyncInit
<1>1. AsyncTypeOK
  <2>1. closed \in BOOLEAN /\ closing \in BOOLEAN /\ done \in BOOLEAN
    OBVIOUS
  <2>2. req \in Locals
    BY DEF Locals
  <2>3. issued \in 0 .. MaxInstances
    BY TransportAssumption
  <2>4. QED
    BY <2>1, <2>2, <2>3 DEF AsyncTypeOK, Results, Locals, Endings
<1>2. Counted
  <2>1. Inside = {} /\ \A e \in Entries : Using(e) = {}
    BY DEF Inside, Using
  <2>2. QED
    BY <2>1 DEF Counted
<1>3. Located
  BY DEF Located, LocatedAt
<1>4. Executed
  BY DEF Executed, ExecutedAt, Results
<1>5. Created
  BY DEF Created, Live
<1>6. Owned
  BY DEF Owned, OwnedAt, HeldBy, Kept, Live
<1>7. Ending
  BY DEF Ending
<1>8. QED
  BY <1>1, <1>2, <1>3, <1>4, <1>5, <1>6, <1>7 DEF IInv

-----------------------------------------------------------------------------
(* Steps of a request.                                                     *)

\* The sets a request is in, by where it is.
LEMMA Places ==
    ASSUME AsyncTypeOK, NEW r \in Requests
    PROVE  /\ req \in Locals
           /\ (r \in Inside <=> req[r].at \notin {"idle", "done"})
           /\ (r \in Inside' <=> req'[r].at \notin {"idle", "done"})
           /\ (r \in First <=> req[r].attempt = 1 /\ req[r].at \in {"idle", "ensure", "prune"})
           /\ (r \in First' <=> req'[r].attempt = 1 /\ req'[r].at \in {"idle", "ensure", "prune"})
           /\ (r \in Second <=> /\ req[r].at # "done"
                                /\ req[r].attempt = 1 \/ req[r].at \in {"ensure", "prune"})
           /\ (r \in Second' <=> /\ req'[r].at # "done"
                                 /\ req'[r].attempt = 1 \/ req'[r].at \in {"ensure", "prune"})
           /\ \A e : (r \in Using(e) <=> req[r].at = "call" /\ req[r].entry = e)
           /\ \A e : (r \in Using(e)' <=> req'[r].at = "call" /\ req'[r].entry = e)
<1>1. req \in Locals
  BY DEF AsyncTypeOK, Locals, Endings
<1>2. QED
  BY <1>1 DEF Inside, First, Second, Using

\* While a request is inside, no cleanup has taken the entries.
LEMMA InsideIsOpen ==
    ASSUME IInv, NEW r \in Inside
    PROVE  /\ cleanup \notin {"closing", "over"} /\ doomed = {}
<1>1. active # 0
  BY CountTypes DEF IInv, Counted
<1>2. QED
  BY <1>1 DEF IInv, Ending

\* The variables of the entries have their types; the counts are those of Counted.
EntriesTyped ==
    /\ mapped \in [Instances -> Entries \cup {None}]
    /\ of \in [Entries -> Instances \cup {None}] /\ ready \in [Entries -> {"none", "ok"}]
    /\ users \in [Entries -> Int] /\ closes \in [Entries -> 0 .. 1]
    /\ session \in [Entries -> {"none", "listed", "reaped"}]
    /\ task \in [Entries -> {"none", "running", "over"}] /\ lost \subseteq Entries

\* One request moves, and is counted.
Moves(r) ==
    /\ req' \in Locals
    /\ executed' \in [Requests -> 0 .. 2] /\ outcome' \in [Requests -> Endings \cup {None}]
    /\ \A q \in Requests \ {r} :
          req'[q] = req[q] /\ executed'[q] = executed[q] /\ outcome'[q] = outcome[q]
    /\ LocatedAt(r)' /\ ExecutedAt(r)'
    /\ active' \in Int
    /\ active' + One(r \in Inside) = active + One(r \in Inside')

\* What a step of one request has to show of the entries.
LEMMA RequestIInv ==
    ASSUME IInv, NEW r \in Requests, Moves(r),
           r \in Inside \/ ~closing \/ UNCHANGED <<active, entries, task>>,
           EntriesTyped', Created', Owned',
           \A e \in Entries : users'[e] + One(r \in Using(e)) = users[e] + One(r \in Using(e)'),
           made' \in Nat, made <= made',
           made' + One(r \in First') + One(r \in Second')
             <= made + One(r \in First) + One(r \in Second),
           UNCHANGED <<runtime, ending, cleanup, tended>>
    PROVE  IInv'
<1>1. /\ Counted' /\ active' \in 0 .. Cardinality(Requests)
      /\ \A e \in Entries : users'[e] \in 0 .. Cardinality(Requests)
      /\ made' \in 0 .. Cardinality(Entries)
  <2>1. \A q \in Requests \ {r} : req'[q] = req[q]
    BY DEF Moves
  <2>2. active' \in Int /\ active' + One(r \in Inside) = active + One(r \in Inside')
    BY DEF Moves
  <2>3. \A e \in Entries : users'[e] \in Int
    BY DEF EntriesTyped
  <2>4. AsyncTypeOK /\ Counted
    BY DEF IInv
  <2>5. QED
    BY <2>1, <2>2, <2>3, <2>4, CountedStep
<1>2. AsyncTypeOK'
  <2>1. users' \in [Entries -> 0 .. Cardinality(Requests)]
    BY <1>1 DEF EntriesTyped
  <2>2. QED
    BY <1>1, <2>1 DEF IInv, AsyncTypeOK, EntriesTyped, Moves, Locals, Endings, runtime, ending
<1>3. Located'
  <2>1. ASSUME NEW q \in Requests \ {r} PROVE LocatedAt(q)'
    <3>1. LocatedAt(q) /\ req'[q] = req[q] /\ Live \subseteq Live'
      BY DEF IInv, Located, Moves, Live, AsyncTypeOK
    <3>2. QED
      BY <3>1 DEF LocatedAt
  <2>2. QED
    BY <2>1 DEF Located, Moves
<1>4. Executed'
  <2>1. ASSUME NEW q \in Requests \ {r} PROVE ExecutedAt(q)'
    BY DEF IInv, Executed, ExecutedAt, Moves
  <2>2. QED
    BY <2>1 DEF Executed, Moves
<1>5. Ending'
  <2>1. CASE UNCHANGED <<active, entries, task>>
    BY <2>1 DEF IInv, Ending, ending, entries
  <2>2. /\ closing' = closing /\ doomed' = doomed /\ released' = released /\ closer' = closer
        /\ cleanup' = cleanup
    BY DEF ending
  <2>3. CASE r \in Inside \/ ~closing
    <3>1. cleanup \notin {"closing", "over"}
      BY <2>3, InsideIsOpen DEF IInv, Ending
    <3>2. QED
      BY <2>2, <3>1 DEF IInv, Ending
  <2>4. QED
    BY <2>1, <2>3
<1>6. QED
  BY <1>1, <1>2, <1>3, <1>4, <1>5 DEF IInv

\* A request that touches no entry leaves the entries as they are.
LEMMA EntriesStay ==
    ASSUME IInv, UNCHANGED <<entries, task, lost, doomed>>,
           \A q \in Requests : req'[q].retire = req[q].retire
    PROVE  EntriesTyped' /\ Created' /\ Owned'
<1>1. EntriesTyped'
  BY CountTypes DEF IInv, AsyncTypeOK, EntriesTyped, entries
<1>2. Created'
  BY DEF IInv, Created, Live, entries
<1>3. Owned'
  BY DEF IInv, Owned, OwnedAt, HeldBy, Kept, Live, entries
<1>4. QED
  BY <1>1, <1>2, <1>3

\* What the outer finally does to the request.
LEMMA EndedMoves ==
    ASSUME IInv, NEW r \in Inside, NEW result \in Endings, Ended(r, result),
           executed' \in [Requests -> 0 .. 2],
           \A q \in Requests \ {r} : executed'[q] = executed[q],
           executed'[r] <= 1, result = "ok" => executed'[r] = 1,
           result \in {"unavailable", "notfound"} => executed'[r] = 0
    PROVE  /\ Moves(r) /\ req'[r].retire = {} /\ req'[r].at = "done"
           /\ r \notin First' /\ r \notin Second' /\ \A e : r \notin Using(e)'
<1>1. r \in Requests /\ AsyncTypeOK /\ req \in Locals /\ req[r].at # "done"
  BY Places DEF Inside, IInv
<1>2. /\ req' \in Locals /\ req'[r].at = "done" /\ req'[r].retire = {}
      /\ \A q \in Requests \ {r} : req'[q] = req[q]
  BY <1>1 DEF Ended, Locals
<1>3. /\ outcome' \in [Requests -> Endings \cup {None}] /\ outcome'[r] = Raised(result)
      /\ \A q \in Requests \ {r} : outcome'[q] = outcome[q]
  BY <1>1 DEF Ended, Raised, AsyncTypeOK, Endings, Results
<1>4. LocatedAt(r)' /\ ExecutedAt(r)'
  BY <1>2, <1>3 DEF LocatedAt, ExecutedAt, Raised, Endings, Results
<1>5. r \in Inside /\ r \notin Inside' /\ r \notin First' /\ r \notin Second'
      /\ \A e : r \notin Using(e)'
  BY <1>1, <1>2, Places
<1>6. active' \in Int /\ active' + One(r \in Inside) = active + One(r \in Inside')
  <2>1. active' = active - 1 /\ active \in Int
    BY <1>1, CountTypes DEF Ended, AsyncTypeOK
  <2>2. One(r \in Inside) = 1 /\ One(r \in Inside') = 0
    BY <1>5 DEF One
  <2>3. QED
    BY <2>1, <2>2
<1>7. QED
  BY <1>1, <1>2, <1>3, <1>4, <1>5, <1>6 DEF Moves

\* What the end of an attempt does to it: a second attempt only if nothing ran.
LEMMA AfterMoves ==
    ASSUME IInv, NEW r \in Inside, NEW result \in Endings, After(r, result),
           executed' \in [Requests -> 0 .. 2],
           \A q \in Requests \ {r} : executed'[q] = executed[q],
           executed'[r] <= 1, result = "ok" => executed'[r] = 1,
           result \in {"unavailable", "notfound"} => executed'[r] = 0
    PROVE  /\ Moves(r) /\ req'[r].retire = {} /\ r \notin First' /\ \A e : r \notin Using(e)'
           /\ r \in Second' => r \in Second
<1>1. CASE ~Retried(r, result)
  BY <1>1, EndedMoves DEF After
<1>2. CASE Retried(r, result)
  <2>1. r \in Requests /\ AsyncTypeOK /\ req \in Locals /\ req[r].at \notin {"idle", "done"}
    BY Places DEF Inside, IInv
  <2>2. /\ req[r].attempt = 1 /\ result \in {"unavailable", "notfound"}
        /\ req' = [req EXCEPT ![r] = [at |-> "ensure", attempt |-> 2, instance |-> None,
                                      entry |-> None, retire |-> {}, result |-> None]]
        /\ UNCHANGED <<outcome, active>>
    BY <1>2 DEF After, Retried, Proceed
  <2>3. /\ req' \in Locals /\ req'[r].at = "ensure" /\ req'[r].retire = {}
        /\ req'[r].attempt = 2
        /\ \A q \in Requests \ {r} : req'[q] = req[q]
    BY <2>1, <2>2 DEF Locals
  <2>4. outcome[r] = None /\ outcome \in [Requests -> Endings \cup {None}]
    BY <2>1 DEF IInv, Executed, ExecutedAt, AsyncTypeOK, Endings
  <2>5. LocatedAt(r)' /\ ExecutedAt(r)'
    <3>1. None \notin Results
      BY TransportAssumption
    <3>2. QED
      BY <2>2, <2>3, <2>4, <3>1 DEF LocatedAt, ExecutedAt, Results
  <2>6. r \in Inside /\ r \in Inside' /\ r \notin First' /\ r \in Second
        /\ \A e : r \notin Using(e)'
    BY <2>1, <2>2, <2>3, Places
  <2>7. active' \in Int /\ active' + One(r \in Inside) = active + One(r \in Inside')
    <3>1. active' = active /\ active \in Int
      BY <2>1, <2>2, CountTypes DEF AsyncTypeOK
    <3>2. One(r \in Inside) = 1 /\ One(r \in Inside') = 1
      BY <2>6 DEF One
    <3>3. QED
      BY <3>1, <3>2
  <2>8. QED
    BY <2>1, <2>2, <2>3, <2>4, <2>5, <2>6, <2>7 DEF Moves
<1>3. QED
  BY <1>1, <1>2

\* No entry is made, and the request can make fewer than before.
LEMMA NoneMade ==
    ASSUME IInv, NEW r \in Requests, made' = made,
           r \in First' => r \in First, r \in Second' => r \in Second
    PROVE  /\ made' \in Nat /\ made <= made'
           /\ made' + One(r \in First') + One(r \in Second')
                <= made + One(r \in First) + One(r \in Second)
<1>1. made \in Nat
  BY Bounds DEF IInv, AsyncTypeOK
<1>2. /\ One(r \in First) \in Int /\ One(r \in First') \in Int
      /\ One(r \in Second) \in Int /\ One(r \in Second') \in Int
      /\ One(r \in First') <= One(r \in First) /\ One(r \in Second') <= One(r \in Second)
  BY DEF One
<1>3. QED
  BY <1>1, <1>2

\* handle_async_request begins, or is refused.
LEMMA BeginIInv == ASSUME IInv, NEW r \in Requests, AsyncBegin(r) PROVE IInv'
<1>1. /\ AsyncTypeOK /\ req \in Locals /\ req[r].at = "idle" /\ LocatedAt(r) /\ ExecutedAt(r)
      /\ UNCHANGED <<runtime, entries, executed, ending, tasks>>
  BY Places DEF AsyncBegin, Begin, At, IInv, Located, Executed
<1>2. /\ executed \in [Requests -> 0 .. 2] /\ outcome \in [Requests -> Endings \cup {None}]
      /\ executed[r] = 0 /\ outcome[r] = None /\ active \in Int
      /\ req[r].attempt = 1 /\ req[r].retire = {} /\ None \notin Results
  BY <1>1, CountTypes, TransportAssumption DEF AsyncTypeOK, ExecutedAt, LocatedAt, Endings
<1>3. CASE closing \/ done
  <2>1. /\ req' = [req EXCEPT ![r].at = "done"] /\ outcome' = [outcome EXCEPT ![r] = "unavailable"]
        /\ active' = active
    BY <1>3 DEF AsyncBegin, Begin
  <2>2. /\ req' \in Locals /\ \A q \in Requests \ {r} : req'[q] = req[q]
        /\ req'[r].at = "done" /\ req'[r].retire = req[r].retire
    BY ONLY <1>1, <2>1, r \in Requests DEF Locals
  <2>3. /\ outcome' \in [Requests -> Endings \cup {None}] /\ outcome'[r] = "unavailable"
        /\ \A q \in Requests \ {r} : outcome'[q] = outcome[q]
    BY <1>2, <2>1 DEF Endings, Results
  <2>4. LocatedAt(r)' /\ ExecutedAt(r)'
    BY <1>1, <1>2, <2>2, <2>3 DEF LocatedAt, ExecutedAt
  <2>5. /\ r \notin Inside /\ r \notin Inside' /\ r \notin First' /\ r \notin Second'
        /\ \A e : r \notin Using(e)' /\ r \notin Using(e)
    BY <1>1, <2>2, Places
  <2>6. Moves(r)
    BY <1>1, <1>2, <2>1, <2>2, <2>3, <2>4, <2>5 DEF Moves, One
  <2>7. \A q \in Requests : req'[q].retire = req[q].retire
    BY <2>2
  <2>8. EntriesTyped' /\ Created' /\ Owned'
    BY <1>1, <2>7, EntriesStay DEF tasks, ending
  <2>9. \A e \in Entries : users'[e] + One(r \in Using(e)) = users[e] + One(r \in Using(e)')
    BY <1>1, <2>5 DEF entries
  <2>10. QED
    BY <1>1, <2>1, <2>5, <2>6, <2>8, <2>9, NoneMade, RequestIInv DEF entries, tasks
<1>4. CASE ~(closing \/ done)
  <2>1. /\ req' = [req EXCEPT ![r].at = "ensure"] /\ outcome' = outcome
        /\ active' = active + 1
    BY <1>4 DEF AsyncBegin, Begin
  <2>2. /\ req' \in Locals /\ \A q \in Requests \ {r} : req'[q] = req[q]
        /\ req'[r].at = "ensure" /\ req'[r].retire = req[r].retire
        /\ req'[r].attempt = req[r].attempt
    BY ONLY <1>1, <2>1, r \in Requests DEF Locals
  <2>3. LocatedAt(r)' /\ ExecutedAt(r)'
    BY <1>1, <1>2, <2>1, <2>2 DEF LocatedAt, ExecutedAt, Results
  <2>4. /\ r \notin Inside /\ r \in Inside' /\ r \in First /\ r \in Second
        /\ \A e : r \notin Using(e)' /\ r \notin Using(e)
    BY <1>1, <1>2, <2>2, Places
  <2>5. Moves(r)
    BY <1>1, <1>2, <2>1, <2>2, <2>3, <2>4 DEF Moves, One
  <2>6. \A q \in Requests : req'[q].retire = req[q].retire
    BY <2>2
  <2>7. EntriesTyped' /\ Created' /\ Owned'
    BY <1>1, <2>6, EntriesStay DEF tasks, ending
  <2>8. \A e \in Entries : users'[e] + One(r \in Using(e)) = users[e] + One(r \in Using(e)')
    BY <1>1, <2>4 DEF entries
  <2>9. QED
    BY <1>1, <1>4, <2>4, <2>5, <2>7, <2>8, NoneMade, RequestIInv DEF entries, tasks
<1>5. QED
  BY <1>3, <1>4

\* ensure_async() raises.
LEMMA EnsureFailsIInv == ASSUME IInv, NEW r \in Requests, EnsureFails(r) PROVE IInv'
<1>1. /\ AsyncTypeOK /\ req \in Locals /\ req[r].at = "ensure" /\ LocatedAt(r) /\ ExecutedAt(r)
      /\ UNCHANGED <<runtime, entries, executed, ending, tasks>>
  BY Places DEF EnsureFails, At, IInv, Located, Executed
<1>2. PICK error \in {"unavailable", "error"} : Ended(r, error)
  BY DEF EnsureFails
<1>3. /\ r \in Inside /\ \A e : r \notin Using(e)
      /\ req[r].retire = {} /\ executed[r] = 0 /\ executed \in [Requests -> 0 .. 2]
      /\ error \in Endings /\ error # "ok"
  BY <1>1, Places DEF LocatedAt, ExecutedAt, AsyncTypeOK, Endings, Results
<1>4. /\ Moves(r) /\ req'[r].retire = {} /\ r \notin First' /\ r \notin Second'
      /\ \A e : r \notin Using(e)'
  BY <1>1, <1>2, <1>3, EndedMoves
<1>5. EntriesTyped' /\ Created' /\ Owned'
  BY <1>1, <1>3, <1>4, EntriesStay DEF tasks, ending, Moves
<1>6. \A e \in Entries : users'[e] + One(r \in Using(e)) = users[e] + One(r \in Using(e)')
  BY <1>1, <1>3, <1>4 DEF entries
<1>7. QED
  BY <1>1, <1>3, <1>4, <1>5, <1>6, NoneMade, RequestIInv DEF entries, tasks

\* The task a request waited for is over, and with it the attempt.
LEMMA RetireEndsIInv == ASSUME IInv, NEW r \in Requests, RetireEnds(r) PROVE IInv'
<1>1. /\ AsyncTypeOK /\ req \in Locals /\ req[r].at = "retire" /\ LocatedAt(r) /\ ExecutedAt(r)
      /\ UNCHANGED <<runtime, entries, executed, ending, tasks>> /\ After(r, req[r].result)
  BY Places DEF RetireEnds, At, IInv, Located, Executed
<1>2. /\ r \in Inside /\ \A e : r \notin Using(e)
      /\ req[r].retire = {} /\ executed \in [Requests -> 0 .. 2] /\ req[r].result \in Endings
  BY <1>1, Places DEF LocatedAt, AsyncTypeOK
<1>3. /\ Moves(r) /\ req'[r].retire = {} /\ r \notin First' /\ \A e : r \notin Using(e)'
      /\ r \in Second' => r \in Second
  BY <1>1, <1>2, AfterMoves DEF ExecutedAt
<1>4. EntriesTyped' /\ Created' /\ Owned'
  BY <1>1, <1>2, <1>3, EntriesStay DEF tasks, ending, Moves
<1>5. \A e \in Entries : users'[e] + One(r \in Using(e)) = users[e] + One(r \in Using(e)')
  BY <1>1, <1>2, <1>3 DEF entries
<1>6. QED
  BY <1>1, <1>2, <1>3, <1>4, <1>5, NoneMade, RequestIInv DEF entries, tasks

\* A request is cancelled between its calls: what it still held is lost.
LEMMA CancelIInv == ASSUME IInv, NEW r \in Requests, Cancel(r) PROVE IInv'
<1>1. /\ AsyncTypeOK /\ req \in Locals /\ req[r].at \in {"ensure", "prune", "retire"}
      /\ LocatedAt(r) /\ ExecutedAt(r) /\ Ended(r, "cancelled")
      /\ lost' = lost \cup req[r].retire
      /\ UNCHANGED <<runtime, entries, executed, ending, task, cleanup, tended>>
  BY Places DEF Cancel, IInv, Located, Executed
<1>2. /\ r \in Inside /\ \A e : r \notin Using(e)
      /\ executed \in [Requests -> 0 .. 2] /\ "cancelled" \in Endings /\ executed[r] <= 1
  BY <1>1, Places DEF ExecutedAt, AsyncTypeOK, Endings
<1>3. /\ Moves(r) /\ req'[r].retire = {} /\ r \notin First' /\ r \notin Second'
      /\ \A e : r \notin Using(e)'
  BY <1>1, <1>2, EndedMoves
<1>4. EntriesTyped'
  BY <1>1, CountTypes DEF IInv, AsyncTypeOK, EntriesTyped, entries, Locals
<1>5. Created'
  BY <1>1 DEF IInv, Created, Live, entries
<1>6. Owned'
  <2>1. /\ UNCHANGED <<mapped, made, of, users, closes, task, doomed>>
        /\ \A q \in Requests \ {r} : req'[q] = req[q]
    BY <1>1, <1>3 DEF entries, ending, Moves
  <2>2. ASSUME NEW e \in Entries PROVE OwnedAt(e)'
    <3>1. OwnedAt(e) /\ Kept(e)' = Kept(e) /\ (e \in Live' <=> e \in Live)
      BY <2>1 DEF IInv, Owned, Kept, Live
    <3>2. CASE e \in req[r].retire
      <4>1. HeldBy(r, e)
        BY <3>1, <3>2 DEF OwnedAt
      <4>2. \A q \in Requests : e \notin req'[q].retire
        BY <1>3, <2>1, <4>1 DEF HeldBy
      <4>3. e \in lost'
        BY <1>1, <3>2
      <4>4. QED
        BY <2>1, <3>1, <4>1, <4>2, <4>3 DEF OwnedAt, HeldBy
    <3>3. CASE e \notin req[r].retire
      <4>1. \A q \in Requests : e \in req'[q].retire <=> e \in req[q].retire
        BY <1>3, <2>1, <3>3
      <4>2. e \in lost' <=> e \in lost
        BY <1>1, <3>3
      <4>3. QED
        BY <2>1, <3>1, <4>1, <4>2 DEF OwnedAt, HeldBy
    <3>4. QED
      BY <3>2, <3>3
  <2>3. QED
    BY <2>2 DEF Owned
<1>7. \A e \in Entries : users'[e] + One(r \in Using(e)) = users[e] + One(r \in Using(e)')
  BY <1>1, <1>2, <1>3 DEF entries
<1>8. QED
  BY <1>1, <1>2, <1>3, <1>4, <1>5, <1>6, <1>7, NoneMade, RequestIInv DEF entries

-----------------------------------------------------------------------------
(* Steps of a request that touch its entry.                                *)

\* Only entries that were made are kept.
LEMMA KeptIsLive == ASSUME IInv, NEW e \in Entries, Kept(e) PROVE e \in Live
<1>1. CASE users[e] > 0
  <2>1. Using(e) # {}
    BY <1>1, CountTypes DEF IInv, Counted
  <2>2. QED
    BY <2>1 DEF Using, IInv, Located, LocatedAt
<1>2. CASE \E i \in Instances : of[e] = i /\ mapped[i] = e
  <2>1. e # None
    BY Bounds
  <2>2. QED
    BY <1>2, <2>1 DEF IInv, Created
<1>3. QED
  BY <1>1, <1>2 DEF Kept

\* A step that concerns one entry leaves the others to their owners.
LEMMA OwnedExcept ==
    ASSUME Owned, UNCHANGED <<doomed, lost>>,
           NEW r \in Requests, \A q \in Requests \ {r} : req'[q] = req[q],
           NEW e \in Entries,
           \A x \in Entries \ {e} :
              /\ closes'[x] = closes[x] /\ task'[x] = task[x]
              /\ Kept(x)' <=> Kept(x)
              /\ x \in Live' <=> x \in Live
              /\ x \in req'[r].retire <=> x \in req[r].retire,
           OwnedAt(e)'
    PROVE  Owned'
<1>1. ASSUME NEW x \in Entries \ {e} PROVE OwnedAt(x)'
  <2>1. /\ OwnedAt(x)
        /\ closes'[x] = closes[x] /\ task'[x] = task[x]
        /\ Kept(x)' <=> Kept(x)
        /\ x \in Live' <=> x \in Live
        /\ \A q \in Requests : x \in req'[q].retire <=> x \in req[q].retire
    BY DEF Owned
  <2>2. QED
    BY <2>1 DEF OwnedAt, HeldBy
<1>2. QED
  BY <1>1 DEF Owned

\* A request takes the entry of an instance, or makes one.
LEMMA CheckoutIInv ==
    ASSUME IInv, NEW r \in Requests, NEW i \in Instances,
           req[r].at \in {"ensure", "prune"}, req[r].retire = {},
           Checkout(r, i), NoClosing,
           UNCHANGED <<runtime, executed, outcome, active, ending, cleanup, tended, lost>>
    PROVE  IInv'
<1>0. PICK e : e = IF mapped[i] = None THEN made + 1 ELSE mapped[i]
  OBVIOUS
<1>1. /\ AsyncTypeOK /\ req \in Locals /\ LocatedAt(r) /\ ExecutedAt(r) /\ Created /\ Owned
      /\ made \in Nat
  <2>1. AsyncTypeOK /\ Located /\ Executed /\ Created /\ Owned
    BY DEF IInv
  <2>2. made \in Nat
    BY <2>1, Bounds DEF AsyncTypeOK
  <2>3. QED
    BY <2>1, <2>2, Places DEF Located, Executed
<1>2. /\ made' = IF mapped[i] = None THEN e ELSE made
      /\ of' = [of EXCEPT ![e] = i] /\ ready' = [ready EXCEPT ![e] = "ok"]
      /\ mapped' = [mapped EXCEPT ![i] = e]
      /\ users' = [users EXCEPT ![e] = @ + 1]
      /\ session' = IF mapped[i] = None THEN [session EXCEPT ![e] = "listed"] ELSE session
      /\ req' = [req EXCEPT ![r].at = "call", ![r].instance = None, ![r].entry = e]
      /\ UNCHANGED <<closes, task>>
  BY <1>0 DEF Checkout, NoClosing
<1>3. /\ r \in Inside /\ r \in Second /\ (r \in First <=> req[r].attempt = 1)
      /\ \A x : r \notin Using(x)
  BY <1>1, Places
<1>4. /\ e \in Entries
      /\ mapped[i] = None => e = made + 1 /\ e \notin Live
      /\ mapped[i] # None => e \in Live /\ mapped[i] = e /\ of[e] = i
  <2>1. CASE mapped[i] # None
    BY <1>0, <1>1, <2>1 DEF Created, AsyncTypeOK
  <2>2. CASE mapped[i] = None
    <3>1. Cardinality(Second) # 0 /\ Cardinality(Second) \in Nat /\ Cardinality(First) \in Nat
      BY <1>3, CountTypes
    <3>2. made + Cardinality(First) + Cardinality(Second) <= 2 * Cardinality(Requests) + 1
      BY DEF IInv, Counted
    <3>3. made + 1 \in Entries
      BY <1>1, <3>1, <3>2, CountTypes DEF Entries
    <3>4. QED
      BY <1>0, <1>1, <2>2, <3>3 DEF Live
  <2>3. QED
    BY <2>1, <2>2
<1>5. /\ closes[e] = 0 /\ task[e] = "none" /\ e \notin doomed /\ e \notin lost
      /\ \A q \in Requests : e \notin req[q].retire
  <2>1. OwnedAt(e) /\ closes[e] \in 0 .. 1
    BY <1>1, <1>4 DEF Owned, AsyncTypeOK
  <2>2. CASE mapped[i] = None
    BY <1>4, <2>1, <2>2 DEF OwnedAt, HeldBy
  <2>3. CASE mapped[i] # None
    <3>1. Kept(e)
      BY <1>4, <2>3 DEF Kept
    <3>2. QED
      BY <2>1, <3>1 DEF OwnedAt, HeldBy
  <2>4. QED
    BY <2>2, <2>3
<1>6. /\ req' \in Locals /\ \A q \in Requests \ {r} : req'[q] = req[q]
      /\ req'[r].at = "call" /\ req'[r].entry = e
      /\ req'[r].attempt = req[r].attempt /\ req'[r].retire = req[r].retire
  BY ONLY <1>1, <1>2, <1>4, r \in Requests, ZenonT(30) DEF Locals
<1>7. Live' = Live \cup {e} /\ made' \in Nat /\ made <= made' /\ made' <= made + 1
      /\ (mapped[i] # None => made' = made)
  BY <1>1, <1>2, <1>4 DEF Live
<1>8. /\ r \in Inside' /\ r \notin First' /\ (r \in Second' <=> req[r].attempt = 1)
      /\ r \in Using(e)' /\ \A x : x # e => r \notin Using(x)'
  BY <1>1, <1>6, Places
<1>9. Moves(r)
  <2>1. LocatedAt(r)' /\ ExecutedAt(r)'
    BY <1>1, <1>6, <1>7 DEF LocatedAt, ExecutedAt
  <2>2. /\ executed \in [Requests -> 0 .. 2] /\ outcome \in [Requests -> Endings \cup {None}]
        /\ active \in Int
    BY <1>1, CountTypes DEF AsyncTypeOK, Endings
  <2>3. QED
    BY <1>3, <1>6, <1>8, <2>1, <2>2 DEF Moves, One
<1>10. /\ users[e] \in Nat /\ users' \in [Entries -> Int] /\ users'[e] = users[e] + 1
       /\ \A x \in Entries \ {e} : users'[x] = users[x] /\ users[x] \in Int
  BY <1>1, <1>2, <1>4, CountTypes DEF AsyncTypeOK
<1>11. EntriesTyped'
  BY <1>1, <1>2, <1>4, <1>10 DEF EntriesTyped, AsyncTypeOK
<1>12. Created'
  <2>1. ASSUME NEW x \in Live' PROVE of'[x] \in Instances
    BY <1>1, <1>2, <1>4, <1>7, <2>1 DEF Created, AsyncTypeOK
  <2>2. ASSUME NEW j \in Instances, mapped'[j] # None
        PROVE  mapped'[j] \in Live' /\ of'[mapped'[j]] = j
    <3>1. CASE j = i
      BY <1>1, <1>2, <1>4, <1>7, <3>1 DEF AsyncTypeOK
    <3>2. CASE j # i
      <4>1. mapped'[j] = mapped[j] /\ mapped[j] \in Live /\ of[mapped[j]] = j
        BY <1>1, <1>2, <2>2, <3>2 DEF AsyncTypeOK, Created
      <4>2. mapped[j] # e
        BY <1>4, <3>2, <4>1
      <4>3. QED
        BY <1>1, <1>2, <1>7, <4>1, <4>2 DEF AsyncTypeOK
    <3>3. QED
      BY <3>1, <3>2
  <2>3. QED
    BY <2>1, <2>2 DEF Created
<1>13. Owned'
  <2>1. ASSUME NEW x \in Entries \ {e} PROVE Kept(x)' <=> Kept(x)
    <3>1. users'[x] = users[x] /\ of'[x] = of[x]
      BY <1>1, <1>2, <1>10 DEF AsyncTypeOK
    <3>2. ASSUME NEW j \in Instances PROVE mapped'[j] = x <=> mapped[j] = x
      <4>1. x # None
        BY Bounds
      <4>2. mapped'[j] = IF j = i THEN e ELSE mapped[j]
        BY <1>1, <1>2 DEF AsyncTypeOK
      <4>3. mapped[i] = None \/ mapped[i] = e
        BY <1>4
      <4>4. QED
        BY <4>1, <4>2, <4>3
    <3>3. QED
      BY <3>1, <3>2 DEF Kept
  <2>2. Kept(e)'
    BY <1>10 DEF Kept
  <2>3. \A q \in Requests : e \notin req'[q].retire
    BY <1>5, <1>6
  <2>4. OwnedAt(e)'
    <3>1. closes'[e] = 0 /\ task'[e] = "none" /\ e \notin doomed' /\ e \notin lost'
      BY <1>2, <1>5 DEF ending
    <3>2. QED
      BY <2>2, <2>3, <3>1 DEF OwnedAt
  <2>5. \A x \in Entries \ {e} :
              /\ closes'[x] = closes[x] /\ task'[x] = task[x]
              /\ Kept(x)' <=> Kept(x)
              /\ x \in Live' <=> x \in Live
              /\ x \in req'[r].retire <=> x \in req[r].retire
    BY <1>2, <1>6, <1>7, <2>1
  <2>6. UNCHANGED <<doomed, lost>>
    BY DEF ending
  <2>7. QED
    BY <1>1, <1>4, <1>6, <2>4, <2>5, <2>6, OwnedExcept
<1>14. \A x \in Entries : users'[x] + One(r \in Using(x)) = users[x] + One(r \in Using(x)')
  <2>1. ASSUME NEW x \in Entries
        PROVE users'[x] + One(r \in Using(x)) = users[x] + One(r \in Using(x)')
    <3>1. CASE x = e
      BY <1>3, <1>8, <1>10, <3>1 DEF One
    <3>2. CASE x # e
      BY <1>3, <1>8, <1>10, <3>2 DEF One
    <3>3. QED
      BY <3>1, <3>2
  <2>2. QED
    BY <2>1
<1>15. made' + One(r \in First') + One(r \in Second') <= made + One(r \in First) + One(r \in Second)
  BY <1>1, <1>3, <1>7, <1>8 DEF One
<1>16. QED
  BY <1>3, <1>7, <1>9, <1>11, <1>12, <1>13, <1>14, <1>15, RequestIInv

\* A request leaves its entry: if it is the last one and the entry is out of the map,
\* it starts to close it.
LEMMA ReleaseIInv ==
    ASSUME IInv, NEW r \in Requests, req[r].at = "call",
           NEW result \in Endings, ReleaseEntry(r, result),
           executed' \in [Requests -> 0 .. 2],
           \A q \in Requests \ {r} : executed'[q] = executed[q],
           executed'[r] <= 1, result = "ok" => executed'[r] = 1,
           result \in {"unavailable", "notfound"} => executed'[r] = 0,
           session' \in [Entries -> {"none", "listed", "reaped"}],
           UNCHANGED <<runtime, made, of, ready, ending, cleanup, tended, lost>>
    PROVE  IInv'
<1>0. PICK e : e = req[r].entry
  OBVIOUS
<1>1. /\ AsyncTypeOK /\ req \in Locals /\ LocatedAt(r) /\ ExecutedAt(r) /\ Created /\ Owned
  <2>1. AsyncTypeOK /\ Located /\ Executed /\ Created /\ Owned
    BY DEF IInv
  <2>2. QED
    BY <2>1, Places DEF Located, Executed
<1>2. /\ users' = [users EXCEPT ![e] = @ - 1]
      /\ mapped' = IF req[r].attempt = 1 /\ result = "notfound" THEN Unmap(e) ELSE mapped
      /\ IF Released(e)
         THEN /\ StartClosing(e)
              /\ req' = [req EXCEPT ![r].at = "retire", ![r].result = result]
              /\ UNCHANGED <<outcome, active>>
         ELSE After(r, result) /\ NoClosing
  BY <1>0 DEF ReleaseEntry
<1>3. /\ r \in Inside /\ r \in Using(e) /\ (r \in Second <=> req[r].attempt = 1)
      /\ \A x : x # e => r \notin Using(x)
  BY <1>0, <1>1, Places
<1>4. e \in Live /\ e \in Entries /\ of[e] \in Instances /\ req[r].retire = {}
  <2>1. e \in Live /\ e \in Entries \cup {None} /\ req[r].retire = {}
    BY <1>0, <1>1 DEF LocatedAt, Locals
  <2>2. e # None
    BY <2>1, Bounds DEF Live, IInv, AsyncTypeOK
  <2>3. QED
    BY <1>1, <2>1, <2>2 DEF Created
<1>5. /\ users[e] \in Nat /\ users[e] > 0
      /\ users' \in [Entries -> Int] /\ users'[e] = users[e] - 1
      /\ \A x \in Entries \ {e} : users'[x] = users[x] /\ users[x] \in Int
  <2>1. users[e] = Cardinality(Using(e)) /\ Using(e) # {}
    BY <1>3, <1>4 DEF IInv, Counted
  <2>2. users[e] > 0
    BY <2>1, CountTypes
  <2>3. QED
    BY <1>1, <1>2, <1>4, <2>2, CountTypes DEF AsyncTypeOK
<1>6. /\ closes[e] = 0 /\ task[e] = "none" /\ e \notin doomed /\ e \notin lost
      /\ \A q \in Requests : e \notin req[q].retire
  <2>1. OwnedAt(e) /\ Kept(e) /\ closes[e] \in 0 .. 1
    BY <1>1, <1>4, <1>5 DEF Owned, Kept, AsyncTypeOK
  <2>2. QED
    BY <2>1 DEF OwnedAt, HeldBy
<1>7. /\ Moves(r) /\ req'[r].retire = {} /\ r \notin First' /\ \A x : r \notin Using(x)'
      /\ r \in Second' => r \in Second
  <2>1. CASE ~Released(e)
    BY <1>2, <1>3, <2>1, AfterMoves
  <2>2. CASE Released(e)
    <3>1. /\ req' = [req EXCEPT ![r].at = "retire", ![r].result = result]
          /\ UNCHANGED <<outcome, active>>
      BY <1>2, <2>2
    <3>2. /\ req' \in Locals /\ \A q \in Requests \ {r} : req'[q] = req[q]
          /\ req'[r].at = "retire" /\ req'[r].result = result
          /\ req'[r].entry = req[r].entry
          /\ req'[r].attempt = req[r].attempt /\ req'[r].retire = req[r].retire
      BY ONLY <1>1, <3>1, r \in Requests, result \in Endings DEF Locals
    <3>3. LocatedAt(r)' /\ ExecutedAt(r)'
      <4>1. LocatedAt(r)'
        BY <1>0, <1>4, <3>2 DEF LocatedAt, Live
      <4>2. outcome[r] = None /\ None \notin Results
        BY <1>1, TransportAssumption DEF ExecutedAt
      <4>3. ExecutedAt(r)'
        BY <3>1, <3>2, <4>2 DEF ExecutedAt, Results
      <4>4. QED
        BY <4>1, <4>3
    <3>4. /\ r \in Inside' /\ r \notin First' /\ (r \in Second' <=> req[r].attempt = 1)
          /\ \A x : r \notin Using(x)'
      BY <1>1, <3>2, Places
    <3>5. outcome \in [Requests -> Endings \cup {None}] /\ active \in Int
      BY <1>1, CountTypes DEF AsyncTypeOK, Endings
    <3>6. Moves(r)
      BY <1>3, <3>1, <3>2, <3>3, <3>4, <3>5 DEF Moves, One
    <3>7. QED
      BY <1>3, <1>4, <3>2, <3>4, <3>6
  <2>3. QED
    BY <2>1, <2>2
<1>8. /\ mapped' \in [Instances -> Entries \cup {None}]
      /\ \A j \in Instances : mapped'[j] = mapped[j] \/ (mapped[j] = e /\ mapped'[j] = None)
  BY <1>1, <1>2 DEF AsyncTypeOK, Unmap
<1>9. /\ closes' \in [Entries -> 0 .. 1] /\ task' \in [Entries -> {"none", "running", "over"}]
      /\ \A x \in Entries \ {e} : closes'[x] = closes[x] /\ task'[x] = task[x]
      /\ Released(e) => closes'[e] = 1 /\ task'[e] = "running"
      /\ ~Released(e) => closes'[e] = 0 /\ task'[e] = "none"
  <2>1. closes \in [Entries -> 0 .. 1] /\ task \in [Entries -> {"none", "running", "over"}]
    BY <1>1 DEF AsyncTypeOK
  <2>2. CASE Released(e)
    <3>1. closes' = [closes EXCEPT ![e] = @ + 1] /\ task' = [task EXCEPT ![e] = "running"]
      BY <1>2, <2>2 DEF StartClosing
    <3>2. QED
      BY <1>4, <1>6, <2>1, <2>2, <3>1
  <2>3. CASE ~Released(e)
    BY <1>2, <1>6, <2>1, <2>3 DEF NoClosing
  <2>4. QED
    BY <2>2, <2>3
<1>10. EntriesTyped'
  BY <1>1, <1>5, <1>8, <1>9 DEF EntriesTyped, AsyncTypeOK
<1>11. Created'
  BY <1>1, <1>8 DEF Created, Live
<1>12. Owned'
  <2>1. ASSUME NEW x \in Entries \ {e} PROVE Kept(x)' <=> Kept(x)
    <3>1. x # None
      BY Bounds
    <3>2. \A j \in Instances : mapped'[j] = x <=> mapped[j] = x
      BY <1>8, <3>1
    <3>3. users'[x] = users[x] /\ of' = of
      BY <1>5
    <3>4. QED
      BY <3>2, <3>3 DEF Kept
  <2>2. Kept(e)' <=> ~Released(e)
    <3>1. of'[e] \in Instances /\ users'[e] \in Nat
      BY <1>4, <1>5
    <3>2. QED
      BY <1>4, <3>1 DEF Kept, Released
  <2>3. \A q \in Requests : e \notin req'[q].retire
    BY <1>6, <1>7 DEF Moves
  <2>4. /\ OwnedAt(e)'
    <3>1. e \notin doomed' /\ e \notin lost' /\ e \in Live'
      BY <1>4, <1>6 DEF ending, Live
    <3>2. QED
      BY <1>9, <2>2, <2>3, <3>1 DEF OwnedAt
  <2>5. \A x \in Entries \ {e} :
              /\ closes'[x] = closes[x] /\ task'[x] = task[x]
              /\ Kept(x)' <=> Kept(x)
              /\ x \in Live' <=> x \in Live
              /\ x \in req'[r].retire <=> x \in req[r].retire
    BY <1>4, <1>7, <1>9, <2>1 DEF Live
  <2>6. UNCHANGED <<doomed, lost>> /\ \A q \in Requests \ {r} : req'[q] = req[q]
    BY <1>7 DEF ending, Moves
  <2>7. QED
    BY <1>1, <1>4, <2>4, <2>5, <2>6, OwnedExcept
<1>13. \A x \in Entries : users'[x] + One(r \in Using(x)) = users[x] + One(r \in Using(x)')
  <2>1. ASSUME NEW x \in Entries
        PROVE users'[x] + One(r \in Using(x)) = users[x] + One(r \in Using(x)')
    <3>1. CASE x = e
      BY <1>3, <1>5, <1>7, <3>1 DEF One
    <3>2. CASE x # e
      BY <1>3, <1>5, <1>7, <3>2 DEF One
    <3>3. QED
      BY <3>1, <3>2
  <2>2. QED
    BY <2>1
<1>14. QED
  BY <1>3, <1>7, <1>10, <1>11, <1>12, <1>13, NoneMade, RequestIInv

\* The inner call returns, raises, or is cancelled.
LEMMA CallIInv == ASSUME IInv, NEW r \in Requests, CallEnds(r) \/ CancelCall(r) PROVE IInv'
<1>1. /\ AsyncTypeOK /\ req[r].at = "call" /\ executed[r] = 0
      /\ executed \in [Requests -> 0 .. 2]
      /\ session \in [Entries -> {"none", "listed", "reaped"}]
      /\ req[r].entry \in Entries \cup {None}
  BY DEF CallEnds, CancelCall, At, IInv, AsyncTypeOK, Executed, ExecutedAt
<1>2. CASE CallEnds(r)
  <2>1. PICK result \in Results, ran \in 0 .. 1 :
          /\ result = "unavailable" => ran = 0
          /\ result = "notfound" => ran = 0
          /\ result = "ok" => ran = 1
          /\ executed' = [executed EXCEPT ![r] = @ + ran]
          /\ session' = IF result = "notfound" THEN [session EXCEPT ![req[r].entry] = "reaped"]
                        ELSE session
          /\ ReleaseEntry(r, result)
    BY <1>2 DEF CallEnds
  <2>2. /\ executed' \in [Requests -> 0 .. 2] /\ executed'[r] = ran
        /\ \A q \in Requests \ {r} : executed'[q] = executed[q]
    BY <1>1, <2>1
  <2>3. session' \in [Entries -> {"none", "listed", "reaped"}]
    BY <1>1, <2>1
  <2>4. UNCHANGED <<runtime, made, of, ready, ending, cleanup, tended, lost>>
    BY <1>2 DEF CallEnds
  <2>5. result \in Endings
    BY DEF Endings
  <2>6. QED
    BY <1>1, <2>1, <2>2, <2>3, <2>4, <2>5, ReleaseIInv
<1>3. CASE CancelCall(r)
  <2>1. PICK ran \in 0 .. 1 : executed' = [executed EXCEPT ![r] = @ + ran]
    BY <1>3 DEF CancelCall
  <2>2. /\ executed' \in [Requests -> 0 .. 2] /\ executed'[r] = ran
        /\ \A q \in Requests \ {r} : executed'[q] = executed[q]
    BY <1>1, <2>1
  <2>3. /\ ReleaseEntry(r, "cancelled") /\ session' = session
        /\ UNCHANGED <<runtime, made, of, ready, ending, cleanup, tended, lost>>
    BY <1>3 DEF CancelCall
  <2>4. "cancelled" \in Endings
    BY DEF Endings
  <2>5. QED
    BY <1>1, <2>2, <2>3, <2>4, ReleaseIInv
<1>4. QED
  BY <1>2, <1>3

\* What a request that prunes writes into its own variables.
PruneWrites(r, i, e, rest) ==
    [req EXCEPT ![r].at = "prune", ![r].instance = i, ![r].entry = e, ![r].retire = rest]

\* It writes these four, and they have their types.
LEMMA PruneLocals ==
    ASSUME NEW r \in Requests, NEW i \in Instances, NEW e \in Entries,
           NEW rest \in SUBSET Entries, req \in Locals, req' = PruneWrites(r, i, e, rest)
    PROVE  /\ req' \in Locals /\ \A q \in Requests \ {r} : req'[q] = req[q]
           /\ req'[r].at = "prune" /\ req'[r].instance = i /\ req'[r].entry = e
           /\ req'[r].attempt = req[r].attempt /\ req'[r].retire = rest
<1> USE DEF PruneWrites
<1>1. PICK f : f = [req EXCEPT ![r].at = "prune"]
  OBVIOUS
<1>2. PICK g : g = [f EXCEPT ![r].instance = i]
  OBVIOUS
<1>3. PICK h : h = [g EXCEPT ![r].entry = e]
  OBVIOUS
<1>4. f \in Locals
  BY ONLY <1>1, req \in Locals DEF Locals
<1>5. g \in Locals
  BY ONLY <1>2, <1>4, i \in Instances DEF Locals
<1>6. h \in Locals
  BY ONLY <1>3, <1>5, e \in Entries DEF Locals
<1>7. req' = [h EXCEPT ![r].retire = rest]
  BY <1>1, <1>2, <1>3 DEF Locals
<1>8. req' \in Locals
  BY ONLY <1>6, <1>7, rest \in SUBSET Entries DEF Locals
<1>9. \A q \in Requests \ {r} : req'[q] = req[q]
  BY DEF Locals
<1>10. req'[r].at = "prune" /\ req'[r].attempt = req[r].attempt
  <2>1. req'[r].at = "prune"
    BY DEF Locals
  <2>2. req'[r].attempt = req[r].attempt
    BY DEF Locals
  <2>3. QED
    BY <2>1, <2>2
<1>11. req'[r].instance = i /\ req'[r].entry = e /\ req'[r].retire = rest
  <2>1. req'[r].instance = i
    BY DEF Locals
  <2>2. req'[r].entry = e
    BY DEF Locals
  <2>3. req'[r].retire = rest
    BY DEF Locals
  <2>4. QED
    BY <2>1, <2>2, <2>3
<1>12. QED
  BY <1>8, <1>9, <1>10, <1>11

\* A prune closes one of the entries it has and keeps the others to itself.
LEMMA PruneOneIInv ==
    ASSUME IInv, NEW r \in Requests, req[r].at \in {"ensure", "prune"},
           NEW i \in Instances, NEW old \in SUBSET Entries, PruneOne(r, i, old),
           mapped' \in [Instances -> Entries \cup {None}],
           \A j \in Instances : mapped'[j] \in {mapped[j], None},
           \A x \in Entries \ old : (Kept(x)' <=> Kept(x)) /\ x \notin req[r].retire,
           \A x \in old : /\ x \in Live /\ ~Kept(x)' /\ closes[x] = 0
                          /\ x \notin doomed /\ x \notin lost
                          /\ \A q \in Requests \ {r} : x \notin req[q].retire,
           UNCHANGED <<runtime, made, of, ready, users, session, executed, outcome, active,
                       ending, cleanup, tended, lost>>
    PROVE  IInv'
<1>1. /\ AsyncTypeOK /\ req \in Locals /\ LocatedAt(r) /\ ExecutedAt(r) /\ Created /\ Owned
  <2>1. AsyncTypeOK /\ Located /\ Executed /\ Created /\ Owned
    BY DEF IInv
  <2>2. QED
    BY <2>1, Places DEF Located, Executed
<1>2. PICK e \in old :
        /\ closes' = [closes EXCEPT ![e] = @ + 1] /\ task' = [task EXCEPT ![e] = "running"]
        /\ req' = [req EXCEPT ![r].at = "prune", ![r].instance = i, ![r].entry = e,
                              ![r].retire = old \ {e}]
  BY DEF PruneOne, StartClosing
<1>3. /\ e \in Entries /\ e \in Live /\ closes[e] = 0
  OBVIOUS
<1>4. /\ req' \in Locals /\ \A q \in Requests \ {r} : req'[q] = req[q]
      /\ req'[r].at = "prune" /\ req'[r].instance = i /\ req'[r].entry = e
      /\ req'[r].attempt = req[r].attempt /\ req'[r].retire = old \ {e}
  <2>1. PICK rest \in SUBSET Entries : rest = old \ {e}
    OBVIOUS
  <2>2. req' = PruneWrites(r, i, e, rest)
    BY <1>2, <2>1 DEF PruneWrites
  <2>3. req \in Locals /\ e \in Entries
    BY <1>1, <1>3
  <2>4. /\ req' \in Locals /\ \A q \in Requests \ {r} : req'[q] = req[q]
        /\ req'[r].at = "prune" /\ req'[r].instance = i /\ req'[r].entry = e
        /\ req'[r].attempt = req[r].attempt /\ req'[r].retire = rest
    BY <2>2, <2>3, PruneLocals
  <2>5. QED
    BY <2>1, <2>4
<1>5. /\ r \in Inside /\ r \in Inside' /\ (r \in First <=> r \in First')
      /\ (r \in Second <=> r \in Second') /\ \A x : r \notin Using(x) /\ r \notin Using(x)'
  BY <1>1, <1>4, Places
<1>6. Moves(r)
  <2>1. LocatedAt(r)' /\ ExecutedAt(r)'
    BY <1>1, <1>3, <1>4 DEF LocatedAt, ExecutedAt, Live
  <2>2. /\ executed \in [Requests -> 0 .. 2] /\ outcome \in [Requests -> Endings \cup {None}]
        /\ active \in Int
    BY <1>1, CountTypes DEF AsyncTypeOK, Endings
  <2>3. QED
    BY <1>4, <1>5, <2>1, <2>2 DEF Moves
<1>7. /\ closes' \in [Entries -> 0 .. 1] /\ task' \in [Entries -> {"none", "running", "over"}]
      /\ closes'[e] = 1 /\ task'[e] = "running"
      /\ \A x \in Entries \ {e} : closes'[x] = closes[x] /\ task'[x] = task[x]
  BY <1>1, <1>2, <1>3 DEF AsyncTypeOK
<1>8. EntriesTyped'
  BY <1>1, <1>7, CountTypes DEF EntriesTyped, AsyncTypeOK
<1>9. Created'
  BY <1>1 DEF Created, Live
<1>10. Owned'
  <2> SUFFICES ASSUME NEW x \in Entries PROVE OwnedAt(x)'
    BY DEF Owned
  <2>1. OwnedAt(x) /\ (x \in Live' <=> x \in Live) /\ doomed' = doomed /\ lost' = lost
    BY <1>1 DEF Owned, Live, ending
  <2>2. CASE x = e
    <3>1. /\ ~Kept(x)' /\ x \in Live /\ x \notin doomed /\ x \notin lost
          /\ \A q \in Requests \ {r} : x \notin req[q].retire
      BY <2>2
    <3>2. \A q \in Requests : x \notin req'[q].retire
      BY <1>4, <2>2, <3>1
    <3>3. QED
      BY <1>7, <2>1, <2>2, <3>1, <3>2 DEF OwnedAt
  <2>3. CASE x \in old \ {e}
    <3>1. /\ ~Kept(x)' /\ x \in Live /\ x \notin doomed /\ x \notin lost /\ closes[x] = 0
          /\ \A q \in Requests \ {r} : x \notin req[q].retire
      BY <2>3
    <3>2. \A q \in Requests : x \in req'[q].retire <=> q = r
      BY <1>4, <2>3, <3>1
    <3>3. closes'[x] = 0 /\ task'[x] = "none"
      BY <1>7, <2>1, <2>3, <3>1 DEF OwnedAt
    <3>4. HeldBy(r, x)'
      BY <2>1, <3>1, <3>2, <3>3 DEF HeldBy
    <3>5. QED
      BY <2>1, <3>1, <3>2, <3>3, <3>4 DEF OwnedAt
  <2>4. CASE x \notin old
    <3>1. /\ Kept(x)' <=> Kept(x)
          /\ closes'[x] = closes[x] /\ task'[x] = task[x]
      BY <1>7, <2>4
    <3>2. \A q \in Requests : x \in req'[q].retire <=> x \in req[q].retire
      BY <1>4, <2>4
    <3>3. QED
      BY <2>1, <3>1, <3>2 DEF OwnedAt, HeldBy
  <2>5. QED
    BY <2>2, <2>3, <2>4
<1>11. \A x \in Entries : users'[x] + One(r \in Using(x)) = users[x] + One(r \in Using(x)')
  BY <1>5
<1>12. QED
  BY <1>5, <1>6, <1>8, <1>9, <1>10, <1>11, NoneMade, RequestIInv

\* ensure_async() answers: the unused entries of the other instances leave the map.
LEMMA EnsureAnswersIInv == ASSUME IInv, NEW r \in Requests, EnsureAnswers(r) PROVE IInv'
<1>0. PICK old : old = Unused(service)
  OBVIOUS
<1>1. /\ AsyncTypeOK /\ LocatedAt(r) /\ Created /\ Owned /\ req[r].at = "ensure"
      /\ req[r].retire = {} /\ service \in Instances
      /\ UNCHANGED <<runtime, executed, outcome, active, ending, cleanup, tended, lost>>
  <2>1. AsyncTypeOK /\ Located /\ Created /\ Owned
    BY DEF IInv
  <2>2. req[r].at = "ensure" /\ service # None
    BY DEF EnsureAnswers, At
  <2>3. UNCHANGED <<runtime, executed, outcome, active, ending, cleanup, tended, lost>>
    BY DEF EnsureAnswers
  <2>4. QED
    BY <2>1, <2>2, <2>3 DEF Located, LocatedAt, AsyncTypeOK
<1>2. CASE old = {}
  <2>1. Checkout(r, service) /\ NoClosing
    BY <1>0, <1>2 DEF EnsureAnswers
  <2>2. QED
    BY <1>1, <2>1, CheckoutIInv
<1>3. CASE old # {}
  <2>1. /\ PruneOne(r, service, old)
        /\ mapped' = [j \in Instances |-> IF mapped[j] \in old THEN None ELSE mapped[j]]
        /\ UNCHANGED <<made, of, ready, users, session>>
    BY <1>0, <1>3 DEF EnsureAnswers
  <2>2. \A x \in old : \E j \in Instances : x = mapped[j] /\ x # None /\ users[x] = 0
    BY <1>0 DEF Unused
  <2>3. old \in SUBSET Entries
    BY <1>1, <2>2 DEF AsyncTypeOK
  <2>4. /\ mapped' \in [Instances -> Entries \cup {None}]
        /\ \A j \in Instances : mapped'[j] \in {mapped[j], None} /\ mapped'[j] \notin old
    BY <1>1, <2>1, <2>2 DEF AsyncTypeOK
  <2>5. ASSUME NEW x \in Entries \ old PROVE (Kept(x)' <=> Kept(x)) /\ x \notin req[r].retire
    <3>1. x # None
      BY Bounds
    <3>2. \A j \in Instances : mapped'[j] = x <=> mapped[j] = x
      BY <2>1, <3>1
    <3>3. QED
      BY <1>1, <2>1, <3>2 DEF Kept
  <2>6. ASSUME NEW x \in old
        PROVE  /\ x \in Live /\ ~Kept(x)' /\ closes[x] = 0 /\ x \notin doomed /\ x \notin lost
               /\ \A q \in Requests \ {r} : x \notin req[q].retire
    <3>1. PICK j \in Instances : x = mapped[j] /\ x # None /\ users[x] = 0
      BY <2>2
    <3>2. x \in Live /\ of[x] = j /\ x \in Entries
      BY <1>1, <2>3, <3>1 DEF Created
    <3>3. Kept(x) /\ OwnedAt(x) /\ closes[x] \in 0 .. 1
      BY <1>1, <3>1, <3>2 DEF Kept, Owned, AsyncTypeOK
    <3>4. ~Kept(x)'
      BY <2>1, <2>4, <3>1 DEF Kept
    <3>5. QED
      BY <3>2, <3>3, <3>4 DEF OwnedAt, HeldBy
  <2>7. QED
    BY <1>1, <2>1, <2>3, <2>4, <2>5, <2>6, PruneOneIInv
<1>4. QED
  BY <1>2, <1>3

\* The task of the entry before is over.
LEMMA PruneGoesOnIInv == ASSUME IInv, NEW r \in Requests, PruneGoesOn(r) PROVE IInv'
<1>0. PICK old : old = req[r].retire
  OBVIOUS
<1>1. /\ AsyncTypeOK /\ LocatedAt(r) /\ Owned /\ req[r].at = "prune" /\ req \in Locals
      /\ req[r].instance \in Instances /\ old \in SUBSET Entries
      /\ UNCHANGED <<runtime, executed, outcome, active, ending, cleanup, tended, lost>>
  <2>1. AsyncTypeOK /\ Located /\ Created /\ Owned
    BY DEF IInv
  <2>2. req[r].at = "prune" /\ req \in Locals
    BY <2>1, Places DEF PruneGoesOn, At
  <2>3. UNCHANGED <<runtime, executed, outcome, active, ending, cleanup, tended, lost>>
    BY DEF PruneGoesOn
  <2>4. QED
    BY <1>0, <2>1, <2>2, <2>3 DEF Located, LocatedAt, Locals
<1>2. CASE old = {}
  <2>1. Checkout(r, req[r].instance) /\ NoClosing
    BY <1>0, <1>2 DEF PruneGoesOn
  <2>2. QED
    BY <1>0, <1>1, <1>2, <2>1, CheckoutIInv
<1>3. CASE old # {}
  <2>1. /\ PruneOne(r, req[r].instance, old)
        /\ UNCHANGED <<mapped, made, of, ready, users, session>>
    BY <1>0, <1>3 DEF PruneGoesOn
  <2>2. ASSUME NEW x \in Entries PROVE Kept(x)' <=> Kept(x)
    BY <2>1 DEF Kept
  <2>3. ASSUME NEW x \in old
        PROVE  /\ x \in Live /\ ~Kept(x) /\ closes[x] = 0 /\ x \notin doomed /\ x \notin lost
               /\ \A q \in Requests \ {r} : x \notin req[q].retire
    <3>1. HeldBy(r, x)
      BY <1>0, <1>1 DEF Owned, OwnedAt
    <3>2. QED
      BY <3>1 DEF HeldBy
  <2>4. ASSUME NEW x \in Entries \ old PROVE (Kept(x)' <=> Kept(x)) /\ x \notin req[r].retire
    BY <1>0, <2>2
  <2>5. ASSUME NEW x \in old
        PROVE  /\ x \in Live /\ ~Kept(x)' /\ closes[x] = 0 /\ x \notin doomed /\ x \notin lost
               /\ \A q \in Requests \ {r} : x \notin req[q].retire
    BY <1>1, <2>2, <2>3
  <2>6. /\ mapped' \in [Instances -> Entries \cup {None}]
        /\ \A j \in Instances : mapped'[j] \in {mapped[j], None}
    BY <1>1, <2>1 DEF AsyncTypeOK
  <2>7. req[r].at \in {"ensure", "prune"}
    BY <1>1
  <2>8. QED
    BY <1>1, <2>1, <2>4, <2>5, <2>6, <2>7, PruneOneIInv
<1>4. QED
  BY <1>2, <1>3

-----------------------------------------------------------------------------
(* Steps of the runtime, of the tasks and of aclose().                     *)

\* What does not move requests, entries or users leaves the requests' part as it is.
LEMMA RequestsStay ==
    ASSUME Counted, Located, Executed,
           UNCHANGED <<req, active, users, made, executed, outcome>>
    PROVE  Counted' /\ Located' /\ Executed'
<1>1. /\ Inside' = Inside /\ First' = First /\ Second' = Second
      /\ \A e : Using(e)' = Using(e)
  BY DEF Inside, First, Second, Using
<1>2. Counted'
  BY <1>1 DEF Counted
<1>3. Located'
  BY DEF Located, LocatedAt, Live
<1>4. Executed'
  BY DEF Executed, ExecutedAt
<1>5. QED
  BY <1>2, <1>3, <1>4

\* Nor who owns which entry on the steps of the runtime and of the callers.
LEMMA OwnersStay ==
    ASSUME Created, Owned,
           UNCHANGED <<made, mapped, of, users, closes, req, doomed, task, lost>>
    PROVE  Created' /\ Owned'
<1>1. Created'
  BY DEF Created, Live
<1>2. \A e : Kept(e)' <=> Kept(e)
  BY DEF Kept
<1>3. Live' = Live
  BY DEF Live
<1>4. Owned'
  BY <1>2, <1>3 DEF Owned, OwnedAt, HeldBy
<1>5. QED
  BY <1>1, <1>4

\* The runtime replaces instances.
LEMMA RuntimeIInv == ASSUME IInv, RuntimeStep, UNCHANGED tasks PROVE IInv'
<1>1. /\ UNCHANGED <<mapped, made, of, ready, users, closes, session, calls, ending, tasks>>
      /\ IInv
  BY DEF RuntimeStep, entries
<1>2. AsyncTypeOK'
  <2>1. /\ issued \in 0 .. MaxInstances /\ issued' <= MaxInstances /\ AsyncTypeOK
        /\ MaxInstances \in Nat /\ Runtime!Next
    BY TransportAssumption DEF RuntimeStep, IInv, AsyncTypeOK
  <2>2. /\ issued' \in 0 .. MaxInstances /\ service' \in Instances \cup {None}
    BY <2>1, TransportAssumption DEF Runtime!Next, Runtime!Publish, Runtime!Burn,
       Runtime!Withdraw, Runtime!Close, Instances, AsyncTypeOK
  <2>3. closed' \in BOOLEAN
    <3>1. CASE Runtime!Close
      <4>1. closed' = TRUE /\ closed' \in BOOLEAN
        BY <3>1 DEF Runtime!Close
      <4>2. QED
        BY <4>1
    <3>2. CASE Runtime!Publish \/ Runtime!Burn \/ Runtime!Withdraw
      BY <2>1, <3>2 DEF Runtime!Publish, Runtime!Burn, Runtime!Withdraw, AsyncTypeOK
    <3>3. QED
      BY <2>1, <3>1, <3>2 DEF Runtime!Next
  <2>4. QED
    BY <1>1, <2>1, <2>2, <2>3 DEF AsyncTypeOK, calls, ending, tasks
<1>3. Counted' /\ Located' /\ Executed'
  BY <1>1, RequestsStay DEF IInv, calls
<1>4. Created' /\ Owned'
  BY <1>1, OwnersStay DEF IInv, calls, ending, tasks
<1>5. Ending'
  BY <1>1 DEF IInv, Ending, calls, ending, tasks
<1>6. QED
  BY <1>2, <1>3, <1>4, <1>5 DEF IInv

\* The entries that were made are among those the types know.
LEMMA LiveEntries == AsyncTypeOK => \A e \in Live : e \in Entries /\ closes[e] \in 0 .. 1
<1> SUFFICES ASSUME AsyncTypeOK, NEW e \in Live PROVE e \in Entries /\ closes[e] \in 0 .. 1
  OBVIOUS
<1>1. made \in Nat /\ made <= 2 * Cardinality(Requests) + 1
  BY Bounds DEF AsyncTypeOK
<1>2. e \in Nat /\ 1 <= e /\ e <= made
  BY <1>1 DEF Live
<1>3. e \in Entries
  BY ONLY <1>1, <1>2, Bounds, CountTypes
<1>4. QED
  BY <1>3 DEF AsyncTypeOK

\* A task that closes an entry ends.
LEMMA TaskEndsIInv == ASSUME IInv, NEW e \in Live, TaskEnds(e) PROVE IInv'
<1>1. /\ AsyncTypeOK /\ Created /\ Owned /\ Ending /\ Counted /\ Located /\ Executed
      /\ task[e] = "running" /\ task' = [task EXCEPT ![e] = "over"]
      /\ UNCHANGED <<runtime, mapped, made, of, ready, users, closes, session, calls, ending,
                     cleanup, tended, lost>>
  BY DEF IInv, TaskEnds
<1>2. e \in Entries
  BY <1>1, LiveEntries
<1>3. /\ task' \in [Entries -> {"none", "running", "over"}]
      /\ task'[e] = "over" /\ \A x \in Entries \ {e} : task'[x] = task[x]
  BY <1>1, <1>2 DEF AsyncTypeOK
<1>4. AsyncTypeOK'
  BY <1>1, <1>3 DEF AsyncTypeOK, runtime, calls, ending
<1>5. Counted' /\ Located' /\ Executed'
  BY <1>1, RequestsStay DEF calls
<1>6. Created'
  BY <1>1 DEF Created, Live
<1>7. Owned'
  <2>1. ASSUME NEW x \in Entries PROVE OwnedAt(x)'
    <3>1. /\ OwnedAt(x) /\ (Kept(x)' <=> Kept(x)) /\ Live' = Live
          /\ closes' = closes /\ doomed' = doomed /\ lost' = lost /\ req' = req
      BY <1>1 DEF Owned, Kept, Live, calls, ending
    <3>2. task'[x] = "none" <=> task[x] = "none"
      BY <1>1, <1>3
    <3>3. QED
      BY <3>1, <3>2 DEF OwnedAt, HeldBy
  <2>2. QED
    BY <2>1 DEF Owned
<1>8. Ending'
  <2>1. \A x \in Entries : task'[x] = "running" => task[x] = "running"
    BY <1>3
  <2>2. QED
    BY <1>1, <2>1 DEF Ending, calls, ending
<1>9. QED
  BY <1>4, <1>5, <1>6, <1>7, <1>8 DEF IInv

\* aclose() is called, returns, or is cancelled while it waits; or the cleanup starts.
LEMMA AcloseIInv ==
    ASSUME IInv,
           \/ \E k \in Closers : Aclose(k) \/ AcloseReturns(k) \/ AcloseCancelled(k)
           \/ CleanupStarts
    PROVE  IInv'
<1>1. /\ UNCHANGED <<runtime, entries, calls, done, doomed, released, task, tended, lost>>
      /\ AsyncTypeOK /\ Created /\ Owned /\ Ending /\ Counted /\ Located /\ Executed
  BY DEF IInv, Aclose, AcloseReturns, AcloseCancelled, CleanupStarts, tasks
<1>2. /\ closer' \in [Closers -> {"idle", "waiting", "over", "cancelled"}]
      /\ cleanup' \in {"none", "created", "polling", "closing", "over"}
      /\ closing' \in BOOLEAN /\ (closing => closing')
      /\ cleanup' = cleanup
         \/ /\ cleanup \in {"none", "created"} /\ cleanup' \in {"created", "polling"}
            /\ cleanup' = "polling" => closing'
      /\ \A k \in Closers : closer'[k] = "over" => cleanup' = "over"
  <2>1. CASE \E k \in Closers : Aclose(k) \/ AcloseReturns(k) \/ AcloseCancelled(k)
    <3>1. PICK k \in Closers : Aclose(k) \/ AcloseReturns(k) \/ AcloseCancelled(k)
      BY <2>1
    <3>2. closing' = closing
      BY <3>1 DEF Aclose, AcloseReturns, AcloseCancelled
    <3>3. QED
      BY <1>1, <3>1, <3>2 DEF Aclose, AcloseReturns, AcloseCancelled, AsyncTypeOK, Ending, tasks
  <2>2. CASE CleanupStarts
    <3>1. /\ cleanup = "created" /\ cleanup' = "polling" /\ closer' = closer
      BY <2>2 DEF CleanupStarts
    <3>2. closing' = TRUE /\ closing' \in BOOLEAN
      BY <2>2 DEF CleanupStarts
    <3>3. QED
      BY <1>1, <3>1, <3>2 DEF AsyncTypeOK, Ending
  <2>3. QED
    BY <2>1, <2>2
<1>3. AsyncTypeOK'
  BY <1>1, <1>2 DEF AsyncTypeOK, runtime, entries, calls
<1>4. Counted' /\ Located' /\ Executed'
  BY <1>1, RequestsStay DEF entries, calls
<1>5. Created' /\ Owned'
  BY <1>1, OwnersStay DEF entries, calls
<1>6. Ending'
  BY <1>1, <1>2 DEF Ending, entries, calls
<1>7. QED
  BY <1>3, <1>4, <1>5, <1>6 DEF IInv

\* Nobody is inside: nobody uses an entry, and nobody holds one.
LEMMA NobodyInside ==
    ASSUME IInv, active = 0
    PROVE  /\ \A r \in Requests : req[r].at \in {"idle", "done"} /\ req[r].retire = {}
           /\ \A e \in Entries : users[e] = 0
<1>1. \A r \in Requests : req[r].at \in {"idle", "done"}
  BY CountTypes DEF IInv, Counted, Inside
<1>2. \A r \in Requests : req[r].retire = {}
  BY <1>1 DEF IInv, Located, LocatedAt
<1>3. ASSUME NEW e \in Entries PROVE users[e] = 0
  <2>1. Using(e) = {}
    BY <1>1 DEF Using
  <2>2. QED
    BY <2>1, CountTypes DEF IInv, Counted
<1>4. QED
  BY <1>1, <1>2, <1>3

\* The cleanup takes all that is mapped: nobody uses or retires any of it.
LEMMA CleanupTakesIInv == ASSUME IInv, CleanupTakes PROVE IInv'
<1>1. /\ AsyncTypeOK /\ Created /\ Owned /\ Ending /\ Counted /\ Located /\ Executed
      /\ cleanup = "polling" /\ active = 0 /\ cleanup' = "closing"
      /\ mapped' = [i \in Instances |-> None]
      /\ UNCHANGED <<runtime, made, of, ready, users, closes, session, calls,
                     closing, done, closer, released, task, tended, lost>>
  BY DEF IInv, CleanupTakes
<1>2. /\ \A r \in Requests : req[r].at \in {"idle", "done"} /\ req[r].retire = {}
      /\ \A e \in Entries : users[e] = 0
  BY <1>1, NobodyInside
<1>3. doomed = {}
  BY <1>1 DEF Ending
<1>4. doomed' \subseteq Entries /\ \A e \in Entries : e \in doomed' <=> Kept(e)
  <2>1. doomed' = {mapped[i] : i \in {j \in Instances : mapped[j] # None}}
    BY DEF CleanupTakes
  <2>2. \A i \in Instances : mapped[i] # None => of[mapped[i]] = i
    BY <1>1 DEF Created
  <2>3. \A e \in Entries : Kept(e) <=> \E i \in Instances : of[e] = i /\ mapped[i] = e
    BY <1>2 DEF Kept
  <2>4. QED
    BY <1>1, <2>1, <2>2, <2>3, Bounds DEF AsyncTypeOK
<1>5. AsyncTypeOK'
  BY <1>1, <1>4 DEF AsyncTypeOK, runtime, calls
<1>6. Counted' /\ Located' /\ Executed'
  BY <1>1, RequestsStay DEF calls
<1>7. Created'
  BY <1>1 DEF Created, Live
<1>8. Owned'
  <2>1. ASSUME NEW e \in Entries PROVE OwnedAt(e)'
    <3>1. OwnedAt(e) /\ Live' = Live
      BY <1>1 DEF Owned, Live
    <3>2. ~Kept(e)'
      BY <1>1, <1>2, Bounds DEF Kept
    <3>3. /\ \A r \in Requests : e \notin req[r].retire /\ e \notin req'[r].retire
          /\ e \notin doomed
      BY <1>1, <1>2, <1>3 DEF calls
    <3>4. e \in doomed' <=> Kept(e)
      BY <1>4
    <3>5. Kept(e) => e \in Live /\ closes[e] = 0 /\ e \notin lost
      <4>1. closes[e] \in 0 .. 1
        BY <1>1 DEF AsyncTypeOK
      <4>2. QED
        BY <3>1, <4>1, KeptIsLive DEF OwnedAt
    <3>6. QED
      BY <1>1, <3>1, <3>2, <3>3, <3>4, <3>5 DEF OwnedAt
  <2>2. QED
    BY <2>1 DEF Owned
<1>9. Ending'
  BY <1>1 DEF Ending, calls
<1>10. QED
  BY <1>5, <1>6, <1>7, <1>8, <1>9 DEF IInv

\* It closes them one by one.
LEMMA CleanupClosesIInv == ASSUME IInv, CleanupCloses PROVE IInv'
<1>1. PICK e \in doomed :
        /\ closes' = [closes EXCEPT ![e] = @ + 1] /\ task' = [task EXCEPT ![e] = "running"]
        /\ doomed' = doomed \ {e} /\ tended' = e
  BY DEF CleanupCloses, StartClosing
<1>2. /\ AsyncTypeOK /\ Created /\ Owned /\ Ending /\ Counted /\ Located /\ Executed
      /\ cleanup = "closing"
      /\ UNCHANGED <<runtime, mapped, made, of, ready, users, session, calls,
                     closing, done, closer, released, cleanup, lost>>
  BY DEF IInv, CleanupCloses
<1>3. e \in Entries /\ OwnedAt(e) /\ ~Kept(e) /\ closes[e] = 0 /\ e \in Live /\ e \notin lost
  <2>1. e \in Entries
    BY <1>2 DEF AsyncTypeOK
  <2>2. OwnedAt(e)
    BY <1>2, <2>1 DEF Owned
  <2>3. QED
    BY <2>1, <2>2 DEF OwnedAt
<1>4. /\ closes' \in [Entries -> 0 .. 1] /\ task' \in [Entries -> {"none", "running", "over"}]
      /\ closes'[e] = 1 /\ task'[e] = "running"
      /\ \A x \in Entries \ {e} : closes'[x] = closes[x] /\ task'[x] = task[x]
  BY <1>1, <1>2, <1>3 DEF AsyncTypeOK
<1>5. \A r \in Requests : req[r].retire = {} /\ req'[r].retire = {}
  <2>1. active = 0 /\ req' = req
    BY <1>2 DEF Ending, calls
  <2>2. QED
    BY <2>1, NobodyInside
<1>6. AsyncTypeOK'
  BY <1>1, <1>2, <1>3, <1>4 DEF AsyncTypeOK, runtime, calls
<1>7. Counted' /\ Located' /\ Executed'
  BY <1>2, RequestsStay DEF calls
<1>8. Created'
  BY <1>2 DEF Created, Live
<1>9. Owned'
  <2>1. ASSUME NEW x \in Entries PROVE OwnedAt(x)'
    <3>1. /\ OwnedAt(x) /\ (Kept(x)' <=> Kept(x)) /\ Live' = Live /\ lost' = lost
          /\ \A r \in Requests : x \notin req[r].retire /\ x \notin req'[r].retire
      BY <1>2, <1>5 DEF Owned, Kept, Live
    <3>2. CASE x = e
      <4>1. x \notin doomed'
        BY <1>1, <3>2
      <4>2. QED
        BY <1>3, <1>4, <3>1, <3>2, <4>1 DEF OwnedAt
    <3>3. CASE x # e
      <4>1. x \in doomed' <=> x \in doomed
        BY <1>1, <3>3
      <4>2. closes'[x] = closes[x] /\ task'[x] = task[x]
        BY <1>4, <3>3
      <4>3. QED
        BY <3>1, <4>1, <4>2 DEF OwnedAt
    <3>4. QED
      BY <3>2, <3>3
  <2>2. QED
    BY <2>1 DEF Owned
<1>10. Ending'
  BY <1>1, <1>2 DEF Ending, calls
<1>11. QED
  BY <1>6, <1>7, <1>8, <1>9, <1>10 DEF IInv

\* It ends when no task runs, those of cancelled requests included.
LEMMA CleanupEndsIInv == ASSUME IInv, CleanupEnds PROVE IInv'
<1>1. /\ AsyncTypeOK /\ Created /\ Owned /\ Ending /\ Counted /\ Located /\ Executed
      /\ cleanup = "closing" /\ doomed = {} /\ cleanup' = "over" /\ released' = released + 1
      /\ \A e \in Entries : task[e] # "running"
      /\ UNCHANGED <<runtime, entries, calls, closing, closer, doomed, task, tended, lost>>
  BY DEF IInv, CleanupEnds
<1>2. done' = TRUE /\ done' \in BOOLEAN
  BY DEF CleanupEnds
<1>3. released' = 1
  BY <1>1 DEF Ending
<1>4. AsyncTypeOK'
  BY <1>1, <1>2, <1>3 DEF AsyncTypeOK, runtime, entries, calls
<1>5. Counted' /\ Located' /\ Executed'
  BY <1>1, RequestsStay DEF entries, calls
<1>6. Created' /\ Owned'
  BY <1>1, OwnersStay DEF entries, calls
<1>7. Ending'
  BY <1>1, <1>3 DEF Ending, entries, calls
<1>8. QED
  BY <1>4, <1>5, <1>6, <1>7 DEF IInv

\* IInv is inductive.
LEMMA StepIInv == IInv /\ [AsyncNext]_asyncVars => IInv'
<1> SUFFICES ASSUME IInv, [AsyncNext]_asyncVars PROVE IInv'
  OBVIOUS
<1>1. CASE RuntimeStep /\ UNCHANGED tasks
  BY <1>1, RuntimeIInv
<1>2. CASE \E e \in Live : TaskEnds(e)
  BY <1>2, TaskEndsIInv
<1>3. ASSUME NEW r \in Requests, AsyncBegin(r) \/ AsyncRequestStep(r) \/ CancelCall(r) \/ Cancel(r)
      PROVE  IInv'
  BY <1>3, BeginIInv, EnsureAnswersIInv, EnsureFailsIInv, PruneGoesOnIInv, CallIInv,
     RetireEndsIInv, CancelIInv DEF AsyncRequestStep
<1>4. CASE \E k \in Closers : Aclose(k) \/ AcloseReturns(k) \/ AcloseCancelled(k)
  BY <1>4, AcloseIInv
<1>5. CASE CleanupStep
  BY <1>5, AcloseIInv, CleanupTakesIInv, CleanupClosesIInv, CleanupEndsIInv DEF CleanupStep
<1>6. CASE UNCHANGED asyncVars
  <2>1. UNCHANGED <<runtime, entries, calls, ending, tasks>>
    BY <1>6 DEF asyncVars, vars
  <2>2. AsyncTypeOK' /\ Ending'
    BY <2>1 DEF IInv, AsyncTypeOK, Ending, runtime, entries, calls, ending, tasks
  <2>3. Counted' /\ Located' /\ Executed'
    BY <2>1, RequestsStay DEF IInv, entries, calls
  <2>4. Created' /\ Owned'
    BY <2>1, OwnersStay DEF IInv, entries, calls, ending, tasks
  <2>5. QED
    BY <2>2, <2>3, <2>4 DEF IInv
<1>7. QED
  BY <1>1, <1>2, <1>3, <1>4, <1>5, <1>6 DEF AsyncNext

\* What IInv says of an entry, in the words of OwnedOrLost.
LEMMA OwnersAreOne == IInv => OwnedOrLost
<1> SUFFICES ASSUME IInv, NEW e \in Live
             PROVE  LET kept == mapped[of[e]] = e \/ users[e] > 0
                        given == Cardinality(Takers(e)) + closes[e]
                                 + (IF e \in lost THEN 1 ELSE 0)
                    IN given = (IF kept THEN 0 ELSE 1)
  BY DEF OwnedOrLost
<1>1. e \in Entries /\ closes[e] \in 0 .. 1 /\ OwnedAt(e)
  BY LiveEntries DEF IInv, Owned
<1>2. Kept(e) <=> mapped[of[e]] = e \/ users[e] > 0
  BY <1>1 DEF IInv, Created, Kept
<1>3. CASE Kept(e) \/ closes[e] # 0 \/ e \in lost
  <2>1. e \notin doomed /\ \A r \in Requests : e \notin req[r].retire
    BY <1>1, <1>3 DEF OwnedAt, HeldBy
  <2>2. Takers(e) = {}
    BY <2>1 DEF Takers
  <2>3. closes[e] + (IF e \in lost THEN 1 ELSE 0) = IF Kept(e) THEN 0 ELSE 1
    BY <1>1, <1>3 DEF OwnedAt
  <2>4. Cardinality(Takers(e)) = 0
    BY <2>2, FS_EmptySet
  <2>5. QED
    BY <1>1, <1>2, <2>3, <2>4
<1>4. CASE ~Kept(e) /\ closes[e] = 0 /\ e \notin lost
  <2>1. \E t : Takers(e) = {t}
    <3>1. CASE e \in doomed
      <4>1. \A r \in Requests : e \notin req[r].retire
        BY <1>1, <3>1 DEF OwnedAt, HeldBy
      <4>2. Takers(e) = {"close"}
        BY <3>1, <4>1 DEF Takers
      <4>3. QED
        BY <4>2
    <3>2. CASE e \notin doomed
      <4>1. PICK r \in Requests : e \in req[r].retire
        BY <1>1, <1>4, <3>2 DEF OwnedAt
      <4>2. \A q \in Requests : e \in req[q].retire => q = r
        BY <1>1, <4>1 DEF OwnedAt, HeldBy
      <4>3. Takers(e) = {r}
        BY <3>2, <4>1, <4>2 DEF Takers
      <4>4. QED
        BY <4>3
    <3>3. QED
      BY <3>1, <3>2
  <2>2. Cardinality(Takers(e)) = 1
    BY <2>1, FS_Singleton
  <2>3. QED
    BY <1>2, <1>4, <2>2
<1>5. QED
  BY <1>3, <1>4

-----------------------------------------------------------------------------
\* The invariant holds in every reachable state.
THEOREM Invariance == AsyncSpec => []IInv
<1>1. QED
  BY InitIInv, StepIInv, PTL DEF AsyncSpec

\* The transport keeps its types: no entry is closed twice, no runtime released twice,
\* and no request is the cause of more than two entries.
THEOREM TypeCorrectness == AsyncSpec => []AsyncTypeOK
<1>1. IInv => AsyncTypeOK
  BY DEF IInv
<1>2. QED
  BY <1>1, Invariance, PTL

\* A request that is retried on another instance runs at most once, cancelled or not.
THEOREM RetryIsSafe == AsyncSpec => []RunsAtMostOnce
<1>1. IInv => RunsAtMostOnce
  BY DEF IInv, Executed, ExecutedAt, RunsAtMostOnce
<1>2. QED
  BY <1>1, Invariance, PTL

\* What handle_async_request reports of the target is true.
THEOREM ReportsAreHonest == AsyncSpec => []OutcomeIsHonest
<1>1. IInv => OutcomeIsHonest
  BY DEF IInv, Executed, ExecutedAt, OutcomeIsHonest
<1>2. QED
  BY <1>1, Invariance, PTL

\* Wherever requests are cancelled, an entry has one owner who closes it once, or it
\* was in the hands of a cancelled prune.
THEOREM EntriesAreOwnedOrLost == AsyncSpec => []OwnedOrLost
<1>1. QED
  BY Invariance, OwnersAreOne, PTL

\* As long as no cancelled prune has taken any entry with it, every entry has one owner,
\* as in the synchronous transport: there is no other way to lose one.
THEOREM OnlyCancelledPrunesLose == AsyncSpec => [](lost = {} => OneOwner)
<1>1. ASSUME IInv, lost = {} PROVE OneOwner
  <2>1. ASSUME NEW e \in Live
        PROVE  LET kept == mapped[of[e]] = e \/ users[e] > 0
               IN Cardinality(Takers(e)) + closes[e] = (IF kept THEN 0 ELSE 1)
    <3>1. closes[e] \in Int
      BY <1>1, LiveEntries DEF IInv
    <3>2. {r \in Requests : e \in req[r].retire} \in SUBSET Requests
      OBVIOUS
    <3>3. IsFiniteSet({r \in Requests : e \in req[r].retire})
      BY <3>2, CountRequests
    <3>4. IsFiniteSet({r \in Requests : e \in req[r].retire} \cup {"close"})
      BY <3>3, FS_AddElement
    <3>5. IsFiniteSet(Takers(e))
      BY <3>3, <3>4 DEF Takers
    <3>6. Cardinality(Takers(e)) \in Int
      BY <3>5, FS_CardinalityType
    <3>7. e \notin lost
      BY <1>1
    <3>8. OwnedOrLost
      BY <1>1, OwnersAreOne
    <3>9. QED
      BY <3>1, <3>6, <3>7, <3>8 DEF OwnedOrLost
  <2>2. QED
    BY <2>1 DEF OneOwner
<1>2. IInv => (lost = {} => OneOwner)
  BY <1>1
<1>3. QED
  BY <1>2, Invariance, PTL

\* When aclose() has returned to anybody nobody is inside, no task runs, the runtime was
\* released once, and every entry that was not lost is closed.
THEOREM CleaningUpIsComplete == AsyncSpec => []CleanupIsComplete
<1>1. ASSUME IInv PROVE CleanupIsComplete
  <2>1. SUFFICES ASSUME \E k \in Closers : closer[k] = "over"
                 PROVE  /\ released = 1 /\ active = 0
                        /\ \A r \in Requests : req[r].at \in {"idle", "done"}
                        /\ \A e \in Live : task[e] = "over" \/ e \in lost
    BY DEF CleanupIsComplete
  <2>2. /\ cleanup = "over" /\ released = 1 /\ active = 0
        /\ (\A i \in Instances : mapped[i] = None) /\ doomed = {}
        /\ \A e \in Entries : task[e] # "running"
    BY <1>1, <2>1 DEF IInv, Ending
  <2>3. /\ \A r \in Requests : req[r].at \in {"idle", "done"} /\ req[r].retire = {}
        /\ \A e \in Entries : users[e] = 0
    BY <1>1, <2>2, NobodyInside
  <2>4. ASSUME NEW e \in Live, e \notin lost PROVE task[e] = "over"
    <3>1. /\ e \in Entries /\ OwnedAt(e) /\ closes[e] \in 0 .. 1
          /\ task[e] \in {"none", "running", "over"}
      BY <1>1, LiveEntries DEF IInv, Owned, AsyncTypeOK
    <3>2. ~Kept(e)
      BY <2>2, <2>3, <3>1, Bounds DEF Kept
    <3>3. closes[e] > 0
      BY <2>2, <2>3, <2>4, <3>1, <3>2 DEF OwnedAt
    <3>4. QED
      BY <2>2, <3>1, <3>3 DEF OwnedAt
  <2>5. QED
    BY <2>2, <2>3, <2>4
<1>2. QED
  BY <1>1, Invariance, PTL

-----------------------------------------------------------------------------
(* The abstract transport.  Its variables are functions of req, executed,  *)
(* outcome, closing and done, so only steps that move a request from place *)
(* to place, or ask the target, or begin or end the cleanup are seen of it. *)

\* closing and done say how far the cleanup is.
Phased ==
    /\ closing <=> cleanup \in {"polling", "closing", "over"}
    /\ done <=> cleanup = "over"

\* Where a request is, and that the others stay where they are.
LEMMA PlaceCases ==
    ASSUME NEW r \in Requests
    PROVE  /\ Place(r) = "before" <=> req[r].at = "idle"
           /\ Place(r) = "over" <=> req[r].at = "done"
           /\ Place(r) = "inside" <=> req[r].at \notin {"idle", "done"}
           /\ Place(r)' = "before" <=> req'[r].at = "idle"
           /\ Place(r)' = "over" <=> req'[r].at = "done"
           /\ Place(r)' = "inside" <=> req'[r].at \notin {"idle", "done"}
           /\ req'[r].at = req[r].at => Place(r)' = Place(r)
BY DEF Place, At

\* A step that leaves the requests in their places is not seen.
LEMMA ContractStays ==
    ASSUME \A q \in Requests : Place(q)' = Place(q),
           UNCHANGED <<executed, outcome, closing, done>>
    PROVE  UNCHANGED Contract!tvars
BY DEF Contract!tvars, Phase

\* A step of one request inside that leaves it there is not seen.
LEMMA InsideStays ==
    ASSUME NEW r \in Requests, req[r].at \notin {"idle", "done"},
           req'[r].at \notin {"idle", "done"}, \A q \in Requests \ {r} : req'[q] = req[q],
           UNCHANGED <<executed, outcome, closing, done>>
    PROVE  UNCHANGED Contract!tvars
<1>1. Place(r)' = Place(r)
  BY PlaceCases
<1>2. \A q \in Requests \ {r} : Place(q)' = Place(q)
  BY PlaceCases
<1>3. QED
  BY <1>1, <1>2, ContractStays

\* A request that begins enters an open transport, and is refused by any other.
LEMMA BeginContract ==
    ASSUME IInv, NEW r \in Requests, AsyncBegin(r) PROVE Contract!Next
<1>1. /\ req \in Locals /\ req[r].at = "idle" /\ UNCHANGED <<executed, closing, done>>
  BY Places DEF IInv, AsyncBegin, Begin, At, ending
<1>2. CASE closing \/ done
  <2>1. req' = [req EXCEPT ![r].at = "done"] /\ outcome' = [outcome EXCEPT ![r] = "unavailable"]
    BY <1>2 DEF AsyncBegin, Begin
  <2>2. req'[r].at = "done" /\ \A q \in Requests \ {r} : req'[q] = req[q]
    BY ONLY <1>1, <2>1, r \in Requests DEF Locals
  <2>3. /\ Place(r) = "before" /\ Place(r)' = "over"
        /\ \A q \in Requests \ {r} : Place(q)' = Place(q)
    BY <1>1, <2>2, PlaceCases
  <2>4. [q \in Requests |-> Place(q)]' = [[q \in Requests |-> Place(q)] EXCEPT ![r] = "over"]
    BY <2>3
  <2>5. Phase # "open" /\ Phase' = Phase
    BY <1>1, <1>2 DEF Phase
  <2>6. Contract!Refuse(r)
    BY <1>1, <2>1, <2>3, <2>4, <2>5 DEF Contract!Refuse
  <2>7. QED
    BY <2>6 DEF Contract!Next
<1>3. CASE ~(closing \/ done)
  <2>1. req' = [req EXCEPT ![r].at = "ensure"] /\ outcome' = outcome
    BY <1>3 DEF AsyncBegin, Begin
  <2>2. req'[r].at = "ensure" /\ \A q \in Requests \ {r} : req'[q] = req[q]
    BY ONLY <1>1, <2>1, r \in Requests DEF Locals
  <2>3. /\ Place(r) = "before" /\ Place(r)' = "inside"
        /\ \A q \in Requests \ {r} : Place(q)' = Place(q)
    BY <1>1, <2>2, PlaceCases
  <2>4. [q \in Requests |-> Place(q)]' = [[q \in Requests |-> Place(q)] EXCEPT ![r] = "inside"]
    BY <2>3
  <2>5. Phase = "open" /\ Phase' = Phase
    BY <1>1, <1>3 DEF Phase
  <2>6. Contract!Enter(r)
    BY <1>1, <2>1, <2>3, <2>4, <2>5 DEF Contract!Enter
  <2>7. QED
    BY <2>6 DEF Contract!Next
<1>4. QED
  BY <1>2, <1>3


\* A request that ends has its answer, and the answer is true.
LEMMA EndedContract ==
    ASSUME IInv, NEW r \in Requests, req[r].at \notin {"idle", "done"},
           NEW result \in Endings, Ended(r, result),
           NEW n \in {executed[r], 1}, executed' = [executed EXCEPT ![r] = n],
           result = "ok" => n = 1, result \in {"unavailable", "notfound"} => n = 0,
           UNCHANGED <<closing, done>>
    PROVE  Contract!Next
<1>1. req \in Locals
  BY Places DEF IInv
<1>2. req'[r].at = "done" /\ \A q \in Requests \ {r} : req'[q] = req[q]
  BY <1>1 DEF Ended, Locals
<1>3. /\ Place(r) = "inside" /\ Place(r)' = "over"
      /\ \A q \in Requests \ {r} : Place(q)' = Place(q)
  BY <1>2, PlaceCases
<1>4. [q \in Requests |-> Place(q)]' = [[q \in Requests |-> Place(q)] EXCEPT ![r] = "over"]
  BY <1>3
<1>5. PICK a : a = Raised(result)
  OBVIOUS
<1>6. a \in Contract!Answers /\ Contract!Truthful(a, n)
  BY <1>5 DEF Raised, Endings, Results, Contract!Answers, Contract!Truthful
<1>7. outcome' = [outcome EXCEPT ![r] = a]
  BY <1>5 DEF Ended
<1>8. Phase' = Phase
  BY DEF Phase
<1>9. Contract!Answer(r)
  BY <1>3, <1>4, <1>6, <1>7, <1>8 DEF Contract!Answer
<1>10. QED
  BY <1>9 DEF Contract!Next

\* An attempt is over: a second one is not seen, the end of the request is its answer.
LEMMA AfterContract ==
    ASSUME IInv, NEW r \in Requests, req[r].at \notin {"idle", "done"},
           NEW result \in Endings, After(r, result), executed[r] \in {0, 1},
           NEW n \in {executed[r], 1}, executed' = [executed EXCEPT ![r] = n],
           result = "ok" => n = 1, result \in {"unavailable", "notfound"} => n = 0,
           UNCHANGED <<closing, done>>
    PROVE  Contract!Next \/ UNCHANGED Contract!tvars
<1>1. CASE Retried(r, result)
  <2>1. /\ n = 0 /\ outcome' = outcome
        /\ req' = [req EXCEPT ![r] = [at |-> "ensure", attempt |-> 2, instance |-> None,
                                      entry |-> None, retire |-> {}, result |-> None]]
    BY <1>1 DEF After, Retried, Proceed
  <2>2. req \in Locals /\ executed \in [Requests -> 0 .. 2] /\ executed[r] = 0
    BY <2>1, Places DEF IInv, AsyncTypeOK
  <2>3. executed' = executed
    BY ONLY <2>1, <2>2, executed' = [executed EXCEPT ![r] = n]
  <2>4. req'[r].at = "ensure" /\ \A q \in Requests \ {r} : req'[q] = req[q]
    BY <2>1, <2>2 DEF Locals
  <2>5. QED
    BY <2>1, <2>3, <2>4, InsideStays
<1>2. CASE ~Retried(r, result)
  BY <1>2, EndedContract DEF After
<1>3. QED
  BY <1>1, <1>2

\* What goes on before the call is not seen; ensure_async() may end the request.
LEMMA EnsureContract ==
    ASSUME IInv, NEW r \in Requests, EnsureAnswers(r) \/ PruneGoesOn(r)
    PROVE  UNCHANGED Contract!tvars
<1>1. /\ req \in Locals /\ req[r].at \in {"ensure", "prune"}
      /\ UNCHANGED <<executed, outcome, closing, done>>
  BY Places DEF IInv, EnsureAnswers, PruneGoesOn, At, ending
<1>2. \/ \E e : req' = [req EXCEPT ![r].at = "call", ![r].instance = None, ![r].entry = e]
      \/ \E i, e, rest : req' = PruneWrites(r, i, e, rest)
  BY DEF EnsureAnswers, PruneGoesOn, Checkout, PruneOne, PruneWrites
<1>3. req'[r].at \in {"call", "prune"} /\ \A q \in Requests \ {r} : req'[q] = req[q]
  <2>1. ASSUME NEW e, req' = [req EXCEPT ![r].at = "call", ![r].instance = None, ![r].entry = e]
        PROVE  req'[r].at = "call" /\ \A q \in Requests \ {r} : req'[q] = req[q]
    BY ONLY <1>1, <2>1, r \in Requests DEF Locals
  <2>2. ASSUME NEW i, NEW e, NEW rest, req' = PruneWrites(r, i, e, rest)
        PROVE  req'[r].at = "prune" /\ \A q \in Requests \ {r} : req'[q] = req[q]
    <3>1. req'[r].at = "prune"
      BY ONLY <1>1, <2>2, r \in Requests DEF Locals, PruneWrites
    <3>2. \A q \in Requests \ {r} : req'[q] = req[q]
      BY ONLY <1>1, <2>2, r \in Requests DEF Locals, PruneWrites
    <3>3. QED
      BY <3>1, <3>2
  <2>3. QED
    BY <1>2, <2>1, <2>2
<1>4. QED
  BY <1>1, <1>3, InsideStays

\* The call asks the target or does not, and may be the end of the request.
LEMMA ReleaseContract ==
    ASSUME IInv, NEW r \in Requests, req[r].at = "call",
           NEW result \in Endings, ReleaseEntry(r, result),
           NEW ran \in 0 .. 1, executed' = [executed EXCEPT ![r] = @ + ran],
           result = "ok" => ran = 1, result \in {"unavailable", "notfound"} => ran = 0,
           UNCHANGED <<closing, done>>
    PROVE  Contract!Next \/ UNCHANGED Contract!tvars
<1>1. req \in Locals /\ executed \in [Requests -> 0 .. 2] /\ executed[r] = 0
  BY Places DEF IInv, AsyncTypeOK, Executed, ExecutedAt
<1>2. ran \in {executed[r], 1} /\ executed' = [executed EXCEPT ![r] = ran]
  <2>1. 0 + ran = ran /\ ran \in {0, 1}
    OBVIOUS
  <2>2. QED
    BY <1>1, <2>1
<1>3. \/ After(r, result)
      \/ /\ req' = [req EXCEPT ![r].at = "retire", ![r].result = result]
         /\ outcome' = outcome
  BY DEF ReleaseEntry
<1>4. CASE After(r, result)
  BY <1>1, <1>2, <1>4, AfterContract
<1>5. CASE /\ req' = [req EXCEPT ![r].at = "retire", ![r].result = result]
           /\ outcome' = outcome
  <2>1. req'[r].at = "retire" /\ \A q \in Requests \ {r} : req'[q] = req[q]
    BY ONLY <1>1, <1>5, r \in Requests DEF Locals
  <2>2. CASE ran = 0
    <3>1. executed' = executed
      BY ONLY <1>1, <1>2, <2>2
    <3>2. QED
      BY <1>5, <2>1, <3>1, InsideStays
  <2>3. CASE ran = 1
    <3>1. Place(r) = "inside" /\ \A q \in Requests : Place(q)' = Place(q)
      BY <2>1, PlaceCases
    <3>2. Phase' = Phase
      BY DEF Phase
    <3>3. Contract!Ask(r)
      BY <1>1, <1>2, <1>5, <2>3, <3>1, <3>2 DEF Contract!Ask
    <3>4. QED
      BY <3>3 DEF Contract!Next
  <2>4. QED
    BY <2>2, <2>3
<1>6. QED
  BY <1>3, <1>4, <1>5

\* The steps of a request inside, the cancelled ones among them.
LEMMA RequestContract ==
    ASSUME IInv, NEW r \in Requests, AsyncRequestStep(r) \/ CancelCall(r) \/ Cancel(r)
    PROVE  Contract!Next \/ UNCHANGED Contract!tvars
<1>1. ExecutedAt(r) /\ LocatedAt(r) /\ executed \in [Requests -> 0 .. 2]
  BY DEF IInv, Executed, Located, AsyncTypeOK
<1>2. CASE EnsureAnswers(r) \/ PruneGoesOn(r)
  BY <1>2, EnsureContract
<1>3. UNCHANGED <<closing, done>>
  BY DEF AsyncRequestStep, EnsureAnswers, EnsureFails, PruneGoesOn, CallEnds, RetireEnds,
     CancelCall, Cancel, ending
<1>4. executed[r] \in {0, 1} /\ (executed' = executed => executed' = [executed EXCEPT ![r] = executed[r]])
  BY <1>1 DEF ExecutedAt
<1>5. CASE EnsureFails(r)
  <2>1. req[r].at = "ensure" /\ executed[r] = 0 /\ executed' = executed
    BY <1>1, <1>5 DEF EnsureFails, At, ExecutedAt
  <2>2. PICK error \in {"unavailable", "error"} : Ended(r, error)
    BY <1>5 DEF EnsureFails
  <2>3. error \in Endings
    BY DEF Endings, Results
  <2>4. QED
    BY <1>3, <1>4, <2>1, <2>2, <2>3, EndedContract
<1>6. CASE CallEnds(r)
  <2>1. PICK result \in Results, ran \in 0 .. 1 :
          /\ result = "unavailable" => ran = 0
          /\ result = "notfound" => ran = 0
          /\ result = "ok" => ran = 1
          /\ executed' = [executed EXCEPT ![r] = @ + ran]
          /\ ReleaseEntry(r, result)
    BY <1>6 DEF CallEnds
  <2>2. req[r].at = "call" /\ result \in Endings
    BY <1>6 DEF CallEnds, At, Endings
  <2>3. QED
    BY <1>3, <2>1, <2>2, ReleaseContract
<1>7. CASE CancelCall(r)
  <2>1. PICK ran \in 0 .. 1 : executed' = [executed EXCEPT ![r] = @ + ran]
    BY <1>7 DEF CancelCall
  <2>2. req[r].at = "call" /\ ReleaseEntry(r, "cancelled") /\ "cancelled" \in Endings
    BY <1>7 DEF CancelCall, At, Endings
  <2>3. QED
    BY <1>3, <2>1, <2>2, ReleaseContract
<1>8. CASE RetireEnds(r)
  <2>1. req[r].at = "retire" /\ After(r, req[r].result) /\ executed' = executed
    BY <1>8 DEF RetireEnds, At
  <2>2. PICK result : result = req[r].result
    OBVIOUS
  <2>3. /\ result \in Endings
        /\ result = "ok" => executed[r] = 1
        /\ result \in {"unavailable", "notfound"} => executed[r] = 0
    BY <1>1, <2>1, <2>2 DEF LocatedAt, ExecutedAt
  <2>4. After(r, result)
    BY ONLY <2>1, <2>2
  <2>5. QED
    BY <1>3, <1>4, <2>1, <2>3, <2>4, AfterContract
<1>9. CASE Cancel(r)
  <2>1. req[r].at \notin {"idle", "done"} /\ Ended(r, "cancelled") /\ executed' = executed
    BY <1>9 DEF Cancel
  <2>2. "cancelled" \in Endings
    BY DEF Endings
  <2>3. QED
    BY <1>3, <1>4, <2>1, <2>2, EndedContract
<1>10. QED
  BY <1>2, <1>5, <1>6, <1>7, <1>8, <1>9 DEF AsyncRequestStep

\* The cleanup closes the door, and ends when nobody is behind it any more.
LEMMA CleanupContract ==
    ASSUME IInv, Phased, CleanupStep
    PROVE  Contract!Next \/ UNCHANGED Contract!tvars
<1>1. (\A q \in Requests : Place(q)' = Place(q)) /\ UNCHANGED <<executed, outcome>>
  <2>1. UNCHANGED <<req, executed, outcome>>
    BY DEF CleanupStep, CleanupStarts, CleanupTakes, CleanupCloses, CleanupEnds, calls
  <2>2. QED
    BY <2>1, PlaceCases
<1>2. CASE CleanupStarts
  <2>1. cleanup = "created" /\ closing' = TRUE /\ done' = done
    BY <1>2 DEF CleanupStarts
  <2>2. Phase = "open" /\ Phase' = "closing"
    BY <2>1 DEF Phase, Phased
  <2>3. Contract!StartClosing
    BY <1>1, <2>2 DEF Contract!StartClosing
  <2>4. QED
    BY <2>3 DEF Contract!Next
<1>3. CASE CleanupEnds
  <2>1. cleanup = "closing" /\ done' = TRUE
    BY <1>3 DEF CleanupEnds
  <2>2. Phase = "closing" /\ Phase' = "closed"
    BY <2>1 DEF Phase, Phased
  <2>3. \A q \in Requests : Place(q) # "inside"
    <3>1. active = 0
      BY <2>1 DEF IInv, Ending
    <3>2. QED
      BY <3>1, NobodyInside, PlaceCases
  <2>4. Contract!Close
    BY <1>1, <2>2, <2>3 DEF Contract!Close
  <2>5. QED
    BY <2>4 DEF Contract!Next
<1>4. CASE CleanupTakes \/ CleanupCloses
  <2>1. UNCHANGED <<closing, done>>
    BY <1>4 DEF CleanupTakes, CleanupCloses
  <2>2. QED
    BY <1>1, <2>1, ContractStays
<1>5. QED
  BY <1>2, <1>3, <1>4 DEF CleanupStep

\* What else changes closing, done or cleanup: only aclose(), which creates the task.
LEMMA PhasedStep == IInv /\ Phased /\ [AsyncNext]_asyncVars => Phased'
<1> SUFFICES ASSUME Phased, [AsyncNext]_asyncVars PROVE Phased'
  OBVIOUS
<1>1. ASSUME UNCHANGED <<closing, done, cleanup>> PROVE Phased'
  BY <1>1 DEF Phased
<1>2. CASE CleanupStarts
  <2>1. cleanup = "created" /\ cleanup' = "polling" /\ closing' = TRUE /\ done' = done
    BY <1>2 DEF CleanupStarts
  <2>2. QED
    BY <2>1 DEF Phased
<1>3. CASE CleanupEnds
  <2>1. cleanup = "closing" /\ cleanup' = "over" /\ done' = TRUE /\ closing' = closing
    BY <1>3 DEF CleanupEnds
  <2>2. QED
    BY <2>1 DEF Phased
<1>4. CASE CleanupTakes
  <2>1. cleanup = "polling" /\ cleanup' = "closing" /\ done' = done /\ closing' = closing
    BY <1>4 DEF CleanupTakes
  <2>2. QED
    BY <2>1 DEF Phased
<1>5. ASSUME NEW k \in Closers, Aclose(k) PROVE Phased'
  <2>1. done' = done /\ closing' = closing /\ cleanup' = (IF cleanup = "none" THEN "created" ELSE cleanup)
    BY <1>5 DEF Aclose
  <2>2. QED
    BY <2>1 DEF Phased
<1>6. CASE \/ RuntimeStep /\ UNCHANGED tasks
           \/ \E e \in Live : TaskEnds(e)
           \/ \E k \in Closers : AcloseReturns(k) \/ AcloseCancelled(k)
           \/ CleanupCloses \/ UNCHANGED asyncVars
  <2>1. UNCHANGED <<closing, done, cleanup>>
    BY <1>6 DEF RuntimeStep, TaskEnds, AcloseReturns, AcloseCancelled, CleanupCloses,
       asyncVars, vars, ending, tasks
  <2>2. QED
    BY <1>1, <2>1
<1>7. ASSUME NEW r \in Requests, AsyncBegin(r) \/ AsyncRequestStep(r) \/ CancelCall(r) \/ Cancel(r)
      PROVE  Phased'
  <2>1. UNCHANGED <<closing, done, cleanup>>
    BY <1>7 DEF AsyncBegin, Begin, AsyncRequestStep, EnsureAnswers, EnsureFails, PruneGoesOn,
       CallEnds, RetireEnds, CancelCall, Cancel, ending, tasks
  <2>2. QED
    BY <1>1, <2>1
<1>8. QED
  BY <1>2, <1>3, <1>4, <1>5, <1>6, <1>7 DEF AsyncNext, CleanupStep

\* The asynchronous transport keeps the same contract as the synchronous one, with
\* requests that are cancelled at any await and a cleanup that nobody may wait for.
THEOREM Refinement == AsyncSpec => KeepsContract
<1>1. AsyncInit => Contract!Init /\ Phased
  <2> SUFFICES ASSUME AsyncInit PROVE Contract!Init /\ Phased
    OBVIOUS
  <2>1. \A r \in Requests : Place(r) = "before"
    BY DEF AsyncInit, Place, At
  <2>2. Phase = "open" /\ Phased
    BY DEF AsyncInit, Phase, Phased
  <2>3. QED
    BY <2>1, <2>2 DEF AsyncInit, Contract!Init
<1>2. IInv /\ Phased /\ [AsyncNext]_asyncVars => [Contract!Next]_(Contract!tvars)
  <2> SUFFICES ASSUME IInv, Phased, [AsyncNext]_asyncVars
               PROVE  Contract!Next \/ UNCHANGED Contract!tvars
    OBVIOUS
  <2>1. ASSUME UNCHANGED <<req, executed, outcome, closing, done>>
        PROVE  UNCHANGED Contract!tvars
    BY <2>1, PlaceCases, ContractStays
  <2>2. CASE \/ RuntimeStep /\ UNCHANGED tasks
             \/ \E e \in Live : TaskEnds(e)
             \/ \E k \in Closers : Aclose(k) \/ AcloseReturns(k) \/ AcloseCancelled(k)
             \/ UNCHANGED asyncVars
    <3>1. UNCHANGED <<req, executed, outcome, closing, done>>
      BY <2>2 DEF RuntimeStep, TaskEnds, Aclose, AcloseReturns, AcloseCancelled,
         asyncVars, vars, calls, ending
    <3>2. QED
      BY <2>1, <3>1
  <2>3. ASSUME NEW r \in Requests, AsyncBegin(r) \/ AsyncRequestStep(r) \/ CancelCall(r) \/ Cancel(r)
        PROVE  Contract!Next \/ UNCHANGED Contract!tvars
    BY <2>3, BeginContract, RequestContract
  <2>4. CASE CleanupStep
    BY <2>4, CleanupContract
  <2>5. QED
    BY <2>2, <2>3, <2>4 DEF AsyncNext
<1>3. QED
  BY <1>1, <1>2, PhasedStep, Invariance, PTL DEF AsyncSpec, KeepsContract, Contract!Spec
=============================================================================
