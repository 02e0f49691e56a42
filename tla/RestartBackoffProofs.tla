------------------------ MODULE RestartBackoffProofs ------------------------
(***************************************************************************)
(* Theorems about RestartBackoff for every limit, window, cooldown and     *)
(* delay, and every uptime.                                                *)
(***************************************************************************)
EXTENDS RestartBackoff, SequenceTheorems, FiniteSetTheorems, TLAPS

\* Failures come in order, and the supervisor waits for nextRetry after the last.
Timed ==
    /\ \A i, j \in 1 .. Len(history) : i < j => history[i] < history[j]
    /\ history # <<>> => /\ nextRetry = history[Len(history)] + delay
                         /\ delay = Delay(Len(failures))
                         /\ failures # <<>>

Dropped == Len(history) - Len(failures)

\* The deque is the end of the history, cut where the window begins.
Cut ==
    /\ Dropped \in Nat
    /\ \A i \in 1 .. Len(failures) : failures[i] = history[Dropped + i]
    /\ \A i \in 1 .. Len(history) :
          i <= Dropped <=> history[Len(history)] - history[i] >= RestartWindow

\* From the RestartLimit-th failure of a window on they are a cooldown apart.
Spaced ==
    \A i, j \in 1 .. Len(history) :
        j - i + 1 >= RestartLimit /\ history[j] - history[i] < RestartWindow =>
            history[j] >= history[i + RestartLimit - 1] + Cooldown * (j - i + 1 - RestartLimit)

IInv ==
    /\ TypeOK
    /\ Timed
    /\ Cut
    /\ Spaced

-----------------------------------------------------------------------------
(* The operators.                                                          *)

\* A set of indices that has every index below each of its own is an initial segment.
LEMMA InitialSegment ==
  ASSUME NEW m \in Nat, NEW S \in SUBSET (1 .. m), \A i \in S : 1 .. i \subseteq S
  PROVE  /\ Cardinality(S) \in 0 .. m
         /\ \A i \in 1 .. m : i \in S <=> i <= Cardinality(S)
<1>1. IsFiniteSet(S) /\ Cardinality(S) \in Nat /\ Cardinality(S) <= m
  <2>1. IsFiniteSet(1 .. m) /\ Cardinality(1 .. m) = m
    BY FS_Interval
  <2>2. QED
    BY <2>1, FS_Subset, FS_CardinalityType
<1>2. ASSUME NEW i \in 1 .. m, i \in S PROVE i <= Cardinality(S)
  <2>1. Cardinality(1 .. i) = i
    BY FS_Interval
  <2>2. 1 .. i \in SUBSET S
    BY <1>2
  <2>3. QED
    BY <1>1, <2>1, <2>2, FS_Subset
<1>3. ASSUME NEW i \in 1 .. m, i \notin S PROVE ~(i <= Cardinality(S))
  <2>1. IsFiniteSet(1 .. (i - 1)) /\ Cardinality(1 .. (i - 1)) = i - 1
    BY FS_Interval
  <2>2. S \in SUBSET (1 .. (i - 1))
    <3>1. ASSUME NEW j \in S PROVE j <= i - 1
      <4>1. j \in 1 .. m /\ 1 .. j \subseteq S
        OBVIOUS
      <4>2. ~(i <= j)
        BY <1>3, <4>1
      <4>3. QED
        BY <4>1, <4>2
    <3>2. QED
      BY <3>1
  <2>3. Cardinality(S) <= i - 1
    BY <2>1, <2>2, FS_Subset
  <2>4. QED
    BY <1>1, <2>3
<1>4. QED
  BY <1>1, <1>2, <1>3

\* popleft() removes the longest prefix of times that have left the window.
LEMMA DropOldDrops ==
  ASSUME NEW times \in Seq(Nat), NEW t \in Nat
  PROVE  \E n \in 0 .. Len(times) :
            /\ DropOld(times, t) = SubSeq(times, n + 1, Len(times))
            /\ \A i \in 1 .. Len(times) :
                  i <= n <=> \A j \in 1 .. i : t - times[j] >= RestartWindow
<1> DEFINE Old(i) == \A j \in 1 .. i : t - times[j] >= RestartWindow
           S == {i \in DOMAIN times : Old(i)}
<1>1. Len(times) \in Nat /\ DOMAIN times = 1 .. Len(times)
  BY LenProperties
<1>2. S \in SUBSET (1 .. Len(times))
  BY <1>1
<1>3. \A i \in S : 1 .. i \subseteq S
  BY <1>1
<1> HIDE DEF Old
<1>4. /\ Cardinality(S) \in 0 .. Len(times)
      /\ \A i \in 1 .. Len(times) : i \in S <=> i <= Cardinality(S)
  BY <1>1, <1>2, <1>3, InitialSegment
<1>5. \A i \in 1 .. Len(times) : i <= Cardinality(S) <=> Old(i)
  BY <1>1, <1>4
<1>6. DropOld(times, t) = SubSeq(times, Cardinality(S) + 1, Len(times))
  BY DEF DropOld, Old
<1> HIDE DEF S
<1>7. QED
  BY <1>4, <1>5, <1>6 DEF Old

\* Every delay is a positive number, and no longer than the longest one.
LEMMA DelayType ==
  ASSUME NEW n \in Nat \ {0}
  PROVE  Delay(n) \in Nat \ {0} /\ Delay(n) <= Cooldown + LongestDelay
<1>1. CASE n >= RestartLimit
  BY <1>1, BackoffAssumption DEF Delay
<1>2. CASE n < RestartLimit
  <2>1. Doubled(n) \in Nat \ {0}
    BY <1>2, BackoffAssumption, DoublingAssumption
  <2>2. QED
    BY <1>2, <2>1, BackoffAssumption DEF Delay
<1>3. QED
  BY <1>1, <1>2, BackoffAssumption

-----------------------------------------------------------------------------
(* The inductive invariant.                                                *)

\* Before the first failure nothing is counted.
LEMMA InitIInv == Init => IInv
<1> SUFFICES ASSUME Init PROVE IInv
  OBVIOUS
<1>1. Len(failures) = 0 /\ Len(history) = 0
  BY EmptySeq DEF Init
<1>2. TypeOK
  BY EmptySeq, BackoffAssumption DEF Init, TypeOK
<1>3. Timed /\ Cut /\ Spaced
  BY <1>1 DEF Init, Timed, Cut, Dropped, Spaced
<1>4. QED
  BY <1>2, <1>3 DEF IInv

\* A failure keeps the invariant: it comes after all the others, the deque loses
\* exactly those that left the window, and the delay before it was the cooldown if
\* the deque had been full.
LEMMA FailIInv == IInv /\ Fail => IInv'
<1> SUFFICES ASSUME IInv, Fail PROVE IInv'
  OBVIOUS
<1>1. /\ nextRetry \in Nat /\ delay \in Nat
      /\ history \in Seq(0 .. Horizon) /\ failures \in Seq(0 .. Horizon)
      /\ history \in Seq(Nat) /\ failures \in Seq(Nat) /\ Horizon \in Nat
  BY BackoffAssumption, SeqMonotonic DEF IInv, TypeOK
<1>2. PICK now \in Nat : /\ nextRetry <= now /\ now <= Horizon /\ now \in 0 .. Horizon
                         /\ RecordFailure(now)
  <2>1. PICK uptime \in Uptimes : /\ nextRetry + uptime <= Horizon
                                  /\ RecordFailure(nextRetry + uptime)
    BY DEF Fail
  <2>2. /\ nextRetry + uptime \in 0 .. Horizon /\ nextRetry + uptime \in Nat
        /\ nextRetry <= nextRetry + uptime
    BY <1>1, <2>1, BackoffAssumption
  <2>3. QED
    BY <2>1, <2>2
<1>3. /\ Len(history) \in Nat /\ Len(failures) \in Nat
      /\ \A i \in 1 .. Len(history) : history[i] \in Nat
      /\ \A i \in 1 .. Len(failures) : failures[i] \in 0 .. Horizon
  BY <1>1, LenProperties, ElementOfSeq
<1>4. /\ history' \in Seq(0 .. Horizon) /\ history' # <<>>
      /\ Len(history') = Len(history) + 1
      /\ \A i \in 1 .. Len(history) : history'[i] = history[i]
      /\ history'[Len(history) + 1] = now
  <2>1. history' = Append(history, now)
    BY <1>2 DEF RecordFailure
  <2>2. history \in Seq(0 .. Horizon) /\ now \in 0 .. Horizon
    BY <1>1, <1>2
  <2>3. QED
    BY ONLY <2>1, <2>2, AppendProperties
<1>5. /\ Dropped \in Nat /\ Len(failures) = Len(history) - Dropped
      /\ \A i \in 1 .. Len(failures) : failures[i] = history[Dropped + i]
  BY <1>3 DEF IInv, Cut, Dropped
<1>6. history # <<>> => Len(history) \in Nat \ {0} /\ Len(failures) \in Nat \ {0}
  BY <1>1, EmptySeq DEF IInv, Timed
<1>7. history = <<>> => Len(history) = 0
  BY EmptySeq
<1>8. history # <<>> => /\ now >= history[Len(history)] + delay
                        /\ delay = Delay(Len(failures)) /\ delay \in Nat \ {0}
  BY <1>1, <1>2, <1>3, <1>6, DelayType DEF IInv, Timed
<1>9. \A i \in 1 .. Len(history) :
         history[i] <= history[Len(history)] /\ history[Len(history)] < now
  <2> SUFFICES ASSUME NEW i \in 1 .. Len(history)
               PROVE  history[i] <= history[Len(history)] /\ history[Len(history)] < now
    OBVIOUS
  <2>1. history # <<>> /\ Len(history) \in 1 .. Len(history)
    BY <1>3, <1>7
  <2>2. history[Len(history)] < now
    BY <1>3, <1>8, <2>1
  <2>3. i < Len(history) => history[i] < history[Len(history)]
    BY <2>1 DEF IInv, Timed
  <2>4. QED
    BY <1>3, <2>1, <2>2, <2>3
<1>10. PICK n \in 0 .. Len(failures) :
          /\ DropOld(failures, now) = SubSeq(failures, n + 1, Len(failures))
          /\ \A i \in 1 .. Len(failures) :
                i <= n <=> \A j \in 1 .. i : now - failures[j] >= RestartWindow
  BY <1>1, DropOldDrops
<1>11. /\ failures' \in Seq(0 .. Horizon) /\ failures' # <<>>
       /\ Len(failures') = Len(failures) - n + 1
       /\ \A i \in 1 .. Len(failures) - n : failures'[i] = failures[n + i]
       /\ failures'[Len(failures) - n + 1] = now
  <2> PICK rest : rest = SubSeq(failures, n + 1, Len(failures))
    OBVIOUS
  <2>1. /\ rest \in Seq(0 .. Horizon) /\ Len(rest) = Len(failures) - n
        /\ \A i \in 1 .. Len(failures) - n : rest[i] = failures[n + i]
    <3>1. \A i \in n + 1 .. Len(failures) : failures[i] \in 0 .. Horizon
      BY <1>3
    <3>2. /\ rest \in Seq(0 .. Horizon)
          /\ Len(rest) = IF n + 1 <= Len(failures) THEN Len(failures) - (n + 1) + 1 ELSE 0
          /\ \A i \in 1 .. Len(failures) - (n + 1) + 1 : rest[i] = failures[n + 1 + i - 1]
      BY <1>3, <3>1, SubSeqProperties
    <3>3. Len(rest) = Len(failures) - n
      BY <1>3, <3>2
    <3>4. \A i \in 1 .. Len(failures) - n : n + 1 + i - 1 = n + i
      BY <1>3
    <3>5. Len(failures) - (n + 1) + 1 = Len(failures) - n
      BY <1>3
    <3>6. QED
      BY <3>2, <3>3, <3>4, <3>5
  <2>2. failures' = Append(rest, now)
    BY <1>2, <1>10 DEF RecordFailure
  <2>3. /\ Append(rest, now) \in Seq(0 .. Horizon) /\ Append(rest, now) # <<>>
        /\ Len(Append(rest, now)) = Len(rest) + 1
        /\ \A i \in 1 .. Len(rest) : Append(rest, now)[i] = rest[i]
        /\ Append(rest, now)[Len(rest) + 1] = now
    <3>1. rest \in Seq(0 .. Horizon) /\ now \in 0 .. Horizon
      BY <1>2, <2>1
    <3>2. QED
      BY ONLY <3>1, AppendProperties
  <2>4. QED
    BY <2>1, <2>2, <2>3
<1>12. /\ delay' = Delay(Len(failures')) /\ nextRetry' = now + delay'
       /\ delay' \in Nat \ {0} /\ delay' <= Cooldown + LongestDelay
  <2>1. Len(failures') \in Nat \ {0}
    BY <1>3, <1>11
  <2>2. QED
    BY <1>2, <2>1, DelayType DEF RecordFailure
<1>13. TypeOK'
  <2>1. delay' \in 0 .. Cooldown + LongestDelay
    BY <1>12, BackoffAssumption
  <2>2. nextRetry' \in 0 .. Horizon + Cooldown + LongestDelay
    BY <1>1, <1>2, <1>12, BackoffAssumption, SMTT(30)
  <2>3. QED
    BY <1>4, <1>11, <2>1, <2>2 DEF TypeOK
<1>14. Timed'
  <2>1. ASSUME NEW i \in 1 .. Len(history'), NEW j \in 1 .. Len(history'), i < j
        PROVE  history'[i] < history'[j]
    <3>1. CASE j <= Len(history)
      BY <1>3, <1>4, <2>1, <3>1, SMTT(30) DEF IInv, Timed
    <3>2. CASE j = Len(history) + 1
      BY <1>3, <1>4, <1>9, <2>1, <3>2, SMTT(30)
    <3>3. QED
      BY <1>3, <1>4, <3>1, <3>2
  <2>2. nextRetry' = history'[Len(history')] + delay'
    BY <1>4, <1>12
  <2>3. QED
    BY <1>11, <1>12, <2>1, <2>2 DEF Timed
<1>15. Cut'
  <2>1. Dropped' = Dropped + n /\ Dropped' \in Nat
    BY <1>3, <1>4, <1>5, <1>11 DEF Dropped
  <2>2. ASSUME NEW i \in 1 .. Len(failures') PROVE failures'[i] = history'[Dropped' + i]
    <3>1. CASE i <= Len(failures) - n
      <4>1. failures'[i] = failures[n + i] /\ n + i \in 1 .. Len(failures)
        BY <1>3, <1>11, <3>1
      <4>2. failures[n + i] = history[Dropped + (n + i)]
        BY <1>5, <4>1
      <4>3. Dropped + (n + i) \in 1 .. Len(history) /\ Dropped' + i = Dropped + (n + i)
        BY <1>3, <1>5, <2>1, <4>1
      <4>4. QED
        BY <1>4, <4>1, <4>2, <4>3
    <3>2. CASE i = Len(failures) - n + 1
      <4>1. Dropped' + i = Len(history) + 1
        BY <1>3, <1>5, <2>1, <3>2
      <4>2. QED
        BY <1>4, <1>11, <3>2, <4>1
    <3>3. i <= Len(failures) - n \/ i = Len(failures) - n + 1
      <4>1. i \in 1 .. Len(failures) - n + 1 /\ Len(failures) - n \in Nat
        BY <1>3, <1>11
      <4>2. QED
        BY ONLY <4>1
    <3>4. QED
      BY <3>1, <3>2, <3>3
  <2>3. ASSUME NEW i \in 1 .. Len(history')
        PROVE  i <= Dropped' <=> history'[Len(history')] - history'[i] >= RestartWindow
    <3>1. CASE i = Len(history) + 1
      BY <1>3, <1>4, <1>5, <2>1, <3>1, BackoffAssumption
    <3>2. CASE i <= Dropped
      <4>1. i \in 1 .. Len(history) /\ i <= Dropped'
        BY <1>3, <1>5, <2>1, <3>2
      <4>2. history[Len(history)] - history[i] >= RestartWindow
        BY <3>2, <4>1 DEF IInv, Cut
      <4>3. Len(history) \in 1 .. Len(history)
        BY <1>3, <4>1
      <4>4. history[Len(history)] \in Nat /\ history[Len(history)] < now /\ history[i] \in Nat
        BY <1>3, <1>9, <4>3, <4>1
      <4>5. now - history[i] >= RestartWindow
        BY <4>2, <4>4, BackoffAssumption, SMTT(30)
      <4>6. QED
        BY <1>4, <4>1, <4>5
    <3>3. CASE i > Dropped /\ i <= Len(history)
      <4> PICK k : k = i - Dropped
        OBVIOUS
      <4>1. k \in 1 .. Len(failures) /\ i \in 1 .. Len(history) /\ i = Dropped + k
        BY <1>3, <1>5, <3>3
      <4>2. failures[k] = history[i] /\ k \in 1 .. k
        BY <1>5, <4>1
      <4>3. k <= n => now - history[i] >= RestartWindow
        BY <1>10, <4>1, <4>2
      <4>4. ASSUME now - history[i] >= RestartWindow, NEW j \in 1 .. k
            PROVE  now - failures[j] >= RestartWindow
        <5>1. Dropped + j \in 1 .. Len(history) /\ Dropped + j <= i /\ j \in 1 .. Len(failures)
          BY <1>3, <1>5, <4>1
        <5>2. failures[j] = history[Dropped + j]
          BY <1>5, <5>1
        <5>3. history[Dropped + j] <= history[i]
          BY <1>3, <4>1, <5>1 DEF IInv, Timed
        <5>4. history[i] \in Nat /\ history[Dropped + j] \in Nat
          BY <1>3, <4>1, <5>1
        <5>5. QED
          BY <4>4, <5>2, <5>3, <5>4, BackoffAssumption, SMTT(30)
      <4>5. k <= n <=> now - history[i] >= RestartWindow
        BY <1>10, <4>1, <4>3, <4>4
      <4>6. i <= Dropped' <=> k <= n
        BY <1>3, <1>5, <2>1, <4>1
      <4>7. QED
        BY <1>4, <4>1, <4>5, <4>6
    <3>4. QED
      BY <1>3, <1>4, <1>5, <3>1, <3>2, <3>3
  <2>4. QED
    BY <2>1, <2>2, <2>3 DEF Cut
<1>16. Spaced'
  <2> SUFFICES ASSUME NEW i \in 1 .. Len(history'), NEW j \in 1 .. Len(history'),
                      j - i + 1 >= RestartLimit,
                      history'[j] - history'[i] < RestartWindow
               PROVE  history'[j] >= history'[i + RestartLimit - 1]
                                       + Cooldown * (j - i + 1 - RestartLimit)
    BY DEF Spaced
  <2>1. RestartLimit \in Nat \ {0} /\ Cooldown \in Nat \ {0} /\ RestartWindow \in Nat \ {0}
    BY BackoffAssumption
  <2>2. i <= j /\ i + RestartLimit - 1 \in 1 .. j
    BY <1>3, <1>4, <2>1
  <2>3. CASE j <= Len(history)
    <3>1. i \in 1 .. Len(history) /\ j \in 1 .. Len(history)
          /\ i + RestartLimit - 1 \in 1 .. Len(history)
      BY <1>3, <1>4, <2>1, <2>2, <2>3
    <3>2. QED
      BY <1>4, <3>1 DEF IInv, Spaced
  <2>4. CASE i + RestartLimit - 1 = j
    <3>1. j - i + 1 - RestartLimit = 0 /\ Cooldown * 0 = 0
      BY <1>3, <1>4, <2>1, <2>4
    <3>2. history'[j] \in Nat
      <4>1. CASE j \in 1 .. Len(history)
        BY <1>3, <1>4, <4>1
      <4>2. CASE j = Len(history) + 1
        BY <1>4, <4>2
      <4>3. QED
        BY <1>3, <1>4, <4>1, <4>2
    <3>3. QED
      BY <2>4, <3>1, <3>2
  <2>5. CASE j = Len(history) + 1 /\ i + RestartLimit - 1 # j
    <3>0. PICK m : m = Len(history) - i + 1 - RestartLimit
      OBVIOUS
    <3>1. /\ m \in Nat /\ j - i + 1 - RestartLimit = m + 1
          /\ i \in 1 .. Len(history) /\ Len(history) \in 1 .. Len(history)
          /\ Len(history) - i + 1 >= RestartLimit
          /\ i + RestartLimit - 1 \in 1 .. Len(history)
      <4>1. Len(history') = Len(history) + 1 /\ i \in 1 .. Len(history) + 1 /\ Len(history) \in Nat
        BY <1>3, <1>4
      <4>2. QED
        BY <2>1, <2>2, <2>5, <3>0, <4>1
    <3>2. history[Len(history)] - history[i] < RestartWindow
      <4>1. now - history[i] < RestartWindow
        BY <1>4, <2>5, <3>1
      <4>2. QED
        BY <1>3, <1>9, <2>1, <3>1, <4>1, SMTT(30)
    <3>3. history[Len(history)] >= history[i + RestartLimit - 1] + Cooldown * m
      BY <3>0, <3>1, <3>2 DEF IInv, Spaced
    <3>4. i > Dropped
      <4>1. i <= Dropped <=> history[Len(history)] - history[i] >= RestartWindow
        BY <3>1 DEF IInv, Cut
      <4>2. history[Len(history)] \in Nat /\ history[i] \in Nat
        BY <1>3, <3>1
      <4>3. QED
        BY <1>5, <2>1, <3>1, <3>2, <4>1, <4>2
    <3>5. Len(failures) >= RestartLimit
      BY <1>3, <1>5, <2>1, <3>1, <3>4
    <3>6. now >= history[Len(history)] + Cooldown
      BY <1>7, <1>8, <1>3, <3>1, <3>5 DEF Delay
    <3>7. Cooldown * (m + 1) = Cooldown * m + Cooldown /\ Cooldown * m \in Nat
      BY <2>1, <3>1
    <3>8. history'[j] = now /\ history'[i + RestartLimit - 1] = history[i + RestartLimit - 1]
      BY <1>4, <2>5, <3>1
    <3>9. history[Len(history)] \in Nat /\ history[i + RestartLimit - 1] \in Nat
      BY <1>3, <3>1
    <3>10. now >= history[i + RestartLimit - 1] + Cooldown * (m + 1)
      <4>1. PICK c \in Nat : c = Cooldown * m /\ c + Cooldown = Cooldown * (m + 1)
        BY <3>7
      <4>2. history[Len(history)] >= history[i + RestartLimit - 1] + c
        BY <3>3, <4>1
      <4>3. now >= history[i + RestartLimit - 1] + c + Cooldown
        BY <2>1, <3>6, <3>9, <4>2, SMTT(30)
      <4>4. QED
        BY <2>1, <3>9, <4>1, <4>3
    <3>11. QED
      BY <3>1, <3>8, <3>10
  <2>6. QED
    BY <1>3, <1>4, <2>3, <2>4, <2>5
<1>17. QED
  BY <1>13, <1>14, <1>15, <1>16 DEF IInv

\* The inductive invariant holds: the deque is the window of the history, and the
\* failures that fill it are a cooldown apart.
THEOREM Invariance == Spec => []IInv
<1>1. IInv /\ [Next]_vars => IInv'
  <2>1. IInv /\ UNCHANGED vars => IInv'
    BY DEF vars, IInv, TypeOK, Timed, Cut, Dropped, Spaced
  <2>2. QED
    BY <2>1, FailIInv DEF Next
<1>2. QED
  BY <1>1, InitIInv, PTL DEF Spec

-----------------------------------------------------------------------------
(* The theorems.                                                           *)

\* The deque and the times keep their types and bounds.
THEOREM TypeCorrectness == Spec => []TypeOK
  BY Invariance, PTL DEF IInv

\* The deque holds exactly the failures of the window that ends with the latest.
THEOREM WindowIsKept == Spec => []WindowIsExact
<1>1. ASSUME IInv, history # <<>>
      PROVE  LET now == history[Len(history)]
                 recent == {i \in DOMAIN history : now - history[i] < RestartWindow}
             IN failures = SubSeq(history, Len(history) - Cardinality(recent) + 1, Len(history))
  <2> DEFINE recent == {i \in DOMAIN history :
                           history[Len(history)] - history[i] < RestartWindow}
  <2>1. /\ history \in Seq(0 .. Horizon) /\ failures \in Seq(0 .. Horizon) /\ Horizon \in Nat
        /\ RestartWindow \in Nat
    BY <1>1, BackoffAssumption DEF IInv, TypeOK
  <2>2. /\ Len(history) \in Nat /\ Len(failures) \in Nat /\ DOMAIN history = 1 .. Len(history)
        /\ \A i \in 1 .. Len(history) : history[i] \in 0 .. Horizon
    BY <2>1, LenProperties, ElementOfSeq
  <2>3. Dropped \in Nat /\ Len(failures) = Len(history) - Dropped
    BY <1>1, <2>2 DEF IInv, Cut, Dropped
  <2>4. recent = (Dropped + 1) .. Len(history)
    <3>1. ASSUME NEW i \in 1 .. Len(history) PROVE i \in recent <=> i > Dropped
      <4>1. i <= Dropped <=> history[Len(history)] - history[i] >= RestartWindow
        BY <1>1 DEF IInv, Cut
      <4>2. history[Len(history)] \in Nat /\ history[i] \in Nat
        BY <2>1, <2>2
      <4>3. QED
        BY <2>1, <2>2, <2>3, <4>1, <4>2
    <3>2. QED
      BY <2>2, <2>3, <3>1
  <2>5. Cardinality(recent) = Len(failures)
    <3>1. Dropped + 1 \in Int /\ Len(history) \in Int
      BY <2>2, <2>3
    <3>2. Cardinality((Dropped + 1) .. Len(history)) =
             IF Dropped + 1 > Len(history) THEN 0 ELSE Len(history) - (Dropped + 1) + 1
      BY <3>1, FS_Interval
    <3> HIDE DEF recent
    <3>3. QED
      BY <2>2, <2>3, <2>4, <3>2
  <2> HIDE DEF recent
  <2>6. /\ SubSeq(history, Dropped + 1, Len(history)) \in Seq(0 .. Horizon)
        /\ Len(SubSeq(history, Dropped + 1, Len(history))) = Len(failures)
        /\ \A i \in 1 .. Len(failures) :
              SubSeq(history, Dropped + 1, Len(history))[i] = failures[i]
    <3> PICK tail : tail = SubSeq(history, Dropped + 1, Len(history))
      OBVIOUS
    <3>1. \A i \in Dropped + 1 .. Len(history) : history[i] \in 0 .. Horizon
      BY <2>2, <2>3
    <3>2. /\ tail \in Seq(0 .. Horizon)
          /\ Len(tail) = IF Dropped + 1 <= Len(history) THEN Len(history) - (Dropped + 1) + 1
                         ELSE 0
          /\ \A i \in 1 .. Len(history) - (Dropped + 1) + 1 : tail[i] = history[Dropped + 1 + i - 1]
      BY <2>2, <2>3, <3>1, SubSeqProperties
    <3>3. Len(tail) = Len(failures) /\ Len(history) - (Dropped + 1) + 1 = Len(failures)
      <4>1. /\ Len(tail) = IF Dropped + 1 <= Len(history) THEN Len(history) - (Dropped + 1) + 1
                           ELSE 0
            /\ Len(history) \in Nat /\ Len(failures) \in Nat /\ Dropped \in Nat
            /\ Len(failures) = Len(history) - Dropped
        BY <2>2, <2>3, <3>2
      <4>2. QED
        BY ONLY <4>1
    <3>4. ASSUME NEW i \in 1 .. Len(failures) PROVE tail[i] = failures[i]
      <4>1. Dropped + 1 + i - 1 = Dropped + i
        BY <2>2, <2>3
      <4>2. QED
        BY <1>1, <3>2, <3>3, <4>1 DEF IInv, Cut
    <3>5. QED
      BY <3>2, <3>3, <3>4
  <2>7. failures = SubSeq(history, Dropped + 1, Len(history))
    BY <2>1, <2>6, SeqEqual
  <2>8. Len(history) - Cardinality(recent) + 1 = Dropped + 1
    BY <2>2, <2>3, <2>5
  <2>9. QED
    BY <2>7, <2>8 DEF recent
<1>2. IInv => WindowIsExact
  BY <1>1 DEF WindowIsExact
<1>3. QED
  BY <1>2, Invariance, PTL

\* However the attempts fail, no window sees more failures than the limit and those
\* the cooldowns within it let through.
THEOREM NoRestartStorm == Spec => []RateIsBounded
<1>1. ASSUME IInv, NEW i \in DOMAIN history
      PROVE  Cardinality({j \in DOMAIN history :
                 history[j] >= history[i] /\ history[j] < history[i] + RestartWindow})
               <= RestartLimit + (RestartWindow - 1) \div Cooldown
  <2> DEFINE J == {j \in DOMAIN history :
                      history[j] >= history[i] /\ history[j] < history[i] + RestartWindow}
             S == {k \in 1 .. Len(history) - i + 1 :
                      history[k + i - 1] < history[i] + RestartWindow}
  <2>1. /\ RestartLimit \in Nat \ {0} /\ Cooldown \in Nat \ {0} /\ RestartWindow \in Nat \ {0}
        /\ history \in Seq(0 .. Horizon) /\ Horizon \in Nat
    BY <1>1, BackoffAssumption DEF IInv, TypeOK
  <2>2. /\ Len(history) \in Nat /\ DOMAIN history = 1 .. Len(history) /\ i \in 1 .. Len(history)
        /\ \A j \in 1 .. Len(history) : history[j] \in 0 .. Horizon
    BY <1>1, <2>1, LenProperties, ElementOfSeq
  <2>3. \A j, k \in 1 .. Len(history) : j < k => history[j] < history[k]
    BY <1>1 DEF IInv, Timed
  <2>4. Len(history) - i + 1 \in Nat
    BY <2>2
  <2>5. ASSUME NEW k \in S PROVE 1 .. k \subseteq S
    <3> SUFFICES ASSUME NEW l \in 1 .. k PROVE l \in S
      OBVIOUS
    <3>1. /\ k + i - 1 \in 1 .. Len(history) /\ l + i - 1 \in 1 .. Len(history)
          /\ l \in 1 .. Len(history) - i + 1 /\ l <= k
      BY <2>2
    <3>2. history[l + i - 1] <= history[k + i - 1]
      <4>1. CASE l = k
        BY <2>2, <3>1, <4>1
      <4>2. CASE l < k
        <5>1. l + i - 1 < k + i - 1
          BY <2>2, <3>1, <4>2
        <5>2. history[l + i - 1] < history[k + i - 1]
          BY <2>3, <3>1, <5>1
        <5>3. QED
          BY <2>2, <3>1, <5>2
      <4>3. QED
        BY <3>1, <4>1, <4>2
    <3>3. history[k + i - 1] < history[i] + RestartWindow
      OBVIOUS
    <3>4. history[l + i - 1] < history[i] + RestartWindow
      <4>1. /\ history[l + i - 1] \in Nat /\ history[k + i - 1] \in Nat
            /\ history[i] + RestartWindow \in Nat
        BY <2>1, <2>2, <3>1, SMTT(30)
      <4>2. QED
        BY ONLY <3>2, <3>3, <4>1
    <3>5. QED
      BY <3>1, <3>4
  <2>6. S \in SUBSET (1 .. Len(history) - i + 1)
    OBVIOUS
  <2>7. /\ Cardinality(S) \in 0 .. Len(history) - i + 1
        /\ \A k \in 1 .. Len(history) - i + 1 : k \in S <=> k <= Cardinality(S)
    <3> HIDE DEF S
    <3>1. QED
      BY <2>4, <2>5, <2>6, InitialSegment
  <2>8. PICK n \in 0 .. Len(history) - i + 1 : n = Cardinality(S)
    BY <2>7
  <2>9. J = i .. (i + n - 1)
    <3>1. ASSUME NEW j \in 1 .. Len(history) PROVE j \in J <=> j >= i /\ j <= i + n - 1
      <4>1. j < i => history[j] < history[i]
        BY <2>2, <2>3
      <4>2. j < i => j \notin J
        BY <2>2, <4>1
      <4>3. ASSUME j >= i PROVE j \in J <=> j <= i + n - 1
        <5>1. PICK k : k = j - i + 1
          OBVIOUS
        <5>2. k \in 1 .. Len(history) - i + 1 /\ k + i - 1 = j
          BY <2>2, <4>3, <5>1
        <5>3. history[j] >= history[i]
          <6>1. CASE j = i
            BY <2>2, <6>1
          <6>2. CASE j > i
            BY <2>2, <2>3, <6>2
          <6>3. QED
            BY <2>2, <4>3, <6>1, <6>2
        <5>4. j \in J <=> k \in S
          BY <2>2, <5>2, <5>3
        <5>5. k \in S <=> k <= n
          BY <2>7, <2>8, <5>2
        <5>6. k <= n <=> j <= i + n - 1
          BY <2>2, <2>8, <5>2
        <5>7. QED
          BY <5>4, <5>5, <5>6
      <4>4. QED
        BY <2>2, <4>2, <4>3
    <3>2. J \subseteq 1 .. Len(history)
      BY <2>2
    <3> HIDE DEF J, S
    <3>3. i .. (i + n - 1) \subseteq 1 .. Len(history)
      BY <2>2, <2>8
    <3>4. ASSUME NEW j PROVE j \in J <=> j \in i .. (i + n - 1)
      <4>1. CASE j \in 1 .. Len(history)
        BY <2>2, <2>8, <3>1, <4>1
      <4>2. CASE j \notin 1 .. Len(history)
        BY <3>2, <3>3, <4>2
      <4>3. QED
        BY <4>1, <4>2
    <3>5. QED
      BY <3>4
  <2> HIDE DEF S
  <2>10. Cardinality(J) = n
    <3>1. i \in Int /\ i + n - 1 \in Int /\ n \in Nat
      BY <2>2, <2>8
    <3>2. Cardinality(i .. (i + n - 1)) = n
      BY <3>1, FS_Interval, SMTT(30)
    <3>3. QED
      BY <2>9, <3>2
  <2>11. n <= RestartLimit + (RestartWindow - 1) \div Cooldown
    <3> PICK q : q = (RestartWindow - 1) \div Cooldown
      OBVIOUS
    <3>1. q \in Nat /\ RestartWindow - 1 < Cooldown * (q + 1)
      BY <2>1, SMTT(30)
    <3>2. CASE n <= RestartLimit
      BY <2>1, <2>8, <3>1, <3>2
    <3>3. CASE n > RestartLimit
      <4>0. n \in Nat /\ n <= Len(history) - i + 1 /\ RestartLimit \in Nat /\ RestartLimit >= 1
        BY <2>1, <2>4, <2>8
      <4>1. PICK j : j = i + n - 1
        OBVIOUS
      <4>2. /\ j \in 1 .. Len(history) /\ j - i + 1 = n /\ j \in i .. (i + n - 1)
            /\ i + RestartLimit - 1 \in 1 .. Len(history) /\ i + RestartLimit - 1 >= i
            /\ n - RestartLimit \in Nat /\ n >= RestartLimit
        <5>1. Len(history) \in Nat /\ i \in 1 .. Len(history)
          BY <2>2
        <5>2. QED
          BY ONLY <3>3, <4>0, <4>1, <5>1, SMTT(30)
      <4>3. j \in J
        BY <2>9, <4>2
      <4>4. history[j] < history[i] + RestartWindow /\ history[j] \in Nat /\ history[i] \in Nat
        BY <2>2, <4>2, <4>3
      <4>5. history[j] >= history[i + RestartLimit - 1] + Cooldown * (n - RestartLimit)
        <5>1. j - i + 1 >= RestartLimit
          BY <4>2
        <5>2. history[j] - history[i] < RestartWindow
          BY <2>1, <4>4
        <5>3. history[j] >= history[i + RestartLimit - 1] + Cooldown * (j - i + 1 - RestartLimit)
          BY <1>1, <2>2, <4>2, <5>1, <5>2 DEF IInv, Spaced
        <5>4. j - i + 1 - RestartLimit = n - RestartLimit
          <6>1. i \in Nat /\ j \in Nat /\ n \in Nat /\ RestartLimit \in Nat /\ j - i + 1 = n
            BY <2>2, <4>0, <4>2
          <6>2. QED
            BY ONLY <6>1, SMTT(30)
        <5>5. QED
          BY <5>3, <5>4
      <4>6. history[i + RestartLimit - 1] >= history[i]
        <5>1. CASE i + RestartLimit - 1 = i
          BY <4>4, <5>1
        <5>2. CASE i + RestartLimit - 1 > i
          BY <2>2, <2>3, <4>2, <5>2
        <5>3. QED
          BY <2>1, <2>2, <4>2, <5>1, <5>2
      <4>7. PICK m \in Nat : m = n - RestartLimit
        BY <4>2
      <4>8. Cooldown * m \in Nat /\ Cooldown * (q + 1) \in Nat
        BY <2>1, <3>1, <4>7
      <4>9. Cooldown * m <= RestartWindow - 1
        <5>1. PICK c : c = Cooldown * m
          OBVIOUS
        <5>2. /\ history[j] >= history[i + RestartLimit - 1] + c /\ c \in Nat
              /\ history[i + RestartLimit - 1] \in Nat /\ RestartWindow \in Nat
          BY <2>1, <2>2, <4>2, <4>5, <4>7, <4>8, <5>1
        <5>3. c <= RestartWindow - 1
          BY ONLY <4>4, <4>6, <5>2
        <5>4. QED
          BY <5>1, <5>3
      <4>10. m >= q + 1 => Cooldown * m >= Cooldown * (q + 1)
        <5>1. ASSUME m >= q + 1 PROVE Cooldown * m >= Cooldown * (q + 1)
          <6>1. PICK d \in Nat : m = q + 1 + d
            <7>1. m - (q + 1) \in Nat /\ m = q + 1 + (m - (q + 1))
              BY <3>1, <4>7, <5>1
            <7>2. QED
              BY <7>1
          <6>2. Cooldown * (q + 1 + d) = Cooldown * (q + 1) + Cooldown * d /\ Cooldown * d \in Nat
            BY <2>1, <3>1
          <6>3. QED
            BY <4>8, <6>1, <6>2
        <5>2. QED
          BY <5>1
      <4>11. m < q + 1
        BY <2>1, <3>1, <4>7, <4>8, <4>9, <4>10, SMTT(30)
      <4>12. QED
        BY <2>1, <2>8, <3>1, <4>7, <4>11
    <3>4. QED
      BY <2>1, <2>8, <3>2, <3>3
  <2>12. QED
    BY <2>10, <2>11
<1>2. IInv => RateIsBounded
  BY <1>1 DEF RateIsBounded
<1>3. QED
  BY <1>2, Invariance, PTL
=============================================================================
