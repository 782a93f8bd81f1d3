------------------------ MODULE RequestBudget_proofs ------------------------
(***************************************************************************)
(* What the request budget promises for windows and limits of every size.  *)
(***************************************************************************)
EXTENDS RequestBudget, FiniteSetTheorems, TLAPS

\* Writes are numbered in the order of their times, and what has left the deque is an hour
\* old.
Ordered ==
    /\ \A i, j \in 1..Len(sent) : i <= j => sent[i] <= sent[j]
    /\ \A i \in 1..Len(sent) : sent[i] <= clock
    /\ \A i \in 1..Len(sent) : i \notin writes => sent[i] + Hour <= clock

\* There is room for one more write at time t: the write that would be too many is old
\* enough.
Open(t) ==
    \A i \in 1..Len(sent) :
        /\ i + Burst = Len(sent) + 1 => sent[i] + Minute <= t
        /\ i + Quota = Len(sent) + 1 => sent[i] + Hour <= t

Inv ==
    /\ TypeOK /\ Ordered /\ WithinLimits /\ BudgetIsSmall
    /\ refused => Open(due)

(***************************************************************************)
(* A window                                                                *)
(***************************************************************************)

\* The writes of the last ticks.
Last(size) == {i \in 1..Len(sent) : sent[i] > clock - size}

\* A window that has not been overrun holds the last writes, and is full if the write that
\* would be too many is still in it.
LEMMA Window ==
    ASSUME TypeOK, Ordered, NEW size \in Nat \ {0}, NEW most \in Nat \ {0},
           \A i, j \in 1..Len(sent) : j >= i + most => sent[j] >= sent[i] + size
    PROVE  /\ IsFiniteSet(Last(size)) /\ Cardinality(Last(size)) \in 0..most
           /\ Cardinality(Last(size)) = most =>
                /\ Len(sent) + 1 - most \in Last(size)
                /\ \A j \in Last(size) : Len(sent) + 1 - most <= j
           /\ Cardinality(Last(size)) < most =>
                \A i \in 1..Len(sent) :
                    i + most = Len(sent) + 1 => sent[i] + size <= clock
<1> DEFINE n == Len(sent)
           k == n + 1 - most
           L == Last(size)
<1>1. n \in Nat /\ k \in Int /\ sent \in [1..n -> Nat] /\ clock \in Nat
    BY DEF TypeOK
<1>2. \A j \in L : k <= j /\ j <= n
    <2> SUFFICES ASSUME NEW j \in 1..n, sent[j] > clock - size, j + most <= n PROVE FALSE
        BY <1>1 DEF Last
    <2>1. n \in 1..n /\ sent[n] <= clock /\ sent[n] >= sent[j] + size
        BY <1>1 DEF Ordered
    <2> QED
        BY <1>1, <2>1
<1>3. \A a \in Int : IsFiniteSet(a..n) /\ Cardinality(a..n) = IF a > n THEN 0 ELSE n - a + 1
    BY <1>1, FS_Interval
<1>4. \A a \in Int : L \subseteq a..n => IsFiniteSet(L) /\ Cardinality(L) <= Cardinality(a..n)
    BY <1>3, FS_Subset
<1>5. L \subseteq k..n
    BY <1>1, <1>2 DEF Last
<1>6. IsFiniteSet(L) /\ Cardinality(L) \in Nat
    BY <1>1, <1>4, <1>5, FS_CardinalityType
<1>7. Cardinality(L) <= most
    BY <1>1, <1>3, <1>4, <1>5, <1>6
<1>8. Cardinality(L) = most => k \in L
    <2> SUFFICES ASSUME k \notin L PROVE Cardinality(L) < most
        BY <1>1, <1>6
    <2>1. L \subseteq (k + 1)..n
        BY <1>1, <1>2, <1>5
    <2>2. Cardinality(L) <= Cardinality((k + 1)..n)
        BY <1>1, <1>4, <2>1
    <2>3. Cardinality((k + 1)..n) = most - 1
        BY <1>1, <1>3
    <2> QED
        BY <1>6, <2>2, <2>3
<1>9. ASSUME NEW i \in 1..n, i + most = n + 1, ~(sent[i] + size <= clock)
      PROVE  Cardinality(L) >= most
    <2>1. \A j \in i..n : j \in 1..n /\ sent[i] <= sent[j] /\ sent[j] \in Nat
        BY <1>1 DEF Ordered
    <2>2. i..n \subseteq L
        BY <1>1, <1>9, <2>1 DEF Last
    <2>3. Cardinality(i..n) = most
        BY <1>1, <1>3, <1>9
    <2>4. Cardinality(i..n) <= Cardinality(L)
        BY <1>6, <2>2, FS_Subset
    <2> QED
        BY <2>3, <2>4
<1> HIDE DEF L
<1> QED
    BY <1>1, <1>2, <1>6, <1>7, <1>8, <1>9 DEF L

\* The first of a set of writes.
LEMMA FirstIs ==
    ASSUME NEW deque \in SUBSET Int, NEW i \in deque, \A j \in deque : i <= j
    PROVE  First(deque) = sent[i]
<1> DEFINE first == CHOOSE k \in deque : \A j \in deque : k <= j
<1>1. first \in deque /\ \A j \in deque : first <= j
    OBVIOUS
<1>2. first \in Int /\ i \in Int /\ first <= i /\ i <= first
    BY <1>1
<1>3. first = i
    BY <1>2
<1> QED
    BY <1>3 DEF First

(***************************************************************************)
(* delay                                                                   *)
(***************************************************************************)

\* What delay looks at: the writes of the last hour and of the last minute.
LEMMA Deque ==
    ASSUME Limits, TypeOK, Ordered
    PROVE  /\ Trimmed(writes, clock) = Last(Hour)
           /\ Recent(Trimmed(writes, clock), clock) = Last(Minute)
           /\ Trimmed(Trimmed(writes, clock), clock) = Trimmed(writes, clock)
<1> USE DEF Limits, TypeOK, Ordered
<1>1. Trimmed(writes, clock) = Last(Hour)
    <2>1. ASSUME NEW i \in 1..Len(sent), sent[i] > clock - Hour PROVE i \in writes
        <3>1. sent[i] \in Nat
            OBVIOUS
        <3> QED
            BY <2>1, <3>1
    <2> QED
        BY <2>1 DEF Trimmed, Last
<1>2. Recent(Last(Hour), clock) = Last(Minute)
    BY DEF Recent, Last
<1>3. Trimmed(Last(Hour), clock) = Last(Hour)
    BY DEF Trimmed, Last
<1> QED
    BY <1>1, <1>2, <1>3

\* delay says how long it takes until there is room.
LEMMA DelayIs ==
    ASSUME Limits, Inv
    PROVE  /\ Delay(writes, clock) \in Nat
           /\ Delay(writes, clock) = 0 => Open(clock) /\ Cardinality(Last(Hour)) < Quota
           /\ Open(clock) => Delay(writes, clock) = 0
           /\ Open(clock + Delay(writes, clock))
<1> DEFINE n == Len(sent)
           M == Last(Minute)
           H == Last(Hour)
           inMinute == IF Cardinality(M) >= Burst
                       THEN Larger(0, First(M) + Minute - clock) ELSE 0
           inHour == IF Cardinality(H) >= Quota
                     THEN Larger(0, First(H) + Hour - clock) ELSE 0
           inAll == Larger(inMinute, inHour)
<1>1. n \in Nat /\ sent \in [1..n -> Nat] /\ clock \in Nat
    BY DEF Inv, TypeOK
<1>2. /\ Minute \in Nat \ {0} /\ Hour \in Nat \ {0} /\ Burst \in Nat \ {0}
      /\ Quota \in Nat \ {0}
    BY DEF Limits
<1>3. Delay(writes, clock) = inAll
    BY Deque DEF Inv, Delay, Wait
<1>4. /\ Cardinality(M) \in 0..Burst
      /\ Cardinality(M) = Burst => n + 1 - Burst \in M /\ \A j \in M : n + 1 - Burst <= j
      /\ Cardinality(M) < Burst =>
            \A i \in 1..n : i + Burst = n + 1 => sent[i] + Minute <= clock
    BY <1>2, Window DEF Inv, WithinLimits
<1>5. /\ Cardinality(H) \in 0..Quota
      /\ Cardinality(H) = Quota => n + 1 - Quota \in H /\ \A j \in H : n + 1 - Quota <= j
      /\ Cardinality(H) < Quota =>
            \A i \in 1..n : i + Quota = n + 1 => sent[i] + Hour <= clock
    BY <1>2, Window DEF Inv, WithinLimits
<1>6. M \subseteq Int /\ H \subseteq Int
    BY DEF Last
<1>7. CASE Cardinality(M) = Burst /\ Cardinality(H) = Quota
    <2> DEFINE m == n + 1 - Burst
               h == n + 1 - Quota
    <2>1. /\ First(M) = sent[m] /\ sent[m] > clock - Minute
          /\ m \in 1..n /\ sent[m] \in Nat /\ m + Burst = n + 1
        <3>1. m \in M /\ \A j \in M : m <= j
            BY <1>4, <1>7
        <3>2. First(M) = sent[m]
            <4> HIDE DEF M, m
            <4> QED
                BY <1>6, <3>1, FirstIs
        <3>3. sent[m] > clock - Minute /\ m \in 1..n
            BY <3>1 DEF Last
        <3> QED
            BY <1>1, <1>2, <3>2, <3>3
    <2>2. /\ First(H) = sent[h] /\ sent[h] > clock - Hour
          /\ h \in 1..n /\ sent[h] \in Nat /\ h + Quota = n + 1
        <3>1. h \in H /\ \A j \in H : h <= j
            BY <1>5, <1>7
        <3>2. First(H) = sent[h]
            <4> HIDE DEF H, h
            <4> QED
                BY <1>6, <3>1, FirstIs
        <3>3. sent[h] > clock - Hour /\ h \in 1..n
            BY <3>1 DEF Last
        <3> QED
            BY <1>1, <1>2, <3>2, <3>3
    <2>3. inMinute = sent[m] + Minute - clock /\ inMinute > 0
        BY <1>1, <1>2, <1>7, <2>1 DEF Larger
    <2>4. inHour = sent[h] + Hour - clock /\ inHour > 0
        BY <1>1, <1>2, <1>7, <2>2 DEF Larger
    <2> HIDE DEF inMinute, inHour, M, H, n, m, h
    <2>5. /\ inAll \in Nat /\ inAll > 0 /\ inMinute <= inAll /\ inHour <= inAll
        BY <1>1, <1>2, <2>1, <2>2, <2>3, <2>4 DEF Larger, inAll
    <2> HIDE DEF inAll
    <2>6. ~Open(clock)
        BY <1>1, <1>2, <2>1, <2>2 DEF Open, n
    <2>7. ASSUME NEW i \in 1..n, i + Burst = n + 1 PROVE sent[i] + Minute <= clock + inAll
        <3>1. i = m
            BY <1>1, <1>2, <2>1, <2>7
        <3> QED
            BY <1>1, <1>2, <2>1, <2>3, <2>5, <3>1
    <2>8. ASSUME NEW i \in 1..n, i + Quota = n + 1 PROVE sent[i] + Hour <= clock + inAll
        <3>1. i = h
            BY <1>1, <1>2, <2>2, <2>8
        <3> QED
            BY <1>1, <1>2, <2>2, <2>4, <2>5, <3>1
    <2>9. Open(clock + inAll)
        BY <2>7, <2>8 DEF Open, n
    <2> QED
        BY <1>3, <2>5, <2>6, <2>9 DEF inAll
<1>8. CASE Cardinality(M) = Burst /\ Cardinality(H) < Quota
    <2> DEFINE m == n + 1 - Burst
    <2>1. /\ First(M) = sent[m] /\ sent[m] > clock - Minute
          /\ m \in 1..n /\ sent[m] \in Nat /\ m + Burst = n + 1
        <3>1. m \in M /\ \A j \in M : m <= j
            BY <1>4, <1>8
        <3>2. First(M) = sent[m]
            <4> HIDE DEF M, m
            <4> QED
                BY <1>6, <3>1, FirstIs
        <3>3. sent[m] > clock - Minute /\ m \in 1..n
            BY <3>1 DEF Last
        <3> QED
            BY <1>1, <1>2, <3>2, <3>3
    <2>3. inMinute = sent[m] + Minute - clock /\ inMinute > 0
        BY <1>1, <1>2, <1>8, <2>1 DEF Larger
    <2>4. inHour = 0
        BY <1>2, <1>5, <1>8
    <2> HIDE DEF inMinute, inHour, M, H, n, m
    <2>5. /\ inAll \in Nat /\ inAll > 0 /\ inMinute <= inAll /\ inHour <= inAll
        BY <1>1, <1>2, <2>1, <2>3, <2>4 DEF Larger, inAll
    <2> HIDE DEF inAll
    <2>6. ~Open(clock)
        BY <1>1, <1>2, <2>1 DEF Open, n
    <2>7. ASSUME NEW i \in 1..n, i + Burst = n + 1 PROVE sent[i] + Minute <= clock + inAll
        <3>1. i = m
            BY <1>1, <1>2, <2>1, <2>7
        <3> QED
            BY <1>1, <1>2, <2>1, <2>3, <2>5, <3>1
    <2>8. ASSUME NEW i \in 1..n, i + Quota = n + 1 PROVE sent[i] + Hour <= clock + inAll
        <3>1. sent[i] + Hour <= clock /\ sent[i] \in Nat
            BY <1>1, <1>5, <1>8, <2>8
        <3> QED
            BY <1>1, <1>2, <2>5, <3>1
    <2>9. Open(clock + inAll)
        BY <2>7, <2>8 DEF Open, n
    <2> QED
        BY <1>3, <2>5, <2>6, <2>9 DEF inAll
<1>9. CASE Cardinality(M) < Burst /\ Cardinality(H) = Quota
    <2> DEFINE h == n + 1 - Quota
    <2>2. /\ First(H) = sent[h] /\ sent[h] > clock - Hour
          /\ h \in 1..n /\ sent[h] \in Nat /\ h + Quota = n + 1
        <3>1. h \in H /\ \A j \in H : h <= j
            BY <1>5, <1>9
        <3>2. First(H) = sent[h]
            <4> HIDE DEF H, h
            <4> QED
                BY <1>6, <3>1, FirstIs
        <3>3. sent[h] > clock - Hour /\ h \in 1..n
            BY <3>1 DEF Last
        <3> QED
            BY <1>1, <1>2, <3>2, <3>3
    <2>3. inMinute = 0
        BY <1>2, <1>4, <1>9
    <2>4. inHour = sent[h] + Hour - clock /\ inHour > 0
        BY <1>1, <1>2, <1>9, <2>2 DEF Larger
    <2> HIDE DEF inMinute, inHour, M, H, n, h
    <2>5. /\ inAll \in Nat /\ inAll > 0 /\ inMinute <= inAll /\ inHour <= inAll
        BY <1>1, <1>2, <2>2, <2>3, <2>4 DEF Larger, inAll
    <2> HIDE DEF inAll
    <2>6. ~Open(clock)
        BY <1>1, <1>2, <2>2 DEF Open, n
    <2>7. ASSUME NEW i \in 1..n, i + Burst = n + 1 PROVE sent[i] + Minute <= clock + inAll
        <3>1. sent[i] + Minute <= clock /\ sent[i] \in Nat
            BY <1>1, <1>4, <1>9, <2>7
        <3> QED
            BY <1>1, <1>2, <2>5, <3>1
    <2>8. ASSUME NEW i \in 1..n, i + Quota = n + 1 PROVE sent[i] + Hour <= clock + inAll
        <3>1. i = h
            BY <1>1, <1>2, <2>2, <2>8
        <3> QED
            BY <1>1, <1>2, <2>2, <2>4, <2>5, <3>1
    <2>9. Open(clock + inAll)
        BY <2>7, <2>8 DEF Open, n
    <2> QED
        BY <1>3, <2>5, <2>6, <2>9 DEF inAll
<1>10. CASE Cardinality(M) < Burst /\ Cardinality(H) < Quota
    <2>1. inMinute = 0 /\ inHour = 0
        BY <1>2, <1>4, <1>5, <1>10
    <2> HIDE DEF inMinute, inHour
    <2>2. Larger(inMinute, inHour) = 0
        BY <2>1 DEF Larger
    <2>3. Open(clock)
        BY <1>4, <1>5, <1>10 DEF Open
    <2> QED
        BY <1>1, <1>3, <1>10, <2>2, <2>3
<1> QED
    BY <1>2, <1>4, <1>5, <1>7, <1>8, <1>9, <1>10

(***************************************************************************)
(* Steps                                                                   *)
(***************************************************************************)

\* The budget is made with the POST as its first write.
LEMMA InitInv == Limits /\ Init => Inv
<1> SUFFICES ASSUME Limits, Init PROVE Inv
    OBVIOUS
<1> USE DEF Init, Limits
<1>1. Len(sent) = 1 /\ sent[1] = 0
    OBVIOUS
<1>2. TypeOK
    <2>1. clock \in Nat /\ due \in Nat /\ sent \in Seq(Nat) /\ writes \subseteq 1..Len(sent)
        BY <1>1
    <2>2. refused \in BOOLEAN /\ raised \in BOOLEAN
        OBVIOUS
    <2> QED
        BY <2>1, <2>2 DEF TypeOK
<1>3. Ordered
    BY <1>1 DEF Ordered
<1>4. WithinLimits
    BY <1>1 DEF WithinLimits
<1>5. BudgetIsSmall
    <2>1. Cardinality(writes) = 1
        BY FS_Singleton
    <2> QED
        BY <2>1 DEF BudgetIsSmall
<1> QED
    BY <1>2, <1>3, <1>4, <1>5 DEF Inv

\* The clock only goes forward, so what is old stays old.
LEMMA ElapseInv == Limits /\ Inv /\ Elapse => Inv'
<1> SUFFICES ASSUME Limits, Inv, Elapse PROVE Inv'
    OBVIOUS
<1> USE DEF Elapse, Inv
<1>1. TypeOK'
    BY DEF TypeOK
<1>2. Ordered'
    <2>1. \A i \in 1..Len(sent) : sent[i] \in Nat
        BY DEF TypeOK
    <2> QED
        BY <2>1 DEF Ordered, TypeOK, Limits
<1>3. WithinLimits' /\ BudgetIsSmall'
    BY DEF WithinLimits, BudgetIsSmall
<1>4. refused' => Open(due)'
    BY DEF Open
<1> QED
    BY <1>1, <1>2, <1>3, <1>4

\* A trimmed deque is smaller, and what has left it is old.
LEMMA TrimKeeps ==
    ASSUME Limits, Inv
    PROVE  /\ IsFiniteSet(Trimmed(writes, clock))
           /\ Cardinality(Trimmed(writes, clock)) \in Nat
           /\ Cardinality(Trimmed(writes, clock)) <= Quota
           /\ \A i \in 1..Len(sent) :
                  i \notin Trimmed(writes, clock) => sent[i] + Hour <= clock
<1>1. /\ IsFiniteSet(Last(Hour)) /\ Cardinality(Last(Hour)) \in 0..Quota
    BY Window DEF Inv, WithinLimits, Limits
<1>2. Quota \in Nat /\ Hour \in Nat /\ clock \in Nat
    BY DEF Limits, Inv, TypeOK
<1>3. \A i \in 1..Len(sent) : i \notin Last(Hour) => sent[i] + Hour <= clock
    <2>1. \A i \in 1..Len(sent) : sent[i] \in Nat
        BY DEF Inv, TypeOK
    <2> QED
        BY <1>2, <2>1 DEF Last
<1> QED
    BY <1>1, <1>2, <1>3, Deque DEF Inv

\* An attempt that is turned down.
LEMMA RefuseInv == Limits /\ Inv /\ Refuse => Inv'
<1> SUFFICES ASSUME Limits, Inv, Refuse PROVE Inv'
    OBVIOUS
<1>1. /\ Trimmed(writes, clock) \subseteq writes
      /\ writes' = Trimmed(writes, clock) /\ due' = clock + Delay(writes, clock)
      /\ UNCHANGED <<clock, sent, raised>> /\ refused' = TRUE
    BY DEF Refuse, Trimmed
<1>2. TypeOK'
    <2>1. /\ clock' \in Nat /\ due' \in Nat
          /\ sent' \in Seq(Nat) /\ writes' \subseteq 1..Len(sent')
        <3>1. clock \in Nat /\ sent \in Seq(Nat) /\ writes \subseteq 1..Len(sent)
            BY DEF Inv, TypeOK
        <3>2. Delay(writes, clock) \in Nat
            BY DelayIs
        <3>3. writes' \subseteq writes /\ clock' = clock /\ sent' = sent
            BY <1>1
        <3>4. due' \in Nat
            BY <1>1, <3>1, <3>2
        <3> QED
            BY <3>1, <3>3, <3>4
    <2>2. refused' \in BOOLEAN /\ raised' \in BOOLEAN
        BY <1>1 DEF Inv, TypeOK
    <2> QED
        BY <2>1, <2>2 DEF TypeOK
<1>3. Ordered'
    BY <1>1, TrimKeeps DEF Inv, Ordered
<1>4. WithinLimits'
    BY <1>1 DEF Inv, WithinLimits
<1>5. BudgetIsSmall'
    BY <1>1, TrimKeeps DEF Inv, BudgetIsSmall
<1>6. Open(due)'
    <2>1. Open(clock + Delay(writes, clock))
        BY DelayIs
    <2> QED
        BY <1>1, <2>1 DEF Open
<1> QED
    BY <1>2, <1>3, <1>4, <1>5, <1>6 DEF Inv

\* A write, made when there is room.
LEMMA PublishInv == Limits /\ Inv /\ Publish => Inv'
<1> SUFFICES ASSUME Limits, Inv, Publish PROVE Inv'
    OBVIOUS
<1> DEFINE n == Len(sent)
           trimmed == Trimmed(writes, clock)
<1>1. n \in Nat /\ sent \in [1..n -> Nat] /\ sent \in Seq(Nat) /\ clock \in Nat
    BY DEF Inv, TypeOK
<1>2. /\ Minute \in Nat \ {0} /\ Hour \in Nat \ {0} /\ Burst \in Nat \ {0}
      /\ Quota \in Nat \ {0}
    BY DEF Limits
<1>3. Open(clock) /\ Cardinality(trimmed) < Quota
    BY Deque, DelayIs DEF Publish, Inv
<1>4. Delay(trimmed, clock) = Delay(writes, clock)
    BY Deque DEF Delay, Inv
<1>5. /\ sent' = Append(sent, clock) /\ writes' = trimmed \cup {Len(sent')}
      /\ UNCHANGED <<clock, raised>> /\ due' = clock /\ refused' = FALSE
    BY <1>4, Deque, DelayIs DEF Publish, Record, Inv
<1>6. /\ Len(sent') = n + 1 /\ sent' \in Seq(Nat)
      /\ \A i \in 1..n : sent'[i] = sent[i] /\ sent[i] \in Nat
      /\ sent'[n + 1] = clock
    BY <1>1, <1>5
<1>7. trimmed \subseteq writes /\ writes \subseteq 1..n
    BY DEF Trimmed, Inv, TypeOK
<1>8. \A i \in 1..n : sent[i] <= clock
    BY DEF Inv, Ordered
<1>t. TypeOK'
    <2>1. writes' \subseteq 1..(n + 1)
        <3>1. 1..n \subseteq 1..(n + 1) /\ n + 1 \in 1..(n + 1)
            BY <1>1
        <3>2. trimmed \subseteq 1..n
            BY <1>7
        <3> HIDE DEF trimmed
        <3> QED
            BY <1>5, <1>6, <3>1, <3>2
    <2>2. /\ clock' \in Nat /\ due' \in Nat
          /\ sent' \in Seq(Nat) /\ writes' \subseteq 1..Len(sent')
        BY <1>1, <1>5, <1>6, <2>1
    <2>3. refused' \in BOOLEAN /\ raised' \in BOOLEAN
        BY <1>5 DEF Inv, TypeOK
    <2> QED
        BY <2>2, <2>3 DEF TypeOK
<1>o. Ordered'
    <2>1. ASSUME NEW i \in 1..(n + 1), NEW j \in 1..(n + 1), i <= j PROVE sent'[i] <= sent'[j]
        <3>1. CASE j = n + 1
            BY <1>1, <1>6, <1>8, <2>1, <3>1
        <3>2. CASE j \in 1..n
            BY <1>1, <1>6, <2>1, <3>2 DEF Inv, Ordered
        <3> QED
            BY <1>1, <3>1, <3>2
    <2>2. \A i \in 1..(n + 1) : sent'[i] <= clock
        BY <1>1, <1>6, <1>8
    <2>3. ASSUME NEW i \in 1..(n + 1), i \notin trimmed \cup {n + 1}
          PROVE  sent'[i] + Hour <= clock
        BY <1>1, <1>6, <2>3, TrimKeeps
    <2> HIDE DEF trimmed
    <2> QED
        BY <1>5, <1>6, <2>1, <2>2, <2>3 DEF Ordered
<1>w. WithinLimits'
    <2>1. ASSUME NEW i \in 1..(n + 1), NEW j \in 1..(n + 1), NEW most \in Nat \ {0},
                 NEW size \in Nat \ {0}, j >= i + most,
                 \A k, l \in 1..n : l >= k + most => sent[l] >= sent[k] + size,
                 \A k \in 1..n : k + most = n + 1 => sent[k] + size <= clock
          PROVE  sent'[j] >= sent'[i] + size
        <3>1. i \in 1..n
            BY <1>1, <2>1
        <3>2. CASE j \in 1..n
            BY <1>6, <2>1, <3>1, <3>2
        <3>3. CASE j = n + 1
            <4>1. n + 1 - most \in 1..n /\ i <= n + 1 - most
                BY <1>1, <2>1, <3>1, <3>3
            <4>2. sent[i] <= sent[n + 1 - most]
                BY <3>1, <4>1 DEF Inv, Ordered
            <4>3. sent[n + 1 - most] + size <= clock
                BY <1>1, <2>1, <4>1
            <4>4. /\ sent[i] \in Nat /\ sent[n + 1 - most] \in Nat /\ sent'[i] = sent[i]
                  /\ sent'[j] = clock
                BY <1>1, <1>6, <3>1, <3>3, <4>1
            <4> QED
                BY <1>1, <2>1, <4>2, <4>3, <4>4
        <3> QED
            BY <1>1, <3>2, <3>3
    <2>2. ASSUME NEW i \in 1..(n + 1), NEW j \in 1..(n + 1), j >= i + Burst
          PROVE  sent'[j] >= sent'[i] + Minute
        BY <1>2, <1>3, <2>1, <2>2 DEF Inv, WithinLimits, Open
    <2>3. ASSUME NEW i \in 1..(n + 1), NEW j \in 1..(n + 1), j >= i + Quota
          PROVE  sent'[j] >= sent'[i] + Hour
        BY <1>2, <1>3, <2>1, <2>3 DEF Inv, WithinLimits, Open
    <2> QED
        BY <1>6, <2>2, <2>3 DEF WithinLimits
<1>b. BudgetIsSmall'
    <2>1. n + 1 \notin trimmed
        BY <1>1, <1>7
    <2>2. Cardinality(trimmed \cup {n + 1}) = Cardinality(trimmed) + 1
        BY <2>1, TrimKeeps, FS_AddElement
    <2>3. Cardinality(trimmed) + 1 <= Quota
        BY <1>2, <1>3, TrimKeeps
    <2>4. writes' = trimmed \cup {n + 1} /\ raised' = FALSE
        BY <1>5, <1>6 DEF Inv, TypeOK, BudgetIsSmall
    <2> HIDE DEF trimmed
    <2> QED
        BY <2>2, <2>3, <2>4 DEF BudgetIsSmall
<1> QED
    BY <1>5, <1>t, <1>o, <1>w, <1>b DEF Inv

\* All steps.
LEMMA NextInv == Limits /\ Inv /\ [Next]_vars => Inv'
<1>1. Inv /\ UNCHANGED vars => Inv'
    BY DEF vars, Inv, TypeOK, Ordered, WithinLimits, BudgetIsSmall, Open
<1> QED
    BY <1>1, ElapseInv, RefuseInv, PublishInv DEF Next

(***************************************************************************)
(* Results                                                                 *)
(***************************************************************************)

\* The inductive invariant.
THEOREM Inductive == ASSUME Limits PROVE Spec => []Inv
<1>1. Init => Inv
    BY InitInv
<1>2. Inv /\ [Next]_vars => Inv'
    BY NextInv
<1> QED
    BY <1>1, <1>2, PTL DEF Spec

\* No minute and no hour, wherever it begins, holds more writes than RequestBudget allows,
\* and there is no off-by-one at either end of a window: the write that is one too many is
\* a full window later (delay drops what is exactly an hour old and counts what is younger
\* than a minute).
THEOREM Bounded == ASSUME Limits PROVE Spec => []WithinLimits
<1>1. Inv => WithinLimits
    BY DEF Inv
<1> QED
    BY <1>1, Inductive, PTL

\* The deque stays within an hour's quota however long the build lasts, and record never
\* raises in run_worker, whose handler of failed requests would not catch it.
THEOREM Small == ASSUME Limits PROVE Spec => []BudgetIsSmall
<1>1. Inv => BudgetIsSmall
    BY DEF Inv
<1> QED
    BY <1>1, Inductive, PTL

\* run_worker is turned down once at most before a write: at the time delay has named
\* there is room in both windows.
THEOREM Refuses == ASSUME Limits PROVE Spec => OneRefusal
<1>1. Inv /\ [Next]_vars => [Refuse => ~refused]_vars
    <2> SUFFICES ASSUME Inv, Refuse, refused PROVE FALSE
        OBVIOUS
    <2>1. Open(due) /\ clock >= due
        BY DEF Inv, Refuse
    <2>2. Open(clock)
        <3>1. \A i \in 1..Len(sent) : sent[i] \in Nat
            BY DEF Inv, TypeOK
        <3> QED
            BY <2>1, <3>1 DEF Open, Inv, TypeOK, Limits
    <2>3. Delay(writes, clock) = 0
        BY <2>2, DelayIs
    <2> QED
        BY <2>3 DEF Refuse
<1> QED
    BY <1>1, Inductive, PTL DEF Spec, OneRefusal
=============================================================================
