---------------------- MODULE KitchenEventPublisherProofs ----------------------
(* Who hears of a dish, and in which order, for every set of observers. *)
EXTENDS KitchenEventPublisher, TLAPS, SequenceTheorems, FiniteSetTheorems

Types == /\ observers \in Seq(KitchenObservers)
         /\ heard \in [KitchenObservers -> Seq(Nat)]
         /\ dishes \in Nat
         /\ calls \in Nat
         /\ since \in [KitchenObservers -> 0 .. calls]

\* Who subscribes is in the list, and who came later stands behind: so nobody is in it twice.
Subscribed == \A o \in KitchenObservers : since[o] # 0 <=> \E k \in DOMAIN observers : observers[k] = o

InOrder == \A j, k \in DOMAIN observers : j < k => since[observers[j]] < since[observers[k]]

PublisherInv == Types /\ Subscribed /\ InOrder /\ HearsEachDishOnce

LEMMA Known ==
    ASSUME PublisherInv
    PROVE  /\ Len(observers) \in Nat /\ DOMAIN observers = 1 .. Len(observers)
           /\ \A k \in DOMAIN observers : /\ observers[k] \in KitchenObservers
                                          /\ since[observers[k]] \in Nat
           /\ \A j, k \in DOMAIN observers : observers[j] = observers[k] => j = k
<1>1. /\ Len(observers) \in Nat /\ DOMAIN observers = 1 .. Len(observers)
      /\ \A k \in DOMAIN observers : observers[k] \in KitchenObservers
    BY LenProperties, ElementOfSeq DEF PublisherInv, Types
<1>2. \A k \in DOMAIN observers : since[observers[k]] \in Nat
    BY <1>1 DEF PublisherInv, Types
<1>3. ASSUME NEW j \in DOMAIN observers, NEW k \in DOMAIN observers, observers[j] = observers[k]
      PROVE  j = k
    <2>1. ~(j < k) /\ ~(k < j)
        BY <1>2, <1>3 DEF PublisherInv, InOrder
    <2> QED
        BY <1>1, <2>1
<1> QED
    BY <1>1, <1>2, <1>3

\* Taking the only entry that is e out of a sequence: those behind it move up.
LEMMA Leaving ==
    ASSUME NEW S, NEW s \in Seq(S), NEW i \in 1 .. Len(s),
           \A j \in 1 .. Len(s) : s[j] = s[i] => j = i
    PROVE  /\ RemoveFirst(s, s[i]) \in Seq(S)
           /\ Len(RemoveFirst(s, s[i])) = Len(s) - 1
           /\ \A j \in 1 .. Len(s) - 1 :
                  RemoveFirst(s, s[i])[j] = IF j < i THEN s[j] ELSE s[j + 1]
<1>1. Len(s) \in Nat /\ \A j \in 1 .. Len(s) : s[j] \in S
    BY LenProperties, ElementOfSeq
<1>2. {j \in 1 .. Len(s) : s[j] = s[i]} = {i}
    OBVIOUS
<1>3. Min({i}) = i
    BY <1>1 DEF Min
<1>4. SelectInSeq(s, LAMBDA v : v = s[i]) = i
    BY <1>2, <1>3, Zenon DEF SelectInSeq
<1>5. RemoveFirst(s, s[i]) = SubSeq(s, 1, i - 1) \o SubSeq(s, i + 1, Len(s))
    BY <1>4, Zenon DEF RemoveFirst, RemoveAt
<1>6. /\ SubSeq(s, 1, i - 1) \in Seq(S) /\ Len(SubSeq(s, 1, i - 1)) = i - 1
      /\ \A j \in 1 .. i - 1 : SubSeq(s, 1, i - 1)[j] = s[j]
    <2>1. 1 \in Int /\ i - 1 \in Int /\ \A j \in 1 .. i - 1 : s[j] \in S
        BY <1>1
    <2>2. /\ SubSeq(s, 1, i - 1) \in Seq(S)
          /\ Len(SubSeq(s, 1, i - 1)) = IF 1 <= i - 1 THEN i - 1 - 1 + 1 ELSE 0
          /\ \A j \in 1 .. i - 1 - 1 + 1 : SubSeq(s, 1, i - 1)[j] = s[1 + j - 1]
        BY <2>1, SubSeqProperties
    <2> QED
        BY <1>1, <2>2
<1>7. /\ SubSeq(s, i + 1, Len(s)) \in Seq(S) /\ Len(SubSeq(s, i + 1, Len(s))) = Len(s) - i
      /\ \A j \in 1 .. Len(s) - i : SubSeq(s, i + 1, Len(s))[j] = s[i + j]
    <2>1. i + 1 \in Int /\ Len(s) \in Int /\ \A j \in i + 1 .. Len(s) : s[j] \in S
        BY <1>1
    <2>2. /\ SubSeq(s, i + 1, Len(s)) \in Seq(S)
          /\ Len(SubSeq(s, i + 1, Len(s))) = IF i + 1 <= Len(s) THEN Len(s) - (i + 1) + 1 ELSE 0
          /\ \A j \in 1 .. Len(s) - (i + 1) + 1 : SubSeq(s, i + 1, Len(s))[j] = s[i + 1 + j - 1]
        BY <2>1, SubSeqProperties
    <2> QED
        BY <1>1, <2>2
<1> DEFINE a == SubSeq(s, 1, i - 1)
           b == SubSeq(s, i + 1, Len(s))
<1>8. /\ a \in Seq(S) /\ b \in Seq(S) /\ Len(a) = i - 1 /\ Len(b) = Len(s) - i
      /\ \A j \in 1 .. i - 1 : a[j] = s[j]
      /\ \A j \in 1 .. Len(s) - i : b[j] = s[i + j]
      /\ RemoveFirst(s, s[i]) = a \o b
    BY <1>5, <1>6, <1>7
<1> HIDE DEF a, b
<1>9. /\ a \o b \in Seq(S) /\ Len(a \o b) = Len(s) - 1
      /\ \A j \in 1 .. Len(s) - 1 : (a \o b)[j] = IF j <= i - 1 THEN a[j] ELSE b[j - (i - 1)]
    <2>1. /\ a \o b \in Seq(S) /\ Len(a \o b) = Len(a) + Len(b)
          /\ \A j \in 1 .. Len(a) + Len(b) :
                 (a \o b)[j] = IF j <= Len(a) THEN a[j] ELSE b[j - Len(a)]
        BY <1>8, ConcatProperties
    <2>2. Len(a) + Len(b) = Len(s) - 1
        BY <1>1, <1>8
    <2> QED
        BY <1>8, <2>1, <2>2
<1>10. ASSUME NEW j \in 1 .. Len(s) - 1
       PROVE  (a \o b)[j] = IF j < i THEN s[j] ELSE s[j + 1]
    <2>1. CASE j < i
        BY <1>1, <1>8, <1>9, <2>1
    <2>2. CASE ~(j < i)
        <3>1. j - (i - 1) \in 1 .. Len(s) - i /\ i + (j - (i - 1)) = j + 1 /\ ~(j <= i - 1)
            BY <1>1, <2>2
        <3> QED
            BY <1>8, <1>9, <2>2, <3>1
    <2> QED
        BY <2>1, <2>2
<1> QED
    BY <1>8, <1>9, <1>10

--------------------------------------------------------------------------------

LEMMA Registering ==
    ASSUME PublisherInv, NEW o \in KitchenObservers \cup {Null}, RegisterObserver(o)
    PROVE  PublisherInv'
<1>1. /\ calls' = calls + 1 /\ UNCHANGED <<heard, dishes, owed>>
      /\ observers' = Added(o)
      /\ since' = [p \in KitchenObservers |->
                      IF p = o /\ since[p] = 0 THEN calls + 1 ELSE since[p]]
    BY DEF RegisterObserver
<1>2. calls \in Nat /\ \A p \in KitchenObservers : since[p] \in 0 .. calls
    BY DEF PublisherInv, Types
<1>3. calls' \in Nat /\ since' \in [KitchenObservers -> 0 .. calls']
    BY <1>1, <1>2
<1>4. HearsEachDishOnce'
    BY <1>1 DEF PublisherInv, HearsEachDishOnce
<1>5. CASE o = Null \/ \E k \in DOMAIN observers : observers[k] = o
    <2>1. observers' = observers
        BY <1>1, <1>5, Known DEF Added, Contains
    <2>2. \A p \in KitchenObservers : since'[p] = since[p]
        BY <1>1, <1>5, PublisherNull DEF PublisherInv, Subscribed
    <2>3. Subscribed' /\ InOrder'
        BY <2>1, <2>2, Known DEF PublisherInv, Subscribed, InOrder
    <2> QED
        BY <1>1, <1>3, <1>4, <2>1, <2>3 DEF PublisherInv, Types
<1>6. CASE o # Null /\ ~\E k \in DOMAIN observers : observers[k] = o
    <2>1. observers' = Append(observers, o) /\ o \in KitchenObservers
        BY <1>1, <1>6, Known DEF Added, Contains
    <2>2. /\ observers' \in Seq(KitchenObservers)
          /\ Len(observers') = Len(observers) + 1 /\ observers'[Len(observers) + 1] = o
          /\ \A k \in 1 .. Len(observers) : observers'[k] = observers[k]
        BY <2>1, AppendProperties DEF PublisherInv, Types
    <2>3. /\ DOMAIN observers' = 1 .. Len(observers) + 1
          /\ \A k \in DOMAIN observers' : k \in DOMAIN observers \/ k = Len(observers) + 1
        BY <2>2, Known, LenProperties
    <2>4. since[o] = 0
        BY <1>6, <2>1 DEF PublisherInv, Subscribed
    <2>5. since'[o] = calls + 1 /\ \A p \in KitchenObservers : p # o => since'[p] = since[p]
        BY <1>1, <2>1, <2>4
    <2>6. \A k \in DOMAIN observers : /\ observers'[k] = observers[k] /\ observers[k] # o
                                      /\ observers[k] \in KitchenObservers
        BY <1>6, <2>2, Known
    <2>7. Subscribed'
        <3>1. ASSUME NEW p \in KitchenObservers
              PROVE  since'[p] # 0 <=> \E k \in DOMAIN observers' : observers'[k] = p
            <4>1. CASE p = o
                BY <1>2, <2>2, <2>3, <2>5, <4>1, Known
            <4>2. CASE p # o
                <5>1. since'[p] # 0 <=> \E k \in DOMAIN observers : observers[k] = p
                    BY <2>5, <4>2 DEF PublisherInv, Subscribed
                <5>2. (\E k \in DOMAIN observers : observers[k] = p)
                      <=> \E k \in DOMAIN observers' : observers'[k] = p
                    BY <2>2, <2>3, <2>6, <4>2, Known
                <5> QED
                    BY <5>1, <5>2
            <4> QED
                BY <4>1, <4>2
        <3> QED
            BY <3>1 DEF Subscribed
    <2>8. InOrder'
        <3>1. ASSUME NEW j \in DOMAIN observers', NEW k \in DOMAIN observers', j < k
              PROVE  since'[observers'[j]] < since'[observers'[k]]
            <4>1. j \in DOMAIN observers
                BY <2>3, <3>1, Known
            <4>2. since'[observers'[j]] = since[observers[j]]
                BY <2>5, <2>6, <4>1
            <4>3. CASE k \in DOMAIN observers
                BY <2>5, <2>6, <3>1, <4>1, <4>2, <4>3 DEF PublisherInv, InOrder
            <4>4. CASE k = Len(observers) + 1
                <5>1. since'[observers'[k]] = calls + 1
                    BY <2>2, <2>5, <4>4
                <5>2. since[observers[j]] \in 0 .. calls
                    BY <1>2, <2>6, <4>1
                <5> QED
                    BY <1>2, <4>2, <5>1, <5>2
            <4> QED
                BY <2>3, <4>3, <4>4
        <3> QED
            BY <3>1 DEF InOrder
    <2> QED
        BY <1>1, <1>3, <1>4, <2>2, <2>7, <2>8 DEF PublisherInv, Types
<1> QED
    BY <1>5, <1>6

LEMMA Removing ==
    ASSUME PublisherInv, NEW o \in KitchenObservers, RemoveObserver(o) PROVE PublisherInv'
<1>1. /\ UNCHANGED <<heard, dishes, calls, owed>>
      /\ observers' = RemoveFirst(observers, o)
      /\ since' = [since EXCEPT ![o] = 0]
    BY DEF RemoveObserver
<1>2. /\ calls \in Nat /\ since \in [KitchenObservers -> 0 .. calls]
      /\ observers \in Seq(KitchenObservers)
    BY DEF PublisherInv, Types
<1>3. /\ since' \in [KitchenObservers -> 0 .. calls]
      /\ since'[o] = 0 /\ \A p \in KitchenObservers : p # o => since'[p] = since[p]
    BY <1>1, <1>2
<1>4. HearsEachDishOnce'
    BY <1>1 DEF PublisherInv, HearsEachDishOnce
<1>5. CASE \E i \in DOMAIN observers : observers[i] = o
    <2>1. PICK i \in 1 .. Len(observers) : observers[i] = o
        BY <1>5, Known
    <2>2. /\ observers' \in Seq(KitchenObservers)
          /\ Len(observers') = Len(observers) - 1
          /\ \A j \in 1 .. Len(observers) - 1 :
                 observers'[j] = IF j < i THEN observers[j] ELSE observers[j + 1]
        <3>1. \A j \in 1 .. Len(observers) : observers[j] = observers[i] => j = i
            BY Known
        <3>2. observers' = RemoveFirst(observers, observers[i])
            BY <1>1, <2>1
        <3> QED
            BY <1>2, <3>1, <3>2, Leaving
    <2>3. DOMAIN observers' = 1 .. Len(observers) - 1
        BY <2>2, LenProperties
    <2> DEFINE from(j) == IF j < i THEN j ELSE j + 1
    <2>4. \A j \in DOMAIN observers' : /\ from(j) \in DOMAIN observers /\ from(j) # i
                                       /\ observers'[j] = observers[from(j)]
                                       /\ observers[from(j)] # o
        <3>1. ASSUME NEW j \in DOMAIN observers'
              PROVE  /\ from(j) \in DOMAIN observers /\ from(j) # i
                     /\ observers'[j] = observers[from(j)]
            BY <2>2, <2>3, Known
        <3> QED
            BY <2>1, <3>1, Known
    <2>5. \A j, k \in DOMAIN observers' : j < k => from(j) < from(k)
        BY <2>3, Known
    <2>6. \A m \in DOMAIN observers : m # i => \E j \in DOMAIN observers' : from(j) = m
        <3>1. ASSUME NEW m \in DOMAIN observers, m # i
              PROVE  \E j \in DOMAIN observers' : from(j) = m
            <4>1. CASE m < i
                <5>1. m \in DOMAIN observers' /\ from(m) = m
                    BY <2>3, <4>1, Known
                <5> QED
                    BY <5>1
            <4>2. CASE ~(m < i)
                <5>1. m - 1 \in DOMAIN observers' /\ from(m - 1) = m
                    BY <2>3, <3>1, <4>2, Known
                <5> QED
                    BY <5>1
            <4> QED
                BY <4>1, <4>2
        <3> QED
            BY <3>1
    <2> HIDE DEF from
    <2>7. Subscribed'
        <3>1. ASSUME NEW p \in KitchenObservers
              PROVE  since'[p] # 0 <=> \E k \in DOMAIN observers' : observers'[k] = p
            <4>1. CASE p = o
                BY <1>3, <2>4, <4>1
            <4>2. CASE p # o
                <5>1. since'[p] # 0 <=> \E m \in DOMAIN observers : observers[m] = p
                    BY <1>3, <4>2 DEF PublisherInv, Subscribed
                <5>2. ASSUME NEW m \in DOMAIN observers, observers[m] = p
                      PROVE  \E k \in DOMAIN observers' : observers'[k] = p
                    BY <2>1, <2>4, <2>6, <4>2, <5>2
                <5>3. ASSUME NEW k \in DOMAIN observers', observers'[k] = p
                      PROVE  \E m \in DOMAIN observers : observers[m] = p
                    BY <2>4, <5>3
                <5> QED
                    BY <5>1, <5>2, <5>3
            <4> QED
                BY <4>1, <4>2
        <3> QED
            BY <3>1 DEF Subscribed
    <2>8. InOrder'
        <3>1. ASSUME NEW j \in DOMAIN observers', NEW k \in DOMAIN observers', j < k
              PROVE  since'[observers'[j]] < since'[observers'[k]]
            <4>1. since[observers[from(j)]] < since[observers[from(k)]]
                BY <2>4, <2>5, <3>1 DEF PublisherInv, InOrder
            <4>2. /\ since'[observers'[j]] = since[observers[from(j)]]
                  /\ since'[observers'[k]] = since[observers[from(k)]]
                BY <1>3, <2>4, Known
            <4> QED
                BY <4>1, <4>2
        <3> QED
            BY <3>1 DEF InOrder
    <2> QED
        BY <1>1, <1>2, <1>3, <1>4, <2>2, <2>7, <2>8 DEF PublisherInv, Types
<1>6. CASE ~\E i \in DOMAIN observers : observers[i] = o
    <2>1. observers' = observers
        BY <1>1, <1>6, Known, Zenon DEF RemoveFirst
    <2>2. since[o] = 0
        BY <1>6 DEF PublisherInv, Subscribed
    <2>3. \A p \in KitchenObservers : since'[p] = since[p]
        BY <1>3, <2>2
    <2>4. Subscribed' /\ InOrder'
        BY <2>1, <2>3, Known DEF PublisherInv, Subscribed, InOrder
    <2> QED
        BY <1>1, <1>2, <1>3, <1>4, <2>1, <2>4 DEF PublisherInv, Types
<1> QED
    BY <1>5, <1>6

\* What one call more, or none, adds to what an observer has heard.
LEMMA Hearing ==
    ASSUME NEW s \in Seq(Nat), NEW d \in Nat
    PROVE  /\ s \o [k \in 1 .. 0 |-> d] = s
           /\ s \o [k \in 1 .. 1 |-> d] = Append(s, d)
           /\ Append(s, d) \in Seq(Nat)
<1>1. [k \in 1 .. 0 |-> d] = <<>>
    OBVIOUS
<1>2. [k \in 1 .. 1 |-> d] = <<d>>
    OBVIOUS
<1>3. s \o <<d>> = Append(s, d)
    <2>1. /\ s \o <<d>> \in Seq(Nat) /\ Len(s \o <<d>>) = Len(s) + 1
          /\ \A j \in 1 .. Len(s) + 1 :
                 (s \o <<d>>)[j] = IF j <= Len(s) THEN s[j] ELSE <<d>>[j - Len(s)]
        BY ConcatProperties
    <2>2. /\ Append(s, d) \in Seq(Nat) /\ Len(Append(s, d)) = Len(s) + 1
          /\ Append(s, d)[Len(s) + 1] = d
          /\ \A j \in 1 .. Len(s) : Append(s, d)[j] = s[j]
        BY AppendProperties
    <2>3. Len(s) \in Nat
        BY LenProperties
    <2>4. \A j \in 1 .. Len(s) + 1 : (s \o <<d>>)[j] = Append(s, d)[j]
        BY <2>1, <2>2, <2>3
    <2> QED
        BY <2>1, <2>2, <2>4, SeqEqual
<1> QED
    BY <1>1, <1>2, <1>3, ConcatEmptySeq, AppendProperties

LEMMA Notifying == ASSUME PublisherInv, NotifyDishCompleted PROVE PublisherInv'
<1>1. /\ dishes' = dishes + 1 /\ UNCHANGED <<observers, calls, since>>
      /\ heard' = [o \in KitchenObservers |->
                      heard[o] \o [k \in 1 .. Cardinality(Hears(o)) |-> dishes + 1]]
      /\ owed' = [o \in KitchenObservers |->
                     IF since[o] = 0 THEN owed[o] ELSE Append(owed[o], dishes + 1)]
    BY DEF NotifyDishCompleted
<1>2. heard \in [KitchenObservers -> Seq(Nat)] /\ dishes + 1 \in Nat /\ heard = owed
    BY DEF PublisherInv, Types, HearsEachDishOnce
<1>3. ASSUME NEW o \in KitchenObservers
      PROVE  /\ heard[o] \o [k \in 1 .. Cardinality(Hears(o)) |-> dishes + 1]
                   = IF since[o] = 0 THEN owed[o] ELSE Append(owed[o], dishes + 1)
             /\ heard[o] \o [k \in 1 .. Cardinality(Hears(o)) |-> dishes + 1] \in Seq(Nat)
    <2>1. heard[o] \in Seq(Nat)
        BY <1>2
    <2>2. CASE since[o] = 0
        <3>1. Hears(o) = {}
            BY <2>2 DEF Hears, PublisherInv, Subscribed
        <3>2. Cardinality(Hears(o)) = 0
            BY <3>1, FS_EmptySet
        <3> QED
            BY <1>2, <2>1, <2>2, <3>2, Hearing
    <2>3. CASE since[o] # 0
        <3>1. PICK i \in DOMAIN observers : observers[i] = o
            BY <2>3 DEF PublisherInv, Subscribed
        <3>2. Hears(o) = {i}
            BY <3>1, Known DEF Hears
        <3>3. Cardinality(Hears(o)) = 1
            BY <3>2, FS_Singleton
        <3> QED
            BY <1>2, <2>1, <2>3, <3>3, Hearing
    <2> QED
        BY <2>2, <2>3
<1>4. heard' = owed'
    BY <1>1, <1>3, Zenon
<1>5. heard' \in [KitchenObservers -> Seq(Nat)]
    BY <1>1, <1>3
<1>6. dishes' \in Nat
    BY <1>1, <1>2
<1> QED
    BY <1>1, <1>4, <1>5, <1>6
    DEF PublisherInv, Types, Subscribed, InOrder, HearsEachDishOnce

LEMMA PublisherInvariant == Spec => []PublisherInv
<1>1. Init => PublisherInv
    <2> SUFFICES ASSUME Init PROVE PublisherInv
        OBVIOUS
    <2>1. DOMAIN observers = {} /\ observers \in Seq(KitchenObservers)
        BY EmptySeq DEF Init
    <2>2. Types
        BY <2>1, EmptySeq DEF Init, Types
    <2> QED
        BY <2>1, <2>2 DEF Init, PublisherInv, Subscribed, InOrder, HearsEachDishOnce
<1>2. PublisherInv /\ [Next]_vars => PublisherInv'
    <2> SUFFICES ASSUME PublisherInv, [Next]_vars PROVE PublisherInv'
        OBVIOUS
    <2>1. CASE UNCHANGED vars
        BY <2>1 DEF vars, history, PublisherInv, Types, Subscribed, InOrder, HearsEachDishOnce
    <2> QED
        BY <2>1, Registering, Removing, Notifying DEF Next
<1> QED
    BY <1>1, <1>2, PTL DEF Spec

\* However often observers register and leave (registerObserver, removeObserver), each hears
\* of every dish completed while it was subscribed, once, and of no other.
THEOREM EachHearsOnce == Spec => []HearsEachDishOnce
<1>1. PublisherInv => HearsEachDishOnce
    BY DEF PublisherInv
<1> QED
    BY <1>1, PublisherInvariant, PTL

\* notifyDishCompleted goes through the observers in the order in which they subscribed:
\* who reads what an earlier one has set may rely on it.
THEOREM InTheirTurn == Spec => []NotifiedInTurn
<1>1. PublisherInv => NotifiedInTurn
    <2> SUFFICES ASSUME PublisherInv, NEW j \in DOMAIN observers, NEW k \in DOMAIN observers,
                        j < k
                 PROVE  since[observers[j]] <= since[observers[k]]
        BY DEF NotifiedInTurn
    <2>1. since[observers[j]] < since[observers[k]]
        BY DEF PublisherInv, InOrder
    <2> QED
        BY <2>1, Known
<1> QED
    BY <1>1, PublisherInvariant, PTL

================================================================================
