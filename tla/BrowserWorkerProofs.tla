-------------------------- MODULE BrowserWorkerProofs --------------------------
(***************************************************************************)
(* Proofs about BrowserWorker, for any number of requests, tasks, tabs and *)
(* slots, and for every scenario.                                          *)
(***************************************************************************)
EXTENDS BrowserWorker, FiniteSetTheorems, SequenceTheorems, TLAPS

-----------------------------------------------------------------------------
(***************************************************************************)
(* Sequences                                                               *)
(***************************************************************************)
\* A set of natural numbers that is not empty has a least element, which Min chooses.
LEMMA MinIs ==
    ASSUME NEW I \in SUBSET Nat, I # {}
    PROVE  Min(I) \in I /\ \A i \in I : Min(I) <= i
    <1> DEFINE R == OpToRel(<, Nat)
    <1>1. IsWellFoundedOn(R, Nat)
        BY NatLessThanWellFounded
    <1>2. \A x, y \in Nat : y < x => <<y, x>> \in R
        BY DEF OpToRel
    <1> HIDE DEF R
    <1>3. \E x \in I : \A y \in I : ~(<<y, x>> \in R)
        BY <1>1, WFMin
    <1>4. \E x \in I : \A y \in I : x <= y
        <2>1. PICK x \in I : \A y \in I : ~(<<y, x>> \in R)
            BY <1>3
        <2>2. \A y \in I : ~(y < x)
            BY <1>2, <2>1
        <2>3. \A y \in I : x <= y
            BY <2>2
        <2> QED
            BY <2>3
    <1> QED
        BY <1>4 DEF Min

\* What RemoveFirst returns, position by position (splice of the queue's waiters).
LEMMA RemoveFirstIs ==
    ASSUME NEW S, NEW s \in Seq(S), NEW e
    PROVE  \/ /\ \A i \in 1..Len(s) : s[i] # e
              /\ RemoveFirst(s, e) = s
           \/ \E m \in 1..Len(s) :
                 /\ s[m] = e
                 /\ RemoveFirst(s, e) \in Seq(S)
                 /\ Len(RemoveFirst(s, e)) = Len(s) - 1
                 /\ \A i \in 1..(Len(s) - 1) : RemoveFirst(s, e)[i] = IF i < m THEN s[i] ELSE s[i + 1]
    <1>1. CASE \A i \in 1..Len(s) : s[i] # e
        BY <1>1 DEF RemoveFirst
    <1>2. CASE \E i \in 1..Len(s) : s[i] = e
        <2> DEFINE I == {i \in 1..Len(s) : s[i] = e}
                   m == Min(I)
        <2>1. I \in SUBSET Nat /\ I # {}
            BY <1>2
        <2>2. m \in I
            BY <2>1, MinIs
        <2>3. RemoveFirst(s, e) = RemoveAt(s, m)
            BY <1>2, <2>1 DEF RemoveFirst, SelectInSeq
        <2>4. m \in 1..Len(s) /\ s[m] = e
            BY <2>2
        <2> HIDE DEF m, I
        <2>5. RemoveAt(s, m) = SubSeq(s, 1, m - 1) \o SubSeq(s, m + 1, Len(s))
            BY DEF RemoveAt
        <2>6. /\ RemoveAt(s, m) \in Seq(S)
              /\ Len(RemoveAt(s, m)) = Len(s) - 1
              /\ \A i \in 1..(Len(s) - 1) : RemoveAt(s, m)[i] = IF i < m THEN s[i] ELSE s[i + 1]
            <3> DEFINE a == SubSeq(s, 1, m - 1)
                       b == SubSeq(s, m + 1, Len(s))
            <3>0. Len(s) \in Nat /\ \A i \in 1..Len(s) : s[i] \in S
                BY LenProperties
            <3>1. /\ a \in Seq(S) /\ Len(a) = m - 1
                  /\ \A i \in 1..(m - 1) : a[i] = s[i]
                BY <3>0, <2>4, SubSeqProperties
            <3>2. /\ b \in Seq(S) /\ Len(b) = Len(s) - m
                  /\ \A i \in 1..(Len(s) - m) : b[i] = s[m + i]
                <4>1. \A i \in (m + 1)..Len(s) : s[i] \in S
                    BY <3>0, <2>4
                <4>2. /\ b \in Seq(S)
                      /\ Len(b) = IF m + 1 <= Len(s) THEN Len(s) - (m + 1) + 1 ELSE 0
                      /\ \A i \in 1..(Len(s) - (m + 1) + 1) : b[i] = s[(m + 1) + i - 1]
                    BY <3>0, <4>1, <2>4, SubSeqProperties
                <4> QED
                    BY <3>0, <4>2, <2>4
            <3> HIDE DEF a, b
            <3>3. /\ a \o b \in Seq(S) /\ Len(a \o b) = Len(s) - 1
                  /\ \A i \in 1..(Len(s) - 1) : (a \o b)[i] = IF i <= m - 1 THEN a[i] ELSE b[i - (m - 1)]
                <4>1. Len(a) + Len(b) = Len(s) - 1
                    BY <3>0, <3>1, <3>2, <2>4
                <4>2. /\ a \o b \in Seq(S) /\ Len(a \o b) = Len(a) + Len(b)
                      /\ \A i \in 1..(Len(a) + Len(b)) :
                            (a \o b)[i] = IF i <= Len(a) THEN a[i] ELSE b[i - Len(a)]
                    BY <3>1, <3>2, ConcatProperties
                <4> QED
                    BY <3>1, <4>1, <4>2
            <3>4. \A i \in 1..(Len(s) - 1) : (a \o b)[i] = IF i < m THEN s[i] ELSE s[i + 1]
                <4> TAKE i \in 1..(Len(s) - 1)
                <4>1. CASE i < m
                    BY <4>1, <3>0, <3>1, <3>3, <2>4
                <4>2. CASE ~(i < m)
                    <5>1. i - (m - 1) \in 1..(Len(s) - m) /\ m + (i - (m - 1)) = i + 1
                        BY <4>2, <3>0, <2>4
                    <5> QED
                        BY <4>2, <5>1, <3>0, <3>2, <3>3, <2>4
                <4> QED
                    BY <4>1, <4>2
            <3> QED
                BY <2>5, <3>3, <3>4 DEF a, b
        <2> QED
            BY <2>3, <2>4, <2>6
    <1> QED
        BY <1>1, <1>2

\* An element that is not removed is still there, and at the head if it was.
LEMMA RemoveFirstKeeps ==
    ASSUME NEW S, NEW s \in Seq(S), NEW e
    PROVE  /\ RemoveFirst(s, e) \in Seq(S)
           /\ \A i \in 1..Len(s) : s[i] # e =>
                 \E j \in 1..Len(RemoveFirst(s, e)) : RemoveFirst(s, e)[j] = s[i]
           /\ s # <<>> /\ Head(s) # e => RemoveFirst(s, e) # <<>> /\ Head(RemoveFirst(s, e)) = Head(s)
    <1> DEFINE t == RemoveFirst(s, e)
    <1>0. Len(s) \in Nat
        BY LenProperties
    <1>1. CASE t = s
        BY <1>1
    <1>2. CASE \E m \in 1..Len(s) :
                 /\ s[m] = e
                 /\ t \in Seq(S)
                 /\ Len(t) = Len(s) - 1
                 /\ \A i \in 1..(Len(s) - 1) : t[i] = IF i < m THEN s[i] ELSE s[i + 1]
        <2>1. PICK m \in 1..Len(s) :
                 /\ s[m] = e
                 /\ t \in Seq(S)
                 /\ Len(t) = Len(s) - 1
                 /\ \A i \in 1..(Len(s) - 1) : t[i] = IF i < m THEN s[i] ELSE s[i + 1]
            BY <1>2
        <2> HIDE DEF t
        <2>2. ASSUME NEW i \in 1..Len(s), s[i] # e
              PROVE  \E j \in 1..Len(t) : t[j] = s[i]
            <3>1. CASE i < m
                <4>1. i \in 1..Len(t) /\ t[i] = s[i]
                    BY <3>1, <2>1, <1>0
                <4> QED
                    BY <4>1
            <3>2. CASE i > m
                <4>1. i - 1 \in 1..Len(t) /\ t[i - 1] = s[i]
                    BY <3>2, <2>1, <1>0
                <4> QED
                    BY <4>1
            <3> QED
                BY <2>1, <2>2, <3>1, <3>2
        <2>3. ASSUME s # <<>>, Head(s) # e
              PROVE  t # <<>> /\ Head(t) = Head(s)
            <3>1. Head(s) = s[1] /\ m # 1
                BY <2>1, <2>3
            <3>2. 1 \in 1..Len(t) /\ t[1] = s[1]
                BY <3>1, <2>1, <1>0
            <3>3. t # <<>>
                BY <3>2, EmptySeq
            <3> QED
                BY <3>1, <3>2, <3>3, <2>1
        <2> QED
            BY <2>1, <2>2, <2>3 DEF t
    <1> QED
        BY <1>1, <1>2, RemoveFirstIs

\* No two positions hold the same element.
Distinct(s) == \A i, j \in 1..Len(s) : s[i] = s[j] => i = j

\* What is removed from a sequence without repetitions is gone, and nothing is new.
LEMMA RemoveFirstDistinct ==
    ASSUME NEW S, NEW s \in Seq(S), NEW e, Distinct(s)
    PROVE  /\ Distinct(RemoveFirst(s, e))
           /\ \A j \in 1..Len(RemoveFirst(s, e)) :
                 /\ RemoveFirst(s, e)[j] # e
                 /\ \E i \in 1..Len(s) : RemoveFirst(s, e)[j] = s[i]
    <1> DEFINE t == RemoveFirst(s, e)
    <1>0. Len(s) \in Nat
        BY LenProperties
    <1>1. CASE (\A i \in 1..Len(s) : s[i] # e) /\ t = s
        BY <1>1
    <1>2. CASE \E m \in 1..Len(s) :
                 /\ s[m] = e
                 /\ t \in Seq(S)
                 /\ Len(t) = Len(s) - 1
                 /\ \A i \in 1..(Len(s) - 1) : t[i] = IF i < m THEN s[i] ELSE s[i + 1]
        <2>1. PICK m \in 1..Len(s) :
                 /\ s[m] = e
                 /\ Len(t) = Len(s) - 1
                 /\ \A i \in 1..(Len(s) - 1) : t[i] = IF i < m THEN s[i] ELSE s[i + 1]
            BY <1>2
        <2> HIDE DEF t
        <2> DEFINE from(i) == IF i < m THEN i ELSE i + 1
        <2>2. \A i \in 1..Len(t) : from(i) \in 1..Len(s) /\ from(i) # m /\ t[i] = s[from(i)]
            BY <1>0, <2>1
        <2>3. \A i, j \in 1..Len(t) : from(i) = from(j) => i = j
            BY <1>0, <2>1
        <2> HIDE DEF from
        <2>4. Distinct(t)
            BY <2>2, <2>3 DEF Distinct
        <2>5. \A j \in 1..Len(t) : t[j] # e /\ \E i \in 1..Len(s) : t[j] = s[i]
            BY <2>1, <2>2 DEF Distinct
        <2> QED
            BY <2>4, <2>5 DEF t
    <1> QED
        BY <1>1, <1>2, RemoveFirstIs

-----------------------------------------------------------------------------
(***************************************************************************)
(* The queue                                                               *)
(***************************************************************************)
Key(r) == operationQueueKey(r)
Inside == {r \in Requests : place[r] = "in"}

\* What the clients ask is fixed, and well formed.
AskedInv ==
    /\ DOMAIN req \subseteq Requests
    /\ \A r \in DOMAIN req : Asked(req[r])

\* A request that is in the queue is in the line of its key, and ahead of everybody else once its
\* turn has come.
InLine ==
    \A r \in Requests :
        /\ place[r] # "out" => r \in DOMAIN req /\ \E i \in 1..Len(line[Key(r)]) : line[Key(r)][i] = r
        /\ place[r] \in {"slot", "woken", "in"} => line[Key(r)] # <<>> /\ Head(line[Key(r)]) = r

\* Those who wait for a slot are known, each once.
WaitersExact ==
    /\ Distinct(waiters)
    /\ \A i \in 1..Len(waiters) : place[waiters[i]] = "slot"

\* The slots that are taken are those of the requests that are in.
SlotsCounted ==
    /\ IsFiniteSet(Inside)
    /\ active = Cardinality(Inside)
    /\ active <= MaxConcurrency

QueueInv == QueueTypeOK /\ AskedInv /\ InLine /\ WaitersExact /\ SlotsCounted

\* The queue key of an operation is a key.
LEMMA KeyIsAKey ==
    ASSUME AskedInv, NEW r \in DOMAIN req
    PROVE  Key(r) \in Keys
    BY KeysAssumption DEF AskedInv, Asked, Key, operationQueueKey

\* Two requests that are in have two keys: each is the first of its line.
LEMMA QueueSerializes ==
    ASSUME QueueInv
    PROVE  OneAtATime
    <1>1. ASSUME NEW r \in Requests, NEW s \in Requests, place[r] = "in", place[s] = "in", Key(r) = Key(s)
          PROVE  r = s
        BY <1>1 DEF QueueInv, InLine
    <1> QED
        BY <1>1 DEF QueueInv, SlotsCounted, Inside, OneAtATime, Key

\* Joining a line puts nobody else back (BrowserOperationQueue.run).
LEMMA JoinKeeps ==
    ASSUME QueueInv, req' = req, NEW r \in DOMAIN req, place[r] = "out", Join(r, Key(r))
    PROVE  QueueInv'
    <1> USE DEF QueueInv
    <1> DEFINE k == Key(r)
    <1>0. r \in Requests /\ k \in Keys
        BY KeyIsAKey DEF AskedInv
    <1>1. \A s : Key(s)' = Key(s)
        BY DEF Key, operationQueueKey
    <1> HIDE DEF k
    <1>2. /\ line' = [line EXCEPT ![k] = Append(line[k], r)]
          /\ place' = [place EXCEPT ![r] = "turn"]
          /\ waiters' = waiters /\ active' = active
        BY DEF Join, k
    <1>3. QueueTypeOK'
        BY <1>0, <1>2 DEF QueueTypeOK, Places
    <1>4. AskedInv'
        BY DEF AskedInv, Asked
    <1>5. /\ line'[k] = Append(line[k], r) /\ Len(line'[k]) = Len(line[k]) + 1
          /\ line'[k][Len(line[k]) + 1] = r /\ Len(line[k]) \in Nat
          /\ \A i \in 1..Len(line[k]) : line'[k][i] = line[k][i]
        <2>1. line[k] \in Seq(Requests)
            BY <1>0 DEF QueueTypeOK
        <2> QED
            BY <1>0, <1>2, <2>1, AppendProperties, LenProperties DEF QueueTypeOK
    <1>6. InLine'
        <2> SUFFICES ASSUME NEW s \in Requests
                     PROVE  /\ place'[s] # "out" =>
                                  s \in DOMAIN req /\ \E i \in 1..Len(line'[Key(s)]) : line'[Key(s)][i] = s
                            /\ place'[s] \in {"slot", "woken", "in"} =>
                                  line'[Key(s)] # <<>> /\ Head(line'[Key(s)]) = s
            BY <1>1 DEF InLine
        <2>1. CASE s = r
            <3>1. Key(s) = k /\ place'[s] = "turn"
                BY <2>1, <1>0, <1>2 DEF k, QueueTypeOK
            <3>2. Len(line[k]) + 1 \in 1..Len(line'[k])
                BY <1>5
            <3> QED
                BY <2>1, <3>1, <3>2, <1>5
        <2>2. CASE s # r /\ Key(s) = k
            <3>1. place'[s] = place[s]
                BY <2>2, <1>2 DEF QueueTypeOK
            <3>2. ASSUME place[s] # "out"
                  PROVE  s \in DOMAIN req /\ \E i \in 1..Len(line'[k]) : line'[k][i] = s
                BY <2>2, <3>2, <1>5 DEF InLine
            <3>3. ASSUME place[s] \in {"slot", "woken", "in"}
                  PROVE  line'[k] # <<>> /\ Head(line'[k]) = s
                <4>1. line[k] # <<>> /\ Head(line[k]) = s
                    BY <2>2, <3>3 DEF InLine
                <4> QED
                    BY <4>1, <1>0, <1>5, AppendProperties DEF QueueTypeOK
            <3> QED
                BY <2>2, <3>1, <3>2, <3>3
        <2>3. CASE Key(s) # k
            <3>1. place'[s] = place[s]
                BY <2>3, <1>2 DEF QueueTypeOK, k
            <3>2. place[s] # "out" => line'[Key(s)] = line[Key(s)]
                BY <2>3, <1>0, <1>2, KeyIsAKey DEF QueueTypeOK, InLine
            <3> QED
                BY <3>1, <3>2 DEF InLine
        <2> QED
            BY <2>1, <2>2, <2>3
    <1>7. WaitersExact'
        BY <1>0, <1>2 DEF WaitersExact, QueueTypeOK, Distinct
    <1>8. SlotsCounted'
        <2>1. Inside' = Inside
            BY <1>0, <1>2 DEF Inside, QueueTypeOK
        <2> QED
            BY <2>1, <1>2 DEF SlotsCounted
    <1> QED
        BY <1>3, <1>4, <1>6, <1>7, <1>8

\* A request whose turn has come takes a slot, or waits for one (acquireSlot).
LEMMA TakeSlotKeeps ==
    ASSUME QueueInv, req' = req, NEW r \in Requests, place[r] \in {"turn", "woken"},
           line[Key(r)] # <<>>, Head(line[Key(r)]) = r, TakeSlot(r)
    PROVE  QueueInv'
    <1> USE DEF QueueInv
    <1>1. \A s : Key(s)' = Key(s)
        BY DEF Key, operationQueueKey
    <1>2. line' = line
        BY DEF TakeSlot
    <1>3. PICK p \in {"in", "slot"} : place' = [place EXCEPT ![r] = p]
        BY DEF TakeSlot
    <1>4. QueueTypeOK'
        <2>1. place' \in [Requests -> Places]
            BY <1>3 DEF QueueTypeOK, Places
        <2>2. active' \in Nat
            BY DEF TakeSlot, QueueTypeOK
        <2>3. waiters' \in Seq(Requests)
            BY AppendProperties DEF TakeSlot, QueueTypeOK
        <2> QED
            BY <1>2, <2>1, <2>2, <2>3 DEF QueueTypeOK
    <1>5. AskedInv'
        BY DEF AskedInv, Asked
    <1>6. InLine'
        BY <1>1, <1>2, <1>3 DEF InLine, QueueTypeOK
    <1>7. WaitersExact'
        <2>0. \A i \in 1..Len(waiters) : waiters[i] # r
            BY DEF WaitersExact
        <2>1. CASE waiters' = waiters
            BY <2>0, <2>1, <1>3 DEF WaitersExact, QueueTypeOK, Distinct
        <2>2. CASE waiters' = Append(waiters, r) /\ place' = [place EXCEPT ![r] = "slot"]
            <3>1. /\ Len(waiters) \in Nat /\ Len(waiters') = Len(waiters) + 1
                  /\ waiters'[Len(waiters) + 1] = r
                  /\ \A i \in 1..Len(waiters) : waiters'[i] = waiters[i] /\ waiters[i] \in Requests
                BY <2>2, AppendProperties, LenProperties DEF QueueTypeOK
            <3>2. Distinct(waiters)'
                BY <2>0, <3>1 DEF WaitersExact, Distinct
            <3>3. \A i \in 1..Len(waiters') : place'[waiters'[i]] = "slot"
                BY <2>0, <2>2, <3>1 DEF WaitersExact, QueueTypeOK
            <3> QED
                BY <3>2, <3>3 DEF WaitersExact
        <2> QED
            BY <2>1, <2>2 DEF TakeSlot
    <1>8. SlotsCounted'
        <2>0. r \notin Inside
            BY DEF Inside
        <2>1. CASE active < MaxConcurrency
            <3>1. active' = active + 1 /\ place' = [place EXCEPT ![r] = "in"]
                BY <2>1 DEF TakeSlot
            <3>2. Inside' = Inside \cup {r}
                BY <3>1 DEF Inside, QueueTypeOK
            <3>3. IsFiniteSet(Inside \cup {r}) /\ Cardinality(Inside \cup {r}) = Cardinality(Inside) + 1
                BY <2>0, FS_AddElement DEF SlotsCounted
            <3> QED
                BY <2>1, <3>1, <3>2, <3>3, ConcurrencyAssumption DEF SlotsCounted, QueueTypeOK
        <2>2. CASE ~(active < MaxConcurrency)
            <3>1. active' = active /\ place' = [place EXCEPT ![r] = "slot"]
                BY <2>2 DEF TakeSlot
            <3>2. Inside' = Inside
                BY <2>0, <3>1 DEF Inside, QueueTypeOK
            <3> QED
                BY <3>1, <3>2 DEF SlotsCounted
        <2> QED
            BY <2>1, <2>2
    <1> QED
        BY <1>4, <1>5, <1>6, <1>7, <1>8

\* What a line loses when the turn of r is over or given up, it loses of r alone.
LEMMA LineWithout ==
    ASSUME QueueInv, NEW r \in DOMAIN req, req' = req,
           line' = [line EXCEPT ![Key(r)] = RemoveFirst(@, r)],
           \A s \in Requests : s # r => (place'[s] = place[s] \/ (place[s] = "slot" /\ place'[s] = "woken")),
           place'[r] = "out"
    PROVE  line' \in [Keys -> Seq(Requests)] /\ InLine'
    <1> USE DEF QueueInv
    <1> DEFINE k == Key(r)
    <1>0. r \in Requests /\ k \in Keys
        BY KeyIsAKey DEF AskedInv
    <1>1. \A s : Key(s)' = Key(s)
        BY DEF Key, operationQueueKey
    <1>2. line[k] \in Seq(Requests)
        BY <1>0 DEF QueueTypeOK
    <1>3. line' = [line EXCEPT ![k] = RemoveFirst(line[k], r)]
        OBVIOUS
    <1> HIDE DEF k
    <1> DEFINE s1 == line[k]
               s2 == RemoveFirst(s1, r)
    <1>4. /\ s2 \in Seq(Requests)
          /\ \A i \in 1..Len(s1) : s1[i] # r => \E j \in 1..Len(s2) : s2[j] = s1[i]
          /\ s1 # <<>> /\ Head(s1) # r => s2 # <<>> /\ Head(s2) = Head(s1)
        BY <1>2, RemoveFirstKeeps
    <1>5. line'[k] = s2
        BY <1>0, <1>3 DEF QueueTypeOK
    <1> HIDE DEF s2
    <1>6. line' \in [Keys -> Seq(Requests)]
        BY <1>0, <1>3, <1>4 DEF QueueTypeOK, s2
    <1>7. ASSUME NEW s \in Requests
          PROVE  /\ place'[s] # "out" =>
                        s \in DOMAIN req /\ \E i \in 1..Len(line'[Key(s)]) : line'[Key(s)][i] = s
                 /\ place'[s] \in {"slot", "woken", "in"} =>
                        line'[Key(s)] # <<>> /\ Head(line'[Key(s)]) = s
        <2>1. CASE s = r
            BY <2>1
        <2>2. CASE s # r /\ place[s] = "out"
            BY <2>2
        <2>3. CASE s # r /\ place[s] # "out" /\ Key(s) = k
            <3>1. s \in DOMAIN req /\ \E i \in 1..Len(s1) : s1[i] = s
                BY <2>3 DEF InLine
            <3>2. \E j \in 1..Len(s2) : s2[j] = s
                BY <2>3, <3>1, <1>4
            <3>3. place'[s] \in {"slot", "woken", "in"} => s1 # <<>> /\ Head(s1) = s
                BY <2>3 DEF InLine
            <3> QED
                BY <2>3, <3>1, <3>2, <3>3, <1>4, <1>5
        <2>4. CASE s # r /\ place[s] # "out" /\ Key(s) # k
            <3>1. line'[Key(s)] = line[Key(s)]
                BY <2>4, <1>3, KeyIsAKey DEF QueueTypeOK, InLine
            <3> QED
                BY <2>4, <3>1 DEF InLine
        <2> QED
            BY <2>1, <2>2, <2>3, <2>4
    <1>8. InLine'
        BY <1>1, <1>7 DEF InLine
    <1> QED
        BY <1>6, <1>8

\* A request that waits gives up (the catch of run).
LEMMA GiveUpKeeps ==
    ASSUME QueueInv, req' = req, NEW r \in Requests, place[r] \in {"turn", "slot", "woken"},
           GiveUp(r, Key(r))
    PROVE  QueueInv'
    <1> USE DEF QueueInv
    <1>0. r \in DOMAIN req
        BY DEF InLine
    <1>1. /\ line' = [line EXCEPT ![Key(r)] = RemoveFirst(@, r)]
          /\ place' = [place EXCEPT ![r] = "out"]
          /\ waiters' = RemoveFirst(waiters, r) /\ active' = active
        BY DEF GiveUp
    <1>2. /\ place'[r] = "out"
          /\ \A s \in Requests : s # r => (place'[s] = place[s] \/ (place[s] = "slot" /\ place'[s] = "woken"))
        BY <1>1 DEF QueueTypeOK
    <1>3. line' \in [Keys -> Seq(Requests)] /\ InLine'
        BY <1>0, <1>1, <1>2, LineWithout
    <1>4. waiters \in Seq(Requests) /\ Distinct(waiters)
        BY DEF QueueTypeOK, WaitersExact
    <1>5. /\ waiters' \in Seq(Requests) /\ Distinct(waiters')
          /\ \A j \in 1..Len(waiters') : waiters'[j] # r /\ \E i \in 1..Len(waiters) : waiters'[j] = waiters[i]
        BY <1>1, <1>4, RemoveFirstKeeps, RemoveFirstDistinct
    <1>6. QueueTypeOK'
        BY <1>1, <1>3, <1>5 DEF QueueTypeOK, Places
    <1>7. AskedInv'
        BY DEF AskedInv, Asked
    <1>8. WaitersExact'
        <2>1. \A j \in 1..Len(waiters') : place'[waiters'[j]] = "slot"
            BY <1>1, <1>4, <1>5 DEF WaitersExact, QueueTypeOK
        <2> QED
            BY <1>5, <2>1 DEF WaitersExact, Distinct
    <1>9. SlotsCounted'
        <2>1. Inside' = Inside
            BY <1>1 DEF Inside, QueueTypeOK
        <2> QED
            BY <2>1, <1>1 DEF SlotsCounted
    <1> QED
        BY <1>3, <1>6, <1>7, <1>8, <1>9

\* The end of an operation gives back one slot, and wakes one that waits for it.
LEMMA ReleaseKeeps ==
    ASSUME QueueInv, req' = req, NEW r \in Requests, place[r] = "in", Release(r, Key(r))
    PROVE  QueueInv'
    <1> USE DEF QueueInv
    <1>0. r \in DOMAIN req
        BY DEF InLine
    <1>1. /\ line' = [line EXCEPT ![Key(r)] = RemoveFirst(@, r)]
          /\ place' = [q \in Requests |->
                          IF q = r THEN "out"
                          ELSE IF waiters # <<>> /\ q = Head(waiters) THEN "woken" ELSE place[q]]
          /\ waiters' = (IF waiters = <<>> THEN <<>> ELSE Tail(waiters))
          /\ active' = active - 1
        BY DEF Release
    <1>2. waiters \in Seq(Requests) /\ Len(waiters) \in Nat
        BY LenProperties DEF QueueTypeOK
    <1>3. waiters # <<>> =>
             /\ Head(waiters) \in Requests /\ place[Head(waiters)] = "slot" /\ Head(waiters) = waiters[1]
             /\ Tail(waiters) \in Seq(Requests) /\ Len(Tail(waiters)) = Len(waiters) - 1
             /\ \A i \in 1..(Len(waiters) - 1) : Tail(waiters)[i] = waiters[i + 1]
             /\ Len(waiters) > 0
        <2>1. waiters # <<>> =>
                 /\ Head(waiters) = waiters[1] /\ Len(waiters) > 0
                 /\ Tail(waiters) \in Seq(Requests) /\ Len(Tail(waiters)) = Len(waiters) - 1
                 /\ \A i \in 1..(Len(waiters) - 1) : Tail(waiters)[i] = waiters[i + 1]
            BY <1>2
        <2>2. waiters # <<>> => Head(waiters) \in Requests /\ place[Head(waiters)] = "slot"
            BY <1>2, <2>1 DEF WaitersExact
        <2> QED
            BY <2>1, <2>2
    <1>4. /\ place'[r] = "out"
          /\ \A s \in Requests : s # r => (place'[s] = place[s] \/ (place[s] = "slot" /\ place'[s] = "woken"))
        BY <1>1, <1>3
    <1>5. line' \in [Keys -> Seq(Requests)] /\ InLine'
        BY <1>0, <1>1, <1>4, LineWithout
    <1>6. IsFiniteSet(Inside') /\ Cardinality(Inside') = Cardinality(Inside) - 1 /\ active' \in Nat
        <2>1. r \in Inside /\ Inside' = Inside \ {r}
            BY <1>1, <1>3 DEF Inside, QueueTypeOK
        <2>2. IsFiniteSet(Inside \ {r}) /\ Cardinality(Inside \ {r}) = Cardinality(Inside) - 1
            BY <2>1, FS_RemoveElement DEF SlotsCounted
        <2>3. Cardinality(Inside \ {r}) \in Nat
            BY <2>2, FS_CardinalityType
        <2> QED
            BY <2>1, <2>2, <2>3, <1>1 DEF SlotsCounted
    <1>7. QueueTypeOK'
        BY <1>1, <1>2, <1>3, <1>5, <1>6 DEF QueueTypeOK, Places
    <1>8. AskedInv'
        BY DEF AskedInv, Asked
    <1>9. WaitersExact'
        <2>1. CASE waiters = <<>>
            BY <2>1, <1>1 DEF WaitersExact, Distinct
        <2>2. CASE waiters # <<>>
            <3>1. Len(waiters') = Len(waiters) - 1 /\ \A i \in 1..Len(waiters') : waiters'[i] = waiters[i + 1]
                BY <2>2, <1>1, <1>2, <1>3
            <3>2. Distinct(waiters)'
                BY <3>1, <1>2 DEF WaitersExact, Distinct
            <3>3. \A i \in 1..Len(waiters') : place'[waiters'[i]] = "slot"
                <4> TAKE i \in 1..Len(waiters')
                <4>1. i + 1 \in 1..Len(waiters) /\ 1 \in 1..Len(waiters) /\ i + 1 # 1
                    BY <2>2, <3>1, <1>2, <1>3
                <4>2. waiters[i + 1] # Head(waiters) /\ place[waiters[i + 1]] = "slot" /\ waiters[i + 1] \in Requests
                    BY <2>2, <4>1, <1>2, <1>3 DEF WaitersExact, Distinct
                <4> QED
                    BY <3>1, <4>2, <1>1
            <3> QED
                BY <3>2, <3>3 DEF WaitersExact
        <2> QED
            BY <2>1, <2>2
    <1>10. SlotsCounted'
        BY <1>1, <1>6, ConcurrencyAssumption DEF SlotsCounted, QueueTypeOK
    <1> QED
        BY <1>5, <1>7, <1>8, <1>9, <1>10

-----------------------------------------------------------------------------
(***************************************************************************)
(* The inductive invariant                                                 *)
(***************************************************************************)
\* The fields of what the runtime keeps.
RunShape ==
    /\ DOMAIN run = Requests
    /\ \A r \in Requests : DOMAIN run[r] = {"at", "task", "held", "tab", "mode", "idx", "mark", "out"}
TaskShape ==
    /\ DOMAIN task = Tasks
    /\ \A k \in Tasks : DOMAIN task[k] = {"state", "owner", "tabs", "leases", "idle"}
TabShape ==
    /\ DOMAIN tab = Tabs
    /\ \A t \in Tabs : DOMAIN tab[t] = {"reg", "of", "site", "keep", "page"}
FinShape ==
    /\ DOMAIN fin = Finalizers
    /\ \A a \in Finalizers :
          DOMAIN fin[a] = {"pc", "task", "all", "todo", "tab", "idx", "cands", "changed"}
PermShape == DOMAIN perm = {"conf", "asks", "grants", "recording"}
Shapes == RunShape /\ TaskShape /\ TabShape /\ FinShape /\ PermShape

\* The leases an operation holds while it runs: one of the task of its tab, or those that it
\* has taken and not yet given back.
HeldAt(op, at) ==
    IF OnATab(op) THEN 1
    ELSE IF op = "openAuthorizedSite"
    THEN IF at \in 2..12 THEN 2 ELSE IF at \in 13..14 THEN 1 ELSE 0
    ELSE IF op \in {"connect", "tabs", "open"} /\ at \in 2..Len(execute[op]) THEN 1 ELSE 0

\* An operation runs between its slot and its end, and only when its request leads.
RunsInside ==
    \A r \in Requests :
        /\ run[r].at \in Nat /\ run[r].held \in 0..2
        /\ run[r].at = 0 => run[r].held = 0
        /\ run[r].held > 0 => run[r].task \in Tasks /\ place[r] = "in"
        /\ Running(r) => place[r] = "in" /\ run[r].held = HeldAt(req[r].op, run[r].at)

\* The request that answers another one has arrived.
Leaders ==
    /\ DOMAIN leader = Requests
    /\ \A e \in entries : e \in Requests /\ leader[e] = e
    /\ \A r \in Requests :
          /\ leader[r] = r => r \in DOMAIN req
          /\ leader[r] # r => place[r] = "out" /\ run[r].at = 0 /\ run[r].out = None

\* The registry of calls forgets only what has ended.
Remembered ==
    \A r \in Requests : leader[r] = r /\ Keyed(r) /\ ~Settled(r) => r \in entries

\* The leases that the operations hold in task k.
Tokens(k) == {h \in Requests \X {1, 2} : run[h[1]].task = k /\ h[2] <= run[h[1]].held}

LeasesCounted ==
    \A k \in Tasks :
        /\ task[k].leases \in Nat
        /\ IsFiniteSet(Tokens(k)) /\ task[k].leases = Cardinality(Tokens(k))
        /\ task[k].state \in {"none", "finished", "expired"} => task[k].leases = 0

\* The lifecycle lock has one holder, and the task it finalizes is its own.
Finalizing(a) == fin[a].pc \in {"drain", "close", "closing"}
OneFinalizer ==
    /\ \A a, b \in Finalizers :
          fin[a].pc \notin {"idle", "wait"} /\ fin[b].pc \notin {"idle", "wait"} => a = b
    /\ \A a \in Finalizers :
          /\ Finalizing(a) => fin[a].task \in Tasks /\ task[fin[a].task].state = "finishing"
          /\ fin[a].pc \in {"close", "closing"} => task[fin[a].task].leases = 0
          /\ \A c \in fin[a].cands : c.task \in Tasks
    /\ \A r \in Requests : fin[r].pc # "idle" => At(r, "finish")

\* A request that is past its confirmation.
Spent(r) ==
    /\ r \in DOMAIN req /\ req[r].risky
    /\ \E i \in 1..(run[r].at - 1) : i \in 1..Len(Program(r)) /\ Program(r)[i] = "confirm"

\* A pending confirmation was answered to a request that has ended, and is for what that asked.
Pending ==
    /\ \A c \in perm.conf : /\ c.id \in DOMAIN req /\ run[c.id].out # None
                            /\ c.tab = req[c.id].tab /\ c.deed = req[c.id].deed
    /\ \A c, d \in perm.conf : c.id = d.id => c = d

\* A confirmation that was spent is gone, and was spent by one request.
SpentOnce ==
    /\ \A r \in Requests : Spent(r) =>
          /\ req[r].conf \in DOMAIN req /\ run[req[r].conf].out # None
          /\ req[req[r].conf].tab = req[r].tab /\ req[req[r].conf].deed = req[r].deed
          /\ \A c \in perm.conf : c.id # req[r].conf
          /\ \A s \in Requests : Spent(s) /\ req[s].conf = req[r].conf => s = r
    /\ \A a \in acts : a.risky =>
          /\ a.by \in Requests /\ Spent(a.by)
          /\ a.conf = req[a.by].conf /\ a.want = req[a.by].tab

ConfInv == Pending /\ SpentOnce

-----------------------------------------------------------------------------
(***************************************************************************)
(* The catalog of operations                                               *)
(***************************************************************************)
\* The steps of an operation on a tab, and of the others.
TapeSteps == {"record", "roll", "halt", "cut", "unmark"}
TabSteps == {"owned", "closable", "unlocked", "navigable", "policy", "target", "select", "reach", "grant",
             "connect", "confirm", "act", "visit", "read", "save", "close", "drop"} \cup TapeSteps
OpenSteps == {"enter", "admit", "connect", "target", "reconcile", "pick", "grant", "save", "visit", "attach",
              "read", "leave", "login", "finish"}

\* An operation on a tab consists of the steps of TabSteps.
LEMMA TabPrograms ==
    ASSUME NEW op \in Operations, OnATab(op)
    PROVE  Len(execute[op]) \in Nat /\ \A i \in 1..Len(execute[op]) : execute[op][i] \in TabSteps
    <1> USE DEF TabSteps, TapeSteps
    <1>1. CASE op = "navigate"
        BY <1>1 DEF execute, navigate
    <1>2. CASE op = "snapshot"
        BY <1>2 DEF execute, snapshot
    <1>3. CASE op = "click"
        BY <1>3 DEF execute, click
    <1>4. CASE op = "fill"
        BY <1>4 DEF execute, fill
    <1>5. CASE op = "press"
        BY <1>5 DEF execute, press
    <1>6. CASE op = "wait"
        BY <1>6 DEF execute, wait
    <1>7. CASE op = "extract"
        BY <1>7 DEF execute, extract
    <1>8. CASE op = "sequence"
        BY <1>8 DEF execute, sequence
    <1>9. CASE op = "frameExtract"
        BY <1>9 DEF execute, frameExtract
    <1>10. CASE op = "frameClick"
        BY <1>10 DEF execute, frameClick
    <1>11. CASE op = "frameFill"
        BY <1>11 DEF execute, frameFill
    <1>12. CASE op = "profilePage"
        BY <1>12 DEF execute, profilePage
    <1>13. CASE op = "domIndex"
        BY <1>13 DEF execute, domIndex
    <1>14. CASE op = "frameSequence"
        BY <1>14 DEF execute, frameSequence
    <1>15. CASE op = "navigatePath"
        BY <1>15 DEF execute, navigatePath
    <1>16. CASE op = "screenshot"
        BY <1>16 DEF execute, screenshot
    <1>17. CASE op = "goBack"
        BY <1>17 DEF execute, goBack
    <1>18. CASE op = "goForward"
        BY <1>18 DEF execute, goForward
    <1>19. CASE op = "closeTab"
        BY <1>19 DEF execute, closeTab
    <1>20. CASE op = "download"
        BY <1>20 DEF execute, download
    <1>21. CASE op = "upload"
        BY <1>21 DEF execute, upload
    <1>22. CASE op = "console"
        BY <1>22 DEF execute, console
    <1>23. CASE op = "networkList"
        BY <1>23 DEF execute, networkList
    <1>24. CASE op = "networkInspect"
        BY <1>24 DEF execute, networkInspect
    <1>25. CASE op = "traceStart"
        BY <1>25 DEF execute, traceStart
    <1>26. CASE op = "traceStop"
        BY <1>26 DEF execute, traceStop
    <1>27. CASE op = "videoStart"
        BY <1>27 DEF execute, videoStart
    <1>28. CASE op = "videoStop"
        BY <1>28 DEF execute, videoStop
    <1>29. CASE op = "pdf"
        BY <1>29 DEF execute, pdf
    <1>30. CASE op = "diagnostics"
        BY <1>30 DEF execute, diagnostics
    <1> QED
        BY <1>1, <1>2, <1>3, <1>4, <1>5, <1>6, <1>7, <1>8, <1>9, <1>10, <1>11, <1>12, <1>13, <1>14, <1>15,
           <1>16, <1>17, <1>18, <1>19, <1>20, <1>21, <1>22, <1>23, <1>24, <1>25, <1>26, <1>27, <1>28, <1>29, <1>30
        DEF Operations, OnATab, execute

\* Where an operation that names no tab takes and gives back its leases.
OpenProgram(op) ==
    /\ Len(execute[op]) \in Nat
    /\ \A i \in 1..Len(execute[op]) :
          /\ execute[op][i] \in OpenSteps
          /\ execute[op][i] \in {"enter", "admit", "finish"} => i = 1
          /\ execute[op][i] = "enter" => op \in {"connect", "tabs", "open"} /\ Len(execute[op]) > 1
          /\ execute[op][i] = "admit" => op = "openAuthorizedSite"
          /\ execute[op][i] = "leave" => HeldAt(op, i) = HeldAt(op, i + 1) + 1
          /\ execute[op][i] \notin {"enter", "admit", "leave", "finish"} =>
                HeldAt(op, i) = HeldAt(op, i + 1) /\ HeldAt(op, i) > 0
          /\ execute[op][i] = "finish" => op = "finishTask"
          /\ execute[op][i] = "pick" => i = 5 /\ op \in {"open", "openAuthorizedSite"}
          /\ execute[op][i] = "attach" => i = 9 /\ op \in {"open", "openAuthorizedSite"}

\* The shape of the programs that enter their task by themselves.
LEMMA OpenPrograms ==
    ASSUME NEW op \in Operations, ~OnATab(op)
    PROVE  OpenProgram(op)
    <1> USE DEF OpenProgram, OpenSteps, HeldAt, OnATab
    <1>1. CASE op = "status"
        BY <1>1 DEF execute, status
    <1>2. CASE op = "connect"
        BY <1>2 DEF execute, connect
    <1>3. CASE op = "tabs"
        BY <1>3 DEF execute, tabs
    <1>4. CASE op = "open"
        BY <1>4 DEF execute, open
    <1>5. CASE op = "openAuthorizedSite"
        BY <1>5 DEF execute, openAuthorizedSite
    <1>6. CASE op = "finishTask"
        BY <1>6 DEF execute, finishTask
    <1> QED
        BY <1>1, <1>2, <1>3, <1>4, <1>5, <1>6 DEF Operations, execute

-----------------------------------------------------------------------------
(***************************************************************************)
(* What a step of an operation does to it, and to the leases               *)
(***************************************************************************)
StepOf(r) == Program(r)[run[r].at]
Same(r) == run'[r].held = run[r].held /\ run'[r].task = run[r].task
SameStates == \A k \in Tasks : task'[k].state = task[k].state
SameLeases == \A k \in Tasks : task'[k].leases = task[k].leases
OthersRun(r) == \A s \in Requests : s # r => run'[s] = run[s]

\* The operation goes on, takes the same step again, has ended, has thrown ...
Passed(r) ==
    /\ StepOf(r) \notin {"enter", "admit", "leave", "finish"}
    /\ run'[r].at = run[r].at + 1 /\ run'[r].out = run[r].out /\ Same(r)
    /\ SameStates /\ SameLeases
Again(r) == run' = run /\ SameStates /\ SameLeases
Stopped(r) ==
    /\ run'[r].at = run[r].at /\ run'[r].out # None /\ Same(r)
    /\ SameStates /\ SameLeases
Thrown(r) ==
    /\ run'[r].at = run[r].at /\ run'[r].out # None
    /\ run'[r].held = 0 /\ run'[r].task = run[r].task
    /\ SameStates
    /\ \A k \in Tasks : task'[k].leases = IF k = run[r].task THEN task[k].leases - run[r].held
                                          ELSE task[k].leases

\* ... has entered a task with n leases, or leaves it.
Entered(r) ==
    /\ StepOf(r) \in {"enter", "admit"}
    /\ \E k \in Tasks, n \in 0..2 :
          /\ task[k].state \in {"none", "active", "suspended"}
          /\ run'[r].task = k /\ run'[r].held = n
          /\ \/ /\ run'[r].at = run[r].at + 1 /\ run'[r].out = run[r].out
                /\ n = IF StepOf(r) = "enter" THEN 1 ELSE 2
             \/ run'[r].at = run[r].at /\ run'[r].out # None /\ n = 0
          /\ \A j \in Tasks :
                /\ j # k => task'[j] = task[j]
                /\ j = k => /\ task'[j].state = "active"
                            /\ task'[j].leases = IF task[j].state = "none" THEN n ELSE task[j].leases + n
Left(r) ==
    /\ StepOf(r) = "leave"
    /\ run'[r].at = run[r].at + 1 /\ run'[r].out = run[r].out
    /\ run'[r].held = run[r].held - 1 /\ run'[r].task = run[r].task
    /\ SameStates
    /\ \A k \in Tasks : task'[k].leases = IF k = run[r].task THEN task[k].leases - 1 ELSE task[k].leases

StepEffect(r) ==
    /\ RunShape' /\ TaskShape' /\ TabShape' /\ PermShape'
    /\ OthersRun(r)
    /\ Passed(r) \/ Again(r) \/ Stopped(r) \/ Thrown(r) \/ Entered(r) \/ Left(r)

\* Going on to the next step changes nothing else of a run.
LEMMA AdvanceIs ==
    ASSUME RunShape, NEW r \in Requests, run[r].at \in Nat, Advance(r)
    PROVE  /\ RunShape' /\ OthersRun(r) /\ Same(r)
           /\ run'[r].at = run[r].at + 1 /\ run'[r].out = run[r].out
    BY DEF RunShape, OthersRun, Same, Advance

\* An operation that throws gives back its leases as it stops.
LEMMA ThrowIs ==
    ASSUME RunShape, TaskShape, RunsInside, LeasesCounted, NEW r \in Requests, NEW code \in Outcomes, NEW p,
           DOMAIN p = {"conf", "asks", "grants", "recording"}, ThrowWith(r, code, p)
    PROVE  /\ RunShape' /\ TaskShape' /\ PermShape'
           /\ OthersRun(r) /\ Thrown(r)
    <1>1. RunShape' /\ OthersRun(r) /\ run'[r].at = run[r].at /\ run'[r].out = code /\ run'[r].held = 0
             /\ run'[r].task = run[r].task
        BY DEF RunShape, OthersRun, ThrowWith
    <1>2. PermShape'
        BY DEF ThrowWith, PermShape
    <1>3. CASE run[r].held = 0
        <2>1. task' = task
            BY <1>3 DEF ThrowWith, Unleased
        <2> QED
            BY <1>1, <1>2, <1>3, <2>1, NamesAssumption DEF Thrown, SameStates, TaskShape, LeasesCounted
    <1>4. CASE run[r].held # 0
        <2>1. run[r].task \in Tasks /\ run[r].held \in Nat
            BY <1>4 DEF RunsInside
        <2>2. TaskShape' /\ SameStates
            BY <1>4, <2>1 DEF ThrowWith, Unleased, TaskShape, SameStates
        <2>3. \A k \in Tasks : task'[k].leases = IF k = run[r].task THEN task[k].leases - run[r].held
                                                 ELSE task[k].leases
            BY <1>4, <2>1 DEF ThrowWith, Unleased, TaskShape
        <2> QED
            BY <1>1, <1>2, <2>2, <2>3, NamesAssumption DEF Thrown
    <1> QED
        BY <1>3, <1>4

\* A reconnect changes neither the state nor the leases of any task.
LEMMA ReconnectIs ==
    ASSUME TaskShape, TabShape, PermShape, NEW k, Reconnect(k)
    PROVE  TaskShape' /\ TabShape' /\ PermShape' /\ SameStates /\ SameLeases
    <1>1. TaskShape' /\ SameStates /\ SameLeases
        BY DEF TaskShape, SameStates, SameLeases, Reconnect
    <1>2. TabShape'
        <2>1. DOMAIN tab' = Tabs
            BY DEF Reconnect
        <2>2. \A t \in Tabs : tab'[t] \in {BlankTab(k, t), Restored(t), tab[t]}
            BY DEF Reconnect
        <2>3. ASSUME NEW t \in Tabs
              PROVE  DOMAIN tab'[t] = {"reg", "of", "site", "keep", "page"}
            <3>1. DOMAIN BlankTab(k, t) = {"reg", "of", "site", "keep", "page"}
                BY DEF BlankTab
            <3>2. DOMAIN Restored(t) = DOMAIN tab[t]
                BY DEF Restored
            <3> QED
                BY <2>2, <3>1, <3>2 DEF TabShape
        <2> QED
            BY <2>1, <2>3 DEF TabShape
    <1>3. PermShape'
        BY DEF PermShape, Reconnect, Unconfirmed
    <1> QED
        BY <1>1, <1>2, <1>3

\* Taking tabs from their tasks changes neither states nor leases.
LEMMA DetachedIs ==
    ASSUME TaskShape, NEW ts, task' = Detached(ts)
    PROVE  TaskShape' /\ SameStates /\ SameLeases
    <1>1. DOMAIN task' = Tasks
        BY DEF Detached
    <1>2. ASSUME NEW k \in Tasks
          PROVE  /\ DOMAIN task'[k] = {"state", "owner", "tabs", "leases", "idle"}
                 /\ task'[k].state = task[k].state /\ task'[k].leases = task[k].leases
        <2>1. task'[k] \in {task[k], WithoutTabs(k, ts)}
            BY DEF Detached
        <2>2. /\ DOMAIN WithoutTabs(k, ts) = {"state", "owner", "tabs", "leases", "idle"}
              /\ WithoutTabs(k, ts).state = task[k].state /\ WithoutTabs(k, ts).leases = task[k].leases
            BY DEF WithoutTabs, TaskShape
        <2> QED
            BY <2>1, <2>2 DEF TaskShape
    <1> QED
        BY <1>1, <1>2 DEF TaskShape, SameStates, SameLeases

\* Forgetting tabs keeps the tab registry well formed.
LEMMA ForgottenIs ==
    ASSUME TabShape, NEW ts, tab' = Forgotten(ts)
    PROVE  TabShape'
    <1>1. DOMAIN tab' = Tabs
        BY DEF Forgotten
    <1>2. \A t \in Tabs : tab'[t] \in {tab[t], Unregistered(t)}
        BY DEF Forgotten
    <1>3. \A t \in Tabs : DOMAIN Unregistered(t) = {"reg", "of", "site", "keep", "page"}
        BY DEF Unregistered, TabShape
    <1> QED
        BY <1>1, <1>2, <1>3 DEF TabShape

\* A step that passes, and one that throws.
Goes(r) == Advance(r) /\ task' = task /\ perm' = perm
Throws(r) == \E code \in Outcomes : ThrowWith(r, code, perm)

\* A step that goes on without touching states and leases has the effect StepEffect allows.
LEMMA PassIs ==
    ASSUME Shapes, RunsInside, NEW r \in Requests, Advance(r),
           TaskShape', TabShape', PermShape', SameStates, SameLeases,
           StepOf(r) \notin {"enter", "admit", "leave", "finish"}
    PROVE  StepEffect(r)
    <1>1. /\ RunShape' /\ OthersRun(r) /\ Same(r)
          /\ run'[r].at = run[r].at + 1 /\ run'[r].out = run[r].out
        BY AdvanceIs DEF Shapes, RunsInside
    <1> QED
        BY <1>1 DEF StepEffect, Passed

\* So has one that goes on or throws.
LEMMA SimpleIs ==
    ASSUME Shapes, RunsInside, LeasesCounted, NEW r \in Requests, Goes(r) \/ Throws(r), TabShape',
           StepOf(r) \notin {"enter", "admit", "leave", "finish"}
    PROVE  StepEffect(r)
    <1>1. CASE Goes(r)
        <2>1. TaskShape' /\ PermShape' /\ SameStates /\ SameLeases /\ Advance(r)
            BY <1>1 DEF Goes, Shapes, TaskShape, PermShape, SameStates, SameLeases
        <2> QED
            BY <2>1, PassIs
    <1>2. CASE Throws(r)
        <2>1. PICK code \in Outcomes : ThrowWith(r, code, perm)
            BY <1>2 DEF Throws
        <2>2. RunShape' /\ TaskShape' /\ PermShape' /\ OthersRun(r) /\ Thrown(r)
            BY <2>1, ThrowIs DEF Shapes, PermShape
        <2> QED
            BY <2>2 DEF StepEffect
    <1> QED
        BY <1>1, <1>2

\* The codes that a step throws.
LEMMA ThrowsOutcome ==
    ASSUME NEW r, NEW code \in Outcomes, Throw(r, code)
    PROVE  Throws(r)
    BY DEF Throws, Throw

\* The checks of an operation go on or throw.
LEMMA ChecksAreSimple ==
    ASSUME NEW r \in Requests, Target(r) \/ Save(r) \/ Read(r)
    PROVE  (Goes(r) \/ Throws(r)) /\ tab' = tab /\ StepOf(r) \in {"target", "save", "read"}
    <1>1. tab' = tab /\ StepOf(r) \in {"target", "save", "read"}
        BY DEF Target, Save, Read, Check, At, StepOf
    <1>2. Goes(r) \/ Throw(r, "SITE_ACCESS_AUTHORIZATION_REQUIRED") \/ Throw(r, "TAB_NOT_OWNED")
             \/ Throw(r, "BROWSER_DISCONNECTED")
        BY DEF Target, Save, Read, Check, Goes
    <1> QED
        BY <1>1, <1>2, ThrowsOutcome DEF Outcomes

\* So do the steps that wait for the driver.
LEMMA DriverStepsAreSimple ==
    ASSUME Shapes, NEW r \in Requests,
           SelectTab(r) \/ GrantPage(r) \/ Act(r) \/ Visit(r) \/ Login(r) \/ Close(r)
    PROVE  (Goes(r) \/ Throws(r)) /\ TabShape' /\ StepOf(r) \in {"select", "grant", "act", "visit", "login", "close"}
    <1>1. StepOf(r) \in {"select", "grant", "act", "visit", "login", "close"}
        BY DEF SelectTab, GrantPage, Act, Visit, Login, Close, At, StepOf
    <1>2. CASE SelectTab(r)
        <2>1. tab' = tab
            BY <1>2 DEF SelectTab, Select, Turned
        <2>2. Goes(r) \/ Throw(r, "SITE_ACCESS_AUTHORIZATION_REQUIRED") \/ Throw(r, "STALE_TAB_ID")
                 \/ Throw(r, "BROWSER_DISCONNECTED")
            BY <1>2 DEF SelectTab, Select, Turned, Goes
        <2> QED
            BY <1>1, <2>1, <2>2, ThrowsOutcome DEF Outcomes, Shapes, TabShape
    <1>3. CASE GrantPage(r) \/ Login(r) \/ Close(r)
        <2>1. tab' = tab
            BY <1>3 DEF GrantPage, Login, Close
        <2>2. Goes(r) \/ Throw(r, "TAB_NOT_FOUND") \/ Throw(r, "BROWSER_DISCONNECTED")
            BY <1>3 DEF GrantPage, Login, Close, Goes
        <2> QED
            BY <1>1, <2>1, <2>2, ThrowsOutcome DEF Outcomes, Shapes, TabShape
    <1>4. ASSUME NEW page, NEW site, ActOn(r, page, site)
          PROVE  (Goes(r) \/ Throws(r)) /\ TabShape'
        <2>1. Goes(r) \/ Throw(r, "TAB_NOT_OWNED")
            BY <1>4 DEF ActOn, Goes
        <2>2. tab' = tab \/ tab' = [tab EXCEPT ![Tab(r)].site = site]
            BY <1>4 DEF ActOn
        <2>3. TabShape'
            BY <2>2 DEF Shapes, TabShape
        <2> QED
            BY <2>1, <2>3, ThrowsOutcome DEF Outcomes
    <1>5. CASE Act(r)
        <2>1. \/ Throw(r, "BROWSER_DISCONNECTED") /\ tab' = tab
              \/ ActOn(r, drv.current, None)
            BY <1>5 DEF Act
        <2> QED
            BY <1>1, <1>4, <2>1, ThrowsOutcome DEF Outcomes, Shapes, TabShape
    <1>6. CASE Visit(r)
        <2> DEFINE page == IF run[r].mode = "new" /\ req[r].site # "private" THEN Tab(r) ELSE drv.current
        <2>1. \/ Goes(r) /\ tab' = tab
              \/ Throw(r, "NAVIGATION_BLOCKED") /\ tab' = tab
              \/ ActOn(r, page, req[r].site)
            BY <1>6 DEF Visit, Goes
        <2> QED
            BY <1>1, <1>4, <2>1, ThrowsOutcome DEF Outcomes, Shapes, TabShape
    <1> QED
        BY <1>2, <1>3, <1>5, <1>6

\* Connecting and reaching the private site.
LEMMA ConnectingSteps ==
    ASSUME Shapes, RunsInside, LeasesCounted, NEW r \in Requests, Connect(r) \/ Reach(r)
    PROVE  StepEffect(r)
    <1>0. StepOf(r) \in {"connect", "reach"}
        BY DEF Connect, Reach, At, StepOf
    <1>1. \/ Goes(r) /\ tab' = tab
          \/ Throws(r) /\ tab' = tab
          \/ ReconnectFails(r)
          \/ Reconnect(TaskOf(r)) /\ Advance(r)
          \/ Reconnect(TaskOf(r)) /\ run' = run
          \/ /\ run' = [run EXCEPT ![r].at = @ + 1, ![r].idx = IndexOf(tab[Tab(r)].page)]
             /\ task' = task /\ tab' = tab /\ perm' = perm
        <2>1. CASE Connect(r)
            BY <2>1 DEF Connect, Goes
        <2>2. CASE Reach(r)
            <3>1. \/ Throw(r, "STALE_TAB_ID") /\ tab' = tab
                  \/ ReconnectFails(r)
                  \/ Reconnect(TaskOf(r)) /\ run' = run
                  \/ /\ run' = [run EXCEPT ![r].at = @ + 1, ![r].idx = IndexOf(tab[Tab(r)].page)]
                     /\ task' = task /\ tab' = tab /\ perm' = perm
                BY <2>2 DEF Reach, Turned
            <3> QED
                BY <3>1, ThrowsOutcome DEF Outcomes
        <2> QED
            BY <2>1, <2>2
    <1>2. CASE (Goes(r) \/ Throws(r)) /\ tab' = tab
        BY <1>0, <1>2, SimpleIs DEF Shapes, TabShape
    <1>3. CASE ReconnectFails(r)
        <2>1. ThrowWith(r, "BROWSER_CONTEXT_RECOVERY_FAILED", Unconfirmed) /\ tab' = tab
            BY <1>3 DEF ReconnectFails
        <2>2. DOMAIN Unconfirmed = {"conf", "asks", "grants", "recording"}
            BY DEF Unconfirmed, Shapes, PermShape
        <2>3. "BROWSER_CONTEXT_RECOVERY_FAILED" \in Outcomes
            BY DEF Outcomes
        <2>4. RunShape' /\ TaskShape' /\ PermShape' /\ OthersRun(r) /\ Thrown(r)
            BY <2>1, <2>2, <2>3, ThrowIs DEF Shapes
        <2> QED
            BY <2>1, <2>4 DEF StepEffect, Shapes, TabShape
    <1>4. CASE Reconnect(TaskOf(r)) /\ (Advance(r) \/ run' = run)
        <2>1. TaskShape' /\ TabShape' /\ PermShape' /\ SameStates /\ SameLeases
            BY <1>4, ReconnectIs DEF Shapes
        <2>2. CASE Advance(r)
            BY <1>0, <2>1, <2>2, PassIs
        <2>3. CASE run' = run
            BY <2>1, <2>3 DEF StepEffect, Again, OthersRun, Shapes, RunShape
        <2> QED
            BY <1>4, <2>2, <2>3
    <1>5. CASE /\ run' = [run EXCEPT ![r].at = @ + 1, ![r].idx = IndexOf(tab[Tab(r)].page)]
               /\ task' = task /\ tab' = tab /\ perm' = perm
        <2>1. RunShape' /\ OthersRun(r) /\ Same(r) /\ run'[r].at = run[r].at + 1 /\ run'[r].out = run[r].out
            BY <1>5 DEF RunsInside, Shapes, RunShape, OthersRun, Same
        <2> QED
            BY <1>0, <1>5, <2>1 DEF StepEffect, Passed, SameStates, SameLeases, Shapes, TaskShape, TabShape, PermShape
    <1> QED
        BY <1>1, <1>2, <1>3, <1>4, <1>5

\* Reconciling the tabs, and dropping one.
LEMMA ForgettingSteps ==
    ASSUME Shapes, RunsInside, NEW r \in Requests, Reconcile(r) \/ Drop(r)
    PROVE  StepEffect(r)
    <1>0. StepOf(r) \in {"reconcile", "drop"} /\ Advance(r)
        BY DEF Reconcile, Drop, At, StepOf
    <1>1. perm' = perm /\ \E ts \in {Lost, {Tab(r)}} : tab' = Forgotten(ts) /\ task' = Detached(ts)
        BY DEF Reconcile, Drop
    <1>2. TaskShape' /\ TabShape' /\ PermShape' /\ SameStates /\ SameLeases
        BY <1>1, DetachedIs, ForgottenIs DEF Shapes, PermShape
    <1> QED
        BY <1>0, <1>2, PassIs

\* The steps that start or stop a recording.
Tapes(r) == Record(r) \/ Roll(r) \/ Halt(r) \/ Cut(r) \/ Unmark(r)

\* Permissions p are those that are there, without some marks of recordings.
Unmarks(p) ==
    /\ DOMAIN p = {"conf", "asks", "grants", "recording"}
    /\ p.conf = perm.conf /\ p.asks = perm.asks /\ p.grants = perm.grants
    /\ p.recording \subseteq perm.recording
ThrowsUnmarked(r) == \E code \in Outcomes : \E p : Unmarks(p) /\ ThrowWith(r, code, p)

\* A start of a recording that passes marks its task.
Marks(r) == At(r, "record") /\ perm' = [perm EXCEPT !.recording = @ \cup TabMarks(r)]

\* An operation that goes on, and may note its mark.
Notes(r) == Advance(r) \/ \E m : run' = [run EXCEPT ![r].at = @ + 1, ![r].mark = m]

\* A start that fails takes only marks away.
LEMMA UnrecordedIs ==
    ASSUME PermShape, NEW r
    PROVE  Unmarks(perm) /\ Unmarks(Unrecorded(r))
    BY DEF Unmarks, Unrecorded, PermShape

\* A step of a recording goes on, with a mark more or less, or throws with marks less.
LEMMA TapeIs ==
    ASSUME PermShape, NEW r, Tapes(r)
    PROVE  /\ req' = req /\ tab' = tab /\ fin' = fin /\ acts' = acts
           /\ \E s \in TapeSteps : At(r, s)
           /\ \/ task' = task /\ Notes(r) /\ (Unmarks(perm') \/ Marks(r))
              \/ ThrowsUnmarked(r)
    <1>1. ASSUME NEW code \in Outcomes, Throw(r, code)
          PROVE  ThrowsUnmarked(r)
        BY <1>1, UnrecordedIs DEF Throw, ThrowsUnmarked
    <1>2. "INVALID_ARGUMENT" \in Outcomes /\ "BROWSER_DISCONNECTED" \in Outcomes
        BY DEF Outcomes
    <1>3. Unmarks([perm EXCEPT !.recording = @ \ TabMarks(r)])
        BY DEF Unmarks, PermShape
    <1>4. Unmarks(perm) /\ Unmarks(Unrecorded(r))
        BY UnrecordedIs
    <1>5. CASE Record(r)
        BY <1>2, <1>3, <1>5 DEF Record, Notes, Marks, ThrowsUnmarked, TapeSteps
    <1>6. CASE Roll(r)
        BY <1>2, <1>4, <1>6 DEF Roll, Notes, ThrowsUnmarked, TapeSteps
    <1>7. CASE Halt(r)
        BY <1>1, <1>2, <1>4, <1>7 DEF Halt, Notes, TapeSteps
    <1>8. CASE Cut(r)
        BY <1>1, <1>2, <1>4, <1>8 DEF Cut, Notes, TapeSteps
    <1>9. CASE Unmark(r)
        BY <1>3, <1>9 DEF Unmark, Notes, TapeSteps
    <1> QED
        BY <1>5, <1>6, <1>7, <1>8, <1>9 DEF Tapes

\* So it has the effect StepEffect allows.
LEMMA RecordingSteps ==
    ASSUME Shapes, RunsInside, LeasesCounted, NEW r \in Requests, Tapes(r)
    PROVE  StepEffect(r)
    <1>0. PermShape /\ RunShape /\ TaskShape /\ TabShape
        BY DEF Shapes
    <1>1. tab' = tab /\ StepOf(r) \notin {"enter", "admit", "leave", "finish"}
        <2>1. PICK s \in TapeSteps : At(r, s)
            BY <1>0, TapeIs
        <2> QED
            BY <1>0, <2>1, TapeIs DEF At, StepOf, TapeSteps
    <1>2. CASE task' = task /\ Notes(r) /\ (Unmarks(perm') \/ Marks(r))
        <2>1. PermShape'
            BY <1>0, <1>2 DEF Unmarks, Marks, PermShape
        <2>2. RunShape' /\ OthersRun(r) /\ Same(r) /\ run'[r].at = run[r].at + 1 /\ run'[r].out = run[r].out
            BY <1>0, <1>2 DEF Notes, Advance, RunsInside, RunShape, OthersRun, Same
        <2> QED
            BY <1>0, <1>1, <1>2, <2>1, <2>2 DEF StepEffect, Passed, SameStates, SameLeases, TaskShape, TabShape
    <1>3. CASE ThrowsUnmarked(r)
        <2>1. PICK code \in Outcomes : \E p : Unmarks(p) /\ ThrowWith(r, code, p)
            BY <1>3 DEF ThrowsUnmarked
        <2>2. PICK p : Unmarks(p) /\ ThrowWith(r, code, p)
            BY <2>1
        <2>3. RunShape' /\ TaskShape' /\ PermShape' /\ OthersRun(r) /\ Thrown(r)
            BY <1>0, <2>2, ThrowIs DEF Unmarks
        <2> QED
            BY <1>0, <1>1, <2>3 DEF StepEffect, TabShape
    <1> QED
        BY <1>0, <1>2, <1>3, TapeIs

\* Asking for, or spending, a confirmation.
LEMMA ConfirmingStep ==
    ASSUME Shapes, RunsInside, LeasesCounted, NEW r \in Requests, Confirm(r)
    PROVE  StepEffect(r)
    <1>0. StepOf(r) = "confirm" /\ tab' = tab
        BY DEF Confirm, At, StepOf
    <1>1. \/ Goes(r)
          \/ Throw(r, "BROWSER_CONFIRMATION_INVALID")
          \/ run' = [run EXCEPT ![r].out = "ACTION_REQUIRES_CONFIRMATION"] /\ task' = task /\ PermShape'
          \/ Advance(r) /\ task' = task /\ PermShape'
        BY DEF Confirm, Goes, Shapes, PermShape
    <1>2. CASE Goes(r) \/ Throw(r, "BROWSER_CONFIRMATION_INVALID")
        BY <1>0, <1>2, SimpleIs, ThrowsOutcome DEF Outcomes, Shapes, TabShape
    <1>3. CASE run' = [run EXCEPT ![r].out = "ACTION_REQUIRES_CONFIRMATION"] /\ task' = task /\ PermShape'
        <2>1. "ACTION_REQUIRES_CONFIRMATION" # None
            BY NamesAssumption DEF Outcomes
        <2>2. RunShape' /\ OthersRun(r) /\ Same(r) /\ run'[r].at = run[r].at /\ run'[r].out # None
            BY <1>3, <2>1 DEF Shapes, RunShape, OthersRun, Same
        <2> QED
            BY <1>0, <1>3, <2>2 DEF StepEffect, Stopped, SameStates, SameLeases, Shapes, TaskShape, TabShape
    <1>4. CASE Advance(r) /\ task' = task /\ PermShape'
        <2>1. TaskShape' /\ TabShape' /\ SameStates /\ SameLeases
            BY <1>0, <1>4 DEF Shapes, TaskShape, TabShape, SameStates, SameLeases
        <2> QED
            BY <1>0, <1>4, <2>1, PassIs
    <1> QED
        BY <1>1, <1>2, <1>3, <1>4

\* resolveForOpen finds a task that can be used, or a new one.
LEMMA ResolveIs ==
    ASSUME AskedInv, NEW r \in DOMAIN req, resolveForOpen(r) # None
    PROVE  /\ resolveForOpen(r) \in Tasks
           /\ task[resolveForOpen(r)].state \in {"none", "active", "suspended"}
    <1> DEFINE o == req[r].owner
    <1>1. req[r].task \in Tasks \cup {None}
        BY DEF AskedInv, Asked
    <1>2. \A k \in Mine(o) : k \in Tasks /\ task[k].state \in {"none", "active", "suspended"}
        BY DEF Mine, Usable, Accessible, isAccessibleState
    <1>3. \A k \in Unused : k \in Tasks /\ task[k].state \in {"none", "active", "suspended"}
        BY DEF Unused
    <1>4. CASE req[r].task # None
        BY <1>1, <1>4 DEF resolveForOpen, Usable, Accessible, isAccessibleState
    <1>5. CASE req[r].task = None /\ Mine(o) = {}
        BY <1>3, <1>5 DEF resolveForOpen
    <1>6. CASE req[r].task = None /\ Mine(o) # {}
        BY <1>2, <1>6 DEF resolveForOpen
    <1> QED
        BY <1>4, <1>5, <1>6

\* The tasks f after task k was resolved and leased n times.
IsLeased(f, k, n) ==
    /\ DOMAIN f = Tasks
    /\ \A j \in Tasks :
          /\ DOMAIN f[j] = {"state", "owner", "tabs", "leases", "idle"}
          /\ j # k => f[j] = task[j]
          /\ j = k => /\ f[j].state = "active"
                      /\ f[j].leases = IF task[j].state = "none" THEN n ELSE task[j].leases + n

\* Taking n leases of a task changes its count by n and nothing else.
LEMMA LeasedIs ==
    ASSUME TaskShape, LeasesCounted, NEW r, NEW k \in Tasks, NEW n \in 0..2
    PROVE  IsLeased(Leased(k, r, n), k, n)
    <1> DEFINE new == Resolved(k, r)
    <1>1. /\ DOMAIN new = {"state", "owner", "tabs", "leases", "idle"}
          /\ new.state = "active"
          /\ new.leases = IF task[k].state = "none" THEN 0 ELSE task[k].leases
        BY DEF Resolved, TaskShape
    <1> HIDE DEF new
    <1>2. Leased(k, r, n) = [task EXCEPT ![k] = [new EXCEPT !.leases = @ + n]]
        BY DEF Leased, new
    <1>3. task[k].leases \in Nat
        BY DEF LeasesCounted
    <1> QED
        BY <1>1, <1>2, <1>3 DEF TaskShape, IsLeased

\* Where an operation stands in its program, and what it holds there.
LEMMA AtIs ==
    ASSUME AskedInv, RunsInside, NEW r \in DOMAIN req, NEW s, At(r, s)
    PROVE  /\ r \in Requests /\ req[r].op \in Operations /\ Running(r)
           /\ run[r].at \in 1..Len(execute[req[r].op])
           /\ execute[req[r].op][run[r].at] = s /\ StepOf(r) = s
           /\ run[r].held = HeldAt(req[r].op, run[r].at)
           /\ OnATab(req[r].op) => s \in TabSteps
           /\ ~OnATab(req[r].op) => OpenProgram(req[r].op) /\ s \in OpenSteps
    <1> DEFINE op == req[r].op
    <1>1. r \in Requests /\ op \in Operations
        BY DEF AskedInv, Asked
    <1>2. /\ run[r].at \in Nat /\ run[r].at > 0 /\ run[r].at <= Len(execute[op])
          /\ execute[op][run[r].at] = s /\ StepOf(r) = s /\ Running(r)
        BY <1>1 DEF At, Running, Program, StepOf, RunsInside
    <1>3. Len(execute[op]) \in Nat
        BY <1>1, TabPrograms, OpenPrograms DEF OpenProgram
    <1>4. run[r].held = HeldAt(op, run[r].at)
        BY <1>1, <1>2 DEF RunsInside
    <1> HIDE DEF op
    <1>5. run[r].at \in 1..Len(execute[op])
        BY <1>2, <1>3
    <1>6. OnATab(op) => s \in TabSteps
        BY <1>1, <1>2, <1>5, TabPrograms
    <1>7. ~OnATab(op) => OpenProgram(op)
        BY <1>1, OpenPrograms
    <1>8. ~OnATab(op) => s \in OpenSteps
        BY <1>2, <1>5, <1>7 DEF OpenProgram
    <1> QED
        BY <1>1, <1>2, <1>4, <1>5, <1>6, <1>7, <1>8 DEF op

\* An operation that enters its task holds no lease yet.
LEMMA EntersEmptyHanded ==
    ASSUME AskedInv, RunsInside, NEW r \in DOMAIN req, At(r, "enter") \/ At(r, "admit")
    PROVE  ~OnATab(req[r].op) /\ run[r].at = 1 /\ run[r].held = 0
    <1>1. PICK s \in {"enter", "admit"} : At(r, s)
        OBVIOUS
    <1> DEFINE op == req[r].op
    <1>2. ~OnATab(op) /\ OpenProgram(op) /\ run[r].at \in 1..Len(execute[op]) /\ execute[op][run[r].at] = s
             /\ run[r].held = HeldAt(op, run[r].at)
        BY <1>1, AtIs DEF TabSteps, TapeSteps
    <1> HIDE DEF op
    <1>3. run[r].at = 1
        BY <1>2 DEF OpenProgram
    <1>4. HeldAt(op, 1) = 0
        BY <1>2 DEF HeldAt
    <1> QED
        BY <1>2, <1>3, <1>4 DEF op

\* Entering a task takes a lease, if the task is not being finalized.
LEMMA EnteringSteps ==
    ASSUME Shapes, RunsInside, LeasesCounted, AskedInv, NEW r \in DOMAIN req, Enter(r) \/ Admit(r)
    PROVE  StepEffect(r)
    <1> DEFINE k == resolveForOpen(r)
    <1>0. StepOf(r) \in {"enter", "admit"} /\ tab' = tab /\ r \in Requests
        BY DEF Enter, Admit, At, StepOf, AskedInv
    <1>1. CASE k = None
        <2>1. Throw(r, "TASK_SCOPE_REQUIRED")
            BY <1>1 DEF Enter, Admit
        <2>2. RunShape' /\ TaskShape' /\ PermShape' /\ OthersRun(r) /\ Thrown(r)
            BY <1>0, <2>1, ThrowIs DEF Throw, Outcomes, Shapes, PermShape
        <2> QED
            BY <1>0, <2>2 DEF StepEffect, Shapes, TabShape
    <1>2. CASE k # None
        <2>1. k \in Tasks /\ task[k].state \in {"none", "active", "suspended"}
            BY <1>2, ResolveIs
        <2>2. PermShape'
            BY <1>2 DEF Enter, Admit, Shapes, PermShape
        <2>3. run[r].held = 0
            BY EntersEmptyHanded DEF Enter, Admit
        <2> HIDE DEF k
        <2>4. \E n \in 0..2 :
                 /\ RunShape' /\ OthersRun(r) /\ run'[r].task = k /\ run'[r].held = n
                 /\ \/ /\ run'[r].at = run[r].at + 1 /\ run'[r].out = run[r].out
                       /\ n = IF StepOf(r) = "enter" THEN 1 ELSE 2
                    \/ run'[r].at = run[r].at /\ run'[r].out # None /\ n = 0
                 /\ IsLeased(task', k, n)
            <3>1. CASE Enter(r)
                <4>1. task' = Leased(k, r, 1) /\ StepOf(r) = "enter"
                         /\ run' = [run EXCEPT ![r].at = @ + 1, ![r].task = k, ![r].held = 1]
                    BY <1>2, <3>1 DEF Enter, k, At, StepOf
                <4>2. RunShape' /\ OthersRun(r) /\ run'[r].task = k /\ run'[r].held = 1
                         /\ run'[r].at = run[r].at + 1 /\ run'[r].out = run[r].out
                    BY <1>0, <4>1 DEF Shapes, RunShape, OthersRun, RunsInside
                <4>3. IsLeased(task', k, 1)
                    BY <2>1, <4>1, LeasedIs DEF Shapes
                <4> WITNESS 1 \in 0..2
                <4> QED
                    BY <4>1, <4>2, <4>3
            <3>2. CASE /\ Admit(r) /\ task' = Leased(k, r, 2)
                       /\ run' = [run EXCEPT ![r].at = @ + 1, ![r].task = k, ![r].held = 2]
                <4>1. StepOf(r) = "admit"
                    BY <3>2 DEF Admit, At, StepOf
                <4>2. RunShape' /\ OthersRun(r) /\ run'[r].task = k /\ run'[r].held = 2
                         /\ run'[r].at = run[r].at + 1 /\ run'[r].out = run[r].out
                    BY <1>0, <3>2 DEF Shapes, RunShape, OthersRun, RunsInside
                <4>3. IsLeased(task', k, 2)
                    BY <2>1, <3>2, LeasedIs DEF Shapes
                <4> WITNESS 2 \in 0..2
                <4> QED
                    BY <4>1, <4>2, <4>3
            <3>3. CASE \E c \in {"confirmation_required", "SITE_ACCESS_AUTHORIZATION_REQUIRED"} :
                          /\ run' = [run EXCEPT ![r].task = k, ![r].out = c]
                          /\ task' \in {Leased(k, r, 0), [Leased(k, r, 0) EXCEPT ![k].idle = FALSE]}
                <4>1. PICK c \in {"confirmation_required", "SITE_ACCESS_AUTHORIZATION_REQUIRED"} :
                          /\ run' = [run EXCEPT ![r].task = k, ![r].out = c]
                          /\ task' \in {Leased(k, r, 0), [Leased(k, r, 0) EXCEPT ![k].idle = FALSE]}
                    BY <3>3
                <4>2. c # None
                    BY NamesAssumption DEF Outcomes
                <4>3. RunShape' /\ OthersRun(r) /\ run'[r].task = k /\ run'[r].held = 0
                         /\ run'[r].at = run[r].at /\ run'[r].out # None
                    BY <1>0, <2>3, <4>1, <4>2 DEF Shapes, RunShape, OthersRun
                <4>4. IsLeased(Leased(k, r, 0), k, 0)
                    BY <2>1, LeasedIs DEF Shapes
                <4>5. IsLeased(task', k, 0)
                    BY <2>1, <4>1, <4>4 DEF IsLeased
                <4> WITNESS 0 \in 0..2
                <4> QED
                    BY <4>3, <4>5
            <3> QED
                BY <1>2, <3>1, <3>2, <3>3 DEF Enter, Admit, k
        <2>5. TaskShape' /\ Entered(r) /\ RunShape' /\ OthersRun(r)
            BY <1>0, <2>1, <2>4 DEF Entered, IsLeased, TaskShape
        <2> QED
            BY <1>0, <2>2, <2>5 DEF StepEffect, Shapes, TabShape
    <1> QED
        BY <1>1, <1>2

\* Leaving a task gives the lease back.
LEMMA LeavingStep ==
    ASSUME Shapes, RunsInside, LeasesCounted, AskedInv, NEW r \in DOMAIN req, Leave(r)
    PROVE  StepEffect(r)
    <1>1. At(r, "leave") /\ tab' = tab /\ perm' = perm /\ task' = Unleased(run[r].task, 1)
             /\ run' = [run EXCEPT ![r].at = @ + 1, ![r].held = @ - 1]
        BY DEF Leave
    <1> DEFINE op == req[r].op
    <1>2. ~OnATab(op) /\ OpenProgram(op) /\ run[r].at \in 1..Len(execute[op]) /\ execute[op][run[r].at] = "leave"
             /\ run[r].held = HeldAt(op, run[r].at) /\ r \in Requests /\ StepOf(r) = "leave"
        BY <1>1, AtIs DEF TabSteps, TapeSteps
    <1> HIDE DEF op
    <1>3. HeldAt(op, run[r].at) = HeldAt(op, run[r].at + 1) + 1 /\ HeldAt(op, run[r].at + 1) \in Nat
        BY <1>2 DEF OpenProgram, HeldAt
    <1>4. run[r].task \in Tasks /\ run[r].at \in Nat /\ run[r].held \in Nat
        BY <1>2, <1>3 DEF RunsInside
    <1>5. RunShape' /\ OthersRun(r) /\ run'[r].task = run[r].task /\ run'[r].held = run[r].held - 1
             /\ run'[r].at = run[r].at + 1 /\ run'[r].out = run[r].out
        BY <1>1, <1>2, <1>4 DEF Shapes, RunShape, OthersRun
    <1>6. TaskShape' /\ SameStates
        BY <1>1, <1>4 DEF Unleased, Shapes, TaskShape, SameStates
    <1>7. \A k \in Tasks : task'[k].leases = IF k = run[r].task THEN task[k].leases - 1 ELSE task[k].leases
        BY <1>1, <1>4 DEF Unleased, Shapes, TaskShape
    <1> QED
        BY <1>1, <1>2, <1>5, <1>6, <1>7 DEF StepEffect, Left, Shapes, TabShape, PermShape

\* Choosing or opening a tab.
LEMMA PickingStep ==
    ASSUME Shapes, RunsInside, LeasesCounted, NEW r \in Requests, Pick(r)
    PROVE  StepEffect(r)
    <1>0. StepOf(r) = "pick"
        BY DEF Pick, At, StepOf
    <1>1. \/ Throws(r) /\ tab' = tab
          \/ \E t, m : Takes(r, t, m) /\ task' = task /\ perm' = perm
                         /\ (tab' = tab \/ tab' = [tab EXCEPT ![t].of = run[r].task])
        <2>1. CASE Reusable(r) # {}
            <3> DEFINE m == IF Exact(r) # {} THEN "keep" ELSE "reuse"
            <3>1. PICK t \in Reusable(r) : Select(r, t, Takes(r, t, m))
                BY <2>1 DEF Pick
            <3> HIDE DEF m
            <3>2. \/ Throw(r, "SITE_ACCESS_AUTHORIZATION_REQUIRED") /\ tab' = tab
                  \/ Throw(r, "BROWSER_DISCONNECTED") /\ tab' = tab
                  \/ Throw(r, "STALE_TAB_ID") /\ tab' = tab
                  \/ Takes(r, t, m) /\ task' = task /\ perm' = perm /\ tab' = tab
                BY <3>1 DEF Select, Turned
            <3> QED
                BY <3>2, ThrowsOutcome DEF Outcomes
        <2>2. CASE Reusable(r) = {}
            <3>1. \/ Throw(r, "LIMIT_EXCEEDED") /\ tab' = tab
                  \/ \E t \in NewTabs : Takes(r, t, "new") /\ task' = task /\ perm' = perm
                                           /\ tab' = [tab EXCEPT ![t].of = run[r].task]
                BY <2>2 DEF Pick
            <3> QED
                BY <3>1, ThrowsOutcome DEF Outcomes
        <2> QED
            BY <2>1, <2>2
    <1>2. CASE Throws(r) /\ tab' = tab
        BY <1>0, <1>2, SimpleIs DEF Shapes, TabShape
    <1>3. CASE \E t, m : Takes(r, t, m) /\ task' = task /\ perm' = perm
                         /\ (tab' = tab \/ tab' = [tab EXCEPT ![t].of = run[r].task])
        <2>1. PICK t, m : Takes(r, t, m) /\ task' = task /\ perm' = perm
                         /\ (tab' = tab \/ tab' = [tab EXCEPT ![t].of = run[r].task])
            BY <1>3
        <2>2. RunShape' /\ OthersRun(r) /\ Same(r) /\ run'[r].at = run[r].at + 1 /\ run'[r].out = run[r].out
            BY <2>1 DEF Takes, Shapes, RunShape, OthersRun, Same, RunsInside
        <2>3. TabShape'
            BY <2>1 DEF Shapes, TabShape
        <2> QED
            BY <1>0, <2>1, <2>2, <2>3
            DEF StepEffect, Passed, SameStates, SameLeases, Shapes, TaskShape, PermShape
    <1> QED
        BY <1>1, <1>2, <1>3

\* Giving the tab to the task, or closing it when the task is over.
LEMMA AttachingStep ==
    ASSUME Shapes, RunsInside, LeasesCounted, AskedInv, NEW r \in DOMAIN req, Attach(r)
    PROVE  StepEffect(r)
    <1> DEFINE t == Tab(r)
               k == run[r].task
    <1>0. StepOf(r) = "attach" /\ r \in Requests
        BY DEF Attach, At, StepOf, AskedInv
    <1>1. k \in Tasks
        <2>1. At(r, "attach")
            BY DEF Attach
        <2> DEFINE op == req[r].op
        <2>2. ~OnATab(op) /\ OpenProgram(op) /\ run[r].at \in 1..Len(execute[op]) /\ execute[op][run[r].at] = "attach"
             /\ run[r].held = HeldAt(op, run[r].at)
            BY <2>1, AtIs DEF TabSteps, TapeSteps
        <2> HIDE DEF op
        <2>3. HeldAt(op, run[r].at) > 0
            BY <2>2 DEF OpenProgram
        <2> QED
            BY <1>0, <2>2, <2>3 DEF RunsInside
    <1>2. \/ Throw(r, "TAB_NOT_FOUND") /\ tab' = tab
          \/ Throw(r, "TASK_SUSPENDED") /\ tab' = [tab EXCEPT ![t] = Configured(r, Bound(r))]
          \/ /\ Advance(r) /\ perm' = perm /\ tab' = [tab EXCEPT ![t] = Configured(r, Bound(r))]
             /\ task' = [task EXCEPT ![k].tabs = @ \cup {t}, ![k].idle = FALSE]
        BY DEF Attach
    <1> HIDE DEF t, k
    <1>3. TabShape'
        <2>1. \A p : DOMAIN Configured(r, p) = {"reg", "of", "site", "keep", "page"}
            BY DEF Configured
        <2>2. tab' = tab \/ tab' = [tab EXCEPT ![t] = Configured(r, Bound(r))]
            BY <1>2
        <2> QED
            BY <2>1, <2>2 DEF Shapes, TabShape
    <1>4. CASE Throw(r, "TAB_NOT_FOUND") \/ Throw(r, "TASK_SUSPENDED")
        BY <1>0, <1>3, <1>4, SimpleIs, ThrowsOutcome DEF Outcomes
    <1>5. CASE /\ Advance(r) /\ perm' = perm
               /\ task' = [task EXCEPT ![k].tabs = @ \cup {t}, ![k].idle = FALSE]
        <2>1. TaskShape' /\ SameStates /\ SameLeases
            BY <1>1, <1>5 DEF Shapes, TaskShape, SameStates, SameLeases
        <2>2. PermShape'
            BY <1>5 DEF Shapes, PermShape
        <2> QED
            BY <1>0, <1>3, <1>5, <2>1, <2>2, PassIs
    <1> QED
        BY <1>2, <1>4, <1>5

\* Every step of an operation has the effect StepEffect allows.
LEMMA StepIs ==
    ASSUME Shapes, RunsInside, LeasesCounted, AskedInv, NEW r \in DOMAIN req, Step(r)
    PROVE  StepEffect(r)
    <1>0. r \in Requests
        BY DEF AskedInv
    <1>1. CASE Target(r) \/ Save(r) \/ Read(r)
        BY <1>0, <1>1, ChecksAreSimple, SimpleIs DEF Shapes, TabShape
    <1>2. CASE SelectTab(r) \/ GrantPage(r) \/ Act(r) \/ Visit(r) \/ Login(r) \/ Close(r)
        BY <1>0, <1>2, DriverStepsAreSimple, SimpleIs
    <1>3. CASE Connect(r) \/ Reach(r)
        BY <1>0, <1>3, ConnectingSteps
    <1>4. CASE Reconcile(r) \/ Drop(r)
        BY <1>0, <1>4, ForgettingSteps
    <1>10. CASE Tapes(r)
        BY <1>0, <1>10, RecordingSteps
    <1>5. CASE Confirm(r)
        BY <1>0, <1>5, ConfirmingStep
    <1>6. CASE Enter(r) \/ Admit(r)
        BY <1>6, EnteringSteps
    <1>7. CASE Leave(r)
        BY <1>7, LeavingStep
    <1>8. CASE Pick(r)
        BY <1>0, <1>8, PickingStep
    <1>9. CASE Attach(r)
        BY <1>9, AttachingStep
    <1> QED
        BY <1>1, <1>2, <1>3, <1>4, <1>5, <1>6, <1>7, <1>8, <1>9, <1>10 DEF Step, Tapes

-----------------------------------------------------------------------------
(***************************************************************************)
(* Counting the leases                                                     *)
(***************************************************************************)
SameTokens(s) == run'[s].held = run[s].held /\ (run[s].held > 0 => run'[s].task = run[s].task)

\* The leases held for a task depend on what each run holds.
LEMMA TokensStay ==
    ASSUME RunsInside, \A s \in Requests : SameTokens(s), NEW k
    PROVE  Tokens(k)' = Tokens(k)
    BY DEF RunsInside, SameTokens, Tokens

\* An operation that holds no lease takes n leases of task k.
LEMMA TokensTaken ==
    ASSUME RunsInside, NEW r \in Requests, \A s \in Requests : s # r => SameTokens(s),
           NEW k, NEW n \in 0..2, run[r].held = 0, run'[r].held = n, run'[r].task = k,
           NEW j, IsFiniteSet(Tokens(j))
    PROVE  /\ IsFiniteSet(Tokens(j)')
           /\ Cardinality(Tokens(j)') = Cardinality(Tokens(j)) + (IF j = k THEN n ELSE 0)
    <1> DEFINE T == Tokens(j)
    <1>0. \A i \in {1, 2} : <<r, i>> \notin T /\ <<r, i>> \in Requests \X {1, 2}
        BY DEF Tokens
    <1>1. CASE j # k \/ n = 0
        <2>1. Tokens(j)' = T
            BY <1>1 DEF RunsInside, SameTokens, Tokens
        <2>2. Cardinality(T) \in Nat
            BY FS_CardinalityType
        <2> QED
            BY <1>1, <2>1, <2>2
    <1>2. CASE j = k /\ n = 1
        <2>1. Tokens(j)' = T \cup {<<r, 1>>}
            BY <1>2 DEF RunsInside, SameTokens, Tokens
        <2> HIDE DEF T
        <2>2. IsFiniteSet(T \cup {<<r, 1>>}) /\ Cardinality(T \cup {<<r, 1>>}) = Cardinality(T) + 1
            BY <1>0, FS_AddElement DEF T
        <2> QED
            BY <1>2, <2>1, <2>2 DEF T
    <1>3. CASE j = k /\ n = 2
        <2> DEFINE U == T \cup {<<r, 1>>}
        <2>1. Tokens(j)' = U \cup {<<r, 2>>}
            BY <1>3 DEF RunsInside, SameTokens, Tokens
        <2> HIDE DEF T
        <2>2. IsFiniteSet(U) /\ Cardinality(U) = Cardinality(T) + 1 /\ <<r, 2>> \notin U
            BY <1>0, FS_AddElement DEF T
        <2>3. Cardinality(T) \in Nat
            BY FS_CardinalityType DEF T
        <2> HIDE DEF U
        <2>4. IsFiniteSet(U \cup {<<r, 2>>}) /\ Cardinality(U \cup {<<r, 2>>}) = Cardinality(U) + 1
            BY <2>2, FS_AddElement
        <2> QED
            BY <1>3, <2>1, <2>2, <2>3, <2>4 DEF T
    <1> QED
        BY <1>1, <1>2, <1>3

\* An operation gives back n of its leases.
LEMMA TokensGiven ==
    ASSUME RunsInside, NEW r \in Requests, \A s \in Requests : s # r => SameTokens(s),
           NEW n \in 0..2, n <= run[r].held, run'[r].held = run[r].held - n, run'[r].task = run[r].task,
           NEW j, IsFiniteSet(Tokens(j))
    PROVE  /\ IsFiniteSet(Tokens(j)')
           /\ Cardinality(Tokens(j)') = Cardinality(Tokens(j)) - (IF j = run[r].task THEN n ELSE 0)
    <1> DEFINE T == Tokens(j)
    <1>0. run[r].held \in 0..2 /\ Cardinality(T) \in Nat
        BY FS_CardinalityType DEF RunsInside
    <1>1. CASE j # run[r].task \/ n = 0
        <2>1. Tokens(j)' = T
            BY <1>1 DEF RunsInside, SameTokens, Tokens
        <2> QED
            BY <1>0, <1>1, <2>1
    <1>2. CASE j = run[r].task /\ n = 1
        <2> DEFINE h == <<r, run[r].held>>
        <2>1. h \in T /\ Tokens(j)' = T \ {h}
            <3>1. run[r].held \in {1, 2} /\ run'[r].held = run[r].held - 1
                BY <1>0, <1>2
            <3>2. h \in T
                BY <1>2, <3>1 DEF Tokens
            <3>3. \A g \in Requests \X {1, 2} : (g[1] = r /\ g[2] = run[r].held) <=> g = h
                OBVIOUS
            <3>4. \A i \in {1, 2} : i <= run'[r].held <=> i <= run[r].held /\ i # run[r].held
                BY <3>1
            <3>5. \A g \in Requests \X {1, 2} : g \in Tokens(j)' <=> g \in T /\ g # h
                BY <1>2, <3>3, <3>4 DEF RunsInside, SameTokens, Tokens
            <3>6. Tokens(j)' \subseteq Requests \X {1, 2} /\ T \subseteq Requests \X {1, 2}
                BY DEF Tokens
            <3> HIDE DEF T, h
            <3>7. Tokens(j)' = T \ {h}
                BY <3>5, <3>6
            <3> QED
                BY <3>2, <3>7
        <2> HIDE DEF T, h
        <2>2. IsFiniteSet(T \ {h}) /\ Cardinality(T \ {h}) = Cardinality(T) - 1
            BY <2>1, FS_RemoveElement DEF T
        <2> QED
            BY <1>2, <2>1, <2>2 DEF T
    <1>3. CASE j = run[r].task /\ n = 2
        <2> DEFINE U == T \ {<<r, 1>>}
        <2>0. run[r].held = 2
            BY <1>0, <1>3
        <2>1. Tokens(j)' = U \ {<<r, 2>>} /\ <<r, 1>> \in T /\ <<r, 2>> \in U
            BY <1>3, <2>0 DEF RunsInside, SameTokens, Tokens
        <2> HIDE DEF T
        <2>2. IsFiniteSet(U) /\ Cardinality(U) = Cardinality(T) - 1
            BY <2>1, FS_RemoveElement DEF T
        <2> HIDE DEF U
        <2>3. IsFiniteSet(U \ {<<r, 2>>}) /\ Cardinality(U \ {<<r, 2>>}) = Cardinality(U) - 1
            BY <2>1, <2>2, FS_RemoveElement
        <2> QED
            BY <1>0, <1>3, <2>1, <2>2, <2>3 DEF T
    <1> QED
        BY <1>1, <1>2, <1>3

\* A step is taken where the program of the operation has it.
LEMMA StepAt ==
    ASSUME NEW r, Step(r)
    PROVE  At(r, StepOf(r)) /\ req' = req /\ fin' = fin /\ StepOf(r) # "finish"
    <1>1. ASSUME NEW s, At(r, s)
          PROVE  At(r, StepOf(r)) /\ StepOf(r) = s
        BY <1>1 DEF At, StepOf
    <1>2. CASE Target(r) \/ Save(r) \/ Read(r)
        BY <1>1, <1>2 DEF Target, Save, Read, Check
    <1>3. CASE SelectTab(r) \/ GrantPage(r) \/ Act(r) \/ Visit(r) \/ Login(r) \/ Close(r)
        BY <1>1, <1>3 DEF SelectTab, GrantPage, Act, Visit, Login, Close
    <1>4. CASE Connect(r) \/ Reach(r) \/ Reconcile(r) \/ Drop(r)
        BY <1>1, <1>4 DEF Connect, Reach, Reconcile, Drop
    <1>7. CASE Record(r) \/ Roll(r) \/ Halt(r) \/ Cut(r) \/ Unmark(r)
        BY <1>1, <1>7 DEF Record, Roll, Halt, Cut, Unmark
    <1>5. CASE Confirm(r) \/ Enter(r) \/ Admit(r) \/ Leave(r)
        BY <1>1, <1>5 DEF Confirm, Enter, Admit, Leave
    <1>6. CASE Pick(r) \/ Attach(r)
        BY <1>1, <1>6 DEF Pick, Attach
    <1> QED
        BY <1>2, <1>3, <1>4, <1>5, <1>6, <1>7 DEF Step

\* The leases of a task are counted, whatever a step does.
LEMMA EffectCounts ==
    ASSUME RunsInside, LeasesCounted, AskedInv, NEW r \in DOMAIN req, At(r, StepOf(r)), StepEffect(r)
    PROVE  LeasesCounted'
    <1>0. r \in Requests /\ \A s \in Requests : s # r => SameTokens(s)
        BY DEF AskedInv, StepEffect, OthersRun, SameTokens
    <1>1. \A k \in Tasks : /\ task[k].leases \in Nat /\ IsFiniteSet(Tokens(k)) /\ task[k].leases = Cardinality(Tokens(k))
                           /\ task[k].state \in {"none", "finished", "expired"} => task[k].leases = 0
        BY DEF LeasesCounted
    <1>2. run[r].held \in 0..2
        BY <1>0 DEF RunsInside
    <1> SUFFICES ASSUME NEW k \in Tasks
                 PROVE  /\ IsFiniteSet(Tokens(k)') /\ task'[k].leases = Cardinality(Tokens(k)')
                        /\ task'[k].leases \in Nat
                        /\ task'[k].state \in {"none", "finished", "expired"} => task'[k].leases = 0
        BY DEF LeasesCounted
    <1>3. IsFiniteSet(Tokens(k)') => Cardinality(Tokens(k)') \in Nat
        BY FS_CardinalityType
    <1>4. CASE Passed(r) \/ Again(r) \/ Stopped(r)
        <2>1. \A s \in Requests : SameTokens(s)
            BY <1>0, <1>4 DEF Passed, Again, Stopped, Same, SameTokens
        <2>2. Tokens(k)' = Tokens(k)
            BY <2>1, TokensStay
        <2> QED
            BY <1>1, <1>4, <2>2 DEF Passed, Again, Stopped, SameStates, SameLeases
    <1>5. CASE Thrown(r)
        <2>1. run'[r].held = run[r].held - run[r].held /\ run'[r].task = run[r].task
            BY <1>2, <1>5 DEF Thrown
        <2>2. /\ IsFiniteSet(Tokens(k)')
              /\ Cardinality(Tokens(k)') = Cardinality(Tokens(k)) - (IF k = run[r].task THEN run[r].held ELSE 0)
            BY <1>0, <1>1, <1>2, <2>1, TokensGiven
        <2> QED
            BY <1>1, <1>2, <1>3, <1>5, <2>2 DEF Thrown, SameStates
    <1>6. CASE Left(r)
        <2>1. run[r].held >= 1
            <3> DEFINE op == req[r].op
            <3>1. StepOf(r) = "leave" /\ ~OnATab(op) /\ OpenProgram(op) /\ run[r].at \in 1..Len(execute[op])
                     /\ execute[op][run[r].at] = "leave" /\ run[r].held = HeldAt(op, run[r].at)
                BY <1>6, AtIs DEF TabSteps, TapeSteps, Left
            <3> HIDE DEF op
            <3>2. HeldAt(op, run[r].at) = HeldAt(op, run[r].at + 1) + 1 /\ HeldAt(op, run[r].at + 1) \in Nat
                BY <3>1 DEF OpenProgram, HeldAt
            <3> QED
                BY <3>1, <3>2
        <2>2. /\ IsFiniteSet(Tokens(k)')
              /\ Cardinality(Tokens(k)') = Cardinality(Tokens(k)) - (IF k = run[r].task THEN 1 ELSE 0)
            BY <1>0, <1>1, <1>2, <1>6, <2>1, TokensGiven DEF Left
        <2> QED
            BY <1>1, <1>2, <1>3, <1>6, <2>2 DEF Left, SameStates
    <1>7. CASE Entered(r)
        <2>1. PICK j \in Tasks, n \in 0..2 :
                 /\ run'[r].task = j /\ run'[r].held = n
                 /\ k # j => task'[k] = task[k]
                 /\ k = j => /\ task'[k].state = "active"
                             /\ task'[k].leases = IF task[k].state = "none" THEN n ELSE task[k].leases + n
            BY <1>7 DEF Entered
        <2>2. run[r].held = 0
            BY <1>7, EntersEmptyHanded DEF Entered
        <2>3. /\ IsFiniteSet(Tokens(k)')
              /\ Cardinality(Tokens(k)') = Cardinality(Tokens(k)) + (IF k = j THEN n ELSE 0)
            BY <1>0, <1>1, <2>1, <2>2, TokensTaken
        <2>4. CASE k = j
            BY <1>1, <1>3, <2>1, <2>3, <2>4
        <2>5. CASE k # j
            BY <1>1, <1>3, <2>1, <2>3, <2>5
        <2> QED
            BY <2>4, <2>5
    <1> QED
        BY <1>4, <1>5, <1>6, <1>7 DEF StepEffect

\* An operation that takes steps is inside the queue, before and after.
LEMMA EffectInside ==
    ASSUME RunsInside, AskedInv, NEW r \in DOMAIN req, At(r, StepOf(r)), StepEffect(r), req' = req, place' = place
    PROVE  RunsInside'
    <1> DEFINE op == req[r].op
               at == run[r].at
    <1>1. /\ r \in Requests /\ op \in Operations /\ Running(r) /\ at \in 1..Len(execute[op])
          /\ execute[op][at] = StepOf(r) /\ run[r].held = HeldAt(op, at)
          /\ OnATab(op) => StepOf(r) \in TabSteps
          /\ ~OnATab(op) => OpenProgram(op)
        BY AtIs
    <1>2. place[r] = "in" /\ run[r].held \in 0..2 /\ (run[r].held > 0 => run[r].task \in Tasks) /\ at \in Nat
        BY <1>1 DEF RunsInside
    <1>3. ASSUME NEW s \in Requests, s # r
          PROVE  /\ run'[s].at \in Nat /\ run'[s].held \in 0..2
                 /\ run'[s].at = 0 => run'[s].held = 0
                 /\ run'[s].held > 0 => run'[s].task \in Tasks /\ place'[s] = "in"
                 /\ Running(s)' => place'[s] = "in" /\ run'[s].held = HeldAt(req'[s].op, run'[s].at)
        <2>1. run'[s] = run[s]
            BY <1>3 DEF StepEffect, OthersRun
        <2> QED
            BY <2>1 DEF RunsInside, Running
    <1> HIDE DEF op, at
    <1>4. /\ run'[r].at \in Nat /\ run'[r].at > 0 /\ run'[r].held \in 0..2
          /\ run'[r].held > 0 => run'[r].task \in Tasks
          /\ run'[r].out = None => run'[r].held = HeldAt(op, run'[r].at)
        <2>1. CASE Passed(r)
            <3>1. run'[r].at = at + 1 /\ run'[r].held = run[r].held /\ run'[r].task = run[r].task
                     /\ execute[op][at] \notin {"enter", "admit", "leave", "finish"}
                BY <1>1, <2>1 DEF Passed, Same, at
            <3>2. HeldAt(op, at + 1) = HeldAt(op, at)
                BY <1>1, <3>1 DEF OpenProgram, HeldAt
            <3> QED
                BY <1>1, <1>2, <3>1, <3>2
        <2>2. CASE Again(r)
            BY <1>1, <1>2, <2>2 DEF Again, at
        <2>3. CASE Stopped(r) \/ Thrown(r)
            BY <1>1, <1>2, <2>3 DEF Stopped, Thrown, Same, at
        <2>4. CASE Entered(r)
            <3>1. PICK j \in Tasks, n \in 0..2 :
                     /\ run'[r].task = j /\ run'[r].held = n
                     /\ \/ run'[r].at = at + 1 /\ n = IF StepOf(r) = "enter" THEN 1 ELSE 2
                        \/ run'[r].at = at /\ run'[r].out # None
                BY <2>4 DEF Entered, at
            <3>2. ~OnATab(op) /\ StepOf(r) \in {"enter", "admit"}
                BY <1>1, <2>4 DEF Entered, TabSteps, TapeSteps
            <3>3. at = 1
                BY <1>1, <3>2 DEF OpenProgram
            <3>4. HeldAt(op, 2) = IF StepOf(r) = "enter" THEN 1 ELSE 2
                BY <1>1, <3>2, <3>3 DEF OpenProgram, HeldAt
            <3> QED
                BY <3>1, <3>3, <3>4
        <2>5. CASE Left(r)
            <3>1. run'[r].at = at + 1 /\ run'[r].held = run[r].held - 1 /\ run'[r].task = run[r].task
                     /\ execute[op][at] = "leave"
                BY <1>1, <2>5 DEF Left, at
            <3>2. HeldAt(op, at) = HeldAt(op, at + 1) + 1 /\ HeldAt(op, at + 1) \in Nat
                BY <1>1, <3>1 DEF OpenProgram, HeldAt, TabSteps, TapeSteps
            <3> QED
                BY <1>1, <1>2, <3>1, <3>2
        <2> QED
            BY <2>1, <2>2, <2>3, <2>4, <2>5 DEF StepEffect
    <1>5. ASSUME NEW s \in Requests, s = r
          PROVE  /\ run'[s].at \in Nat /\ run'[s].held \in 0..2
                 /\ run'[s].at = 0 => run'[s].held = 0
                 /\ run'[s].held > 0 => run'[s].task \in Tasks /\ place'[s] = "in"
                 /\ Running(s)' => place'[s] = "in" /\ run'[s].held = HeldAt(req'[s].op, run'[s].at)
        BY <1>2, <1>4, <1>5 DEF op, Running
    <1> QED
        BY <1>3, <1>5 DEF RunsInside

-----------------------------------------------------------------------------
(***************************************************************************)
(* The queue is exact: OneAtATime                                          *)
(***************************************************************************)
LEMMA QueueBegins ==
    ASSUME Init
    PROVE  QueueInv
    <1>1. AskedInv
        BY ScenariosAssumption DEF Init, AskedInv
    <1>2. QueueTypeOK /\ InLine /\ WaitersExact
        BY DEF Init, QueueInit, QueueTypeOK, Places, InLine, WaitersExact, Distinct
    <1>3. Inside = {}
        BY DEF Init, QueueInit, Inside
    <1>4. SlotsCounted
        BY <1>3, FS_EmptySet, ConcurrencyAssumption DEF Init, QueueInit, SlotsCounted
    <1> QED
        BY <1>1, <1>2, <1>4 DEF QueueInv

\* Requests are given.
LEMMA RequestsStay ==
    ASSUME [Next]_vars
    PROVE  req' = req
    <1>1. ASSUME NEW r, Arrive(r) \/ Turn(r) \/ Relay(r) \/ Forget
          PROVE  req' = req
        BY <1>1 DEF Arrive, Turn, Relay, Forget, runtimeVars
    <1>2. ASSUME NEW r, Wake(r) \/ Start(r) \/ Complete(r) \/ Abort(r)
          PROVE  req' = req
        <2>1. CASE Wake(r)
            BY <2>1 DEF Wake
        <2>2. CASE Start(r)
            BY <2>2 DEF Start
        <2>3. CASE Complete(r)
            BY <2>3 DEF Complete
        <2>4. CASE Abort(r)
            BY <2>4 DEF Abort
        <2> QED
            BY <1>2, <2>1, <2>2, <2>3, <2>4
    <1>3. ASSUME NEW r, Operate(r)
          PROVE  req' = req
        BY <1>3, StepAt DEF Operate
    <1>4. ASSUME NEW a, NEW code, NEW d, FinalizationFails(a, code, d)
          PROVE  req' = req
        BY <1>4 DEF FinalizationFails
    <1>5. ASSUME NEW r, Finish(r) \/ DrainStops(r)
          PROVE  req' = req
        <2>1. CASE FinishBegins(r)
            BY <2>1 DEF FinishBegins
        <2>2. CASE Drain(r) \/ FinishReturns(r)
            BY <2>2 DEF Drain, FinishReturns
        <2> QED
            BY <1>4, <1>5, <2>1, <2>2 DEF Finish, FinishStep, DrainStops, DrainFails
    <1>6. ASSUME NEW a, Finalize(a) \/ CloseFails(a)
          PROVE  req' = req
        <2>1. CASE ReachTab(a)
            BY <1>4, <2>1 DEF ReachTab, Reaching, Discard, Reconnect
        <2>2. CASE ClosePage(a) \/ TaskEnds(a)
            BY <2>2 DEF ClosePage, TaskEnds
        <2> QED
            BY <1>4, <1>6, <2>1, <2>2 DEF Finalize, FinalizerStep, CloseFails
    <1>7. ASSUME Reap \/ ShutDownIdle
          PROVE  req' = req
        <2>1. CASE ReaperTicks \/ IdleShutdown
            BY <2>1 DEF ReaperTicks, IdleShutdown
        <2>2. CASE ReaperLooks
            BY <2>2 DEF ReaperLooks
        <2> QED
            BY <1>7, <2>1, <2>2 DEF Reap, ShutDownIdle
    <1>8. ASSUME Disturb
          PROVE  req' = req
        BY <1>6, <1>8 DEF Disturb, Ages, BrowserDies, PageCloses, DriverFails
    <1> QED
        BY <1>1, <1>2, <1>3, <1>5, <1>6, <1>7, <1>8 DEF Next, Serve, vars, runtimeVars

\* The steps of the requests that move in the queue; nobody else touches it.
LEMMA OthersLeaveTheQueue ==
    ASSUME [Next]_vars,
           \A r \in Requests : ~(Arrive(r) \/ Turn(r) \/ Wake(r) \/ Complete(r) \/ Abort(r))
    PROVE  UNCHANGED queueVars
    <1>1. ASSUME NEW r, Start(r) \/ Operate(r) \/ Finish(r) \/ Relay(r) \/ DrainStops(r)
          PROVE  UNCHANGED queueVars
        <2>1. CASE Start(r)
            BY <2>1 DEF Start
        <2> QED
            BY <1>1, <2>1 DEF Operate, Finish, Relay, DrainStops
    <1>2. ASSUME NEW a, Finalize(a)
          PROVE  UNCHANGED queueVars
        BY <1>2 DEF Finalize
    <1>3. ASSUME Reap \/ ShutDownIdle \/ Forget \/ Disturb
          PROVE  UNCHANGED queueVars
        BY <1>3 DEF Reap, ShutDownIdle, Forget, Disturb
    <1> QED
        BY <1>1, <1>2, <1>3 DEF Next, Serve, vars

\* The queue's invariant is inductive.
LEMMA QueueStep ==
    ASSUME QueueInv, Leaders, [Next]_vars
    PROVE  QueueInv'
    <1>0. req' = req
        BY RequestsStay
    <1>1. ASSUME UNCHANGED queueVars
          PROVE  QueueInv'
        BY <1>0, <1>1 DEF queueVars, QueueInv, QueueTypeOK, AskedInv, Asked, InLine, Key, operationQueueKey,
              WaitersExact, Distinct, SlotsCounted, Inside
    <1>2. ASSUME NEW r \in Requests, Arrive(r)
          PROVE  QueueInv'
        <2>1. CASE UNCHANGED queueVars
            BY <1>1, <2>1
        <2>2. CASE Join(r, operationQueueKey(r))
            <3>1. r \in DOMAIN req /\ leader[r] = None
                BY <1>2 DEF Arrive
            <3>2. place[r] = "out"
                BY <3>1, NamesAssumption DEF Leaders
            <3> QED
                BY <1>0, <2>2, <3>1, <3>2, JoinKeeps DEF Key
        <2> QED
            BY <1>2, <2>1, <2>2 DEF Arrive
    <1>3. ASSUME NEW r \in Requests, TakeSlot(r), (place[r] = "turn" /\ Head(line[Key(r)]) = r) \/ place[r] = "woken"
          PROVE  QueueInv'
        <2>1. line[Key(r)] # <<>> /\ Head(line[Key(r)]) = r
            <3>1. CASE place[r] = "turn" /\ Head(line[Key(r)]) = r
                <4>1. PICK i \in 1..Len(line[Key(r)]) : TRUE
                    BY <3>1 DEF QueueInv, InLine
                <4> QED
                    BY <3>1, <4>1
            <3>2. CASE place[r] = "woken"
                BY <3>2 DEF QueueInv, InLine
            <3> QED
                BY <1>3, <3>1, <3>2
        <2> QED
            BY <1>0, <1>3, <2>1, TakeSlotKeeps
    <1>4. ASSUME NEW r \in Requests, GiveUp(r, operationQueueKey(r)), place[r] \in {"turn", "slot", "woken"}
          PROVE  QueueInv'
        BY <1>0, <1>4, GiveUpKeeps DEF Key
    <1>5. ASSUME NEW r \in Requests, Turn(r)
          PROVE  QueueInv'
        BY <1>3, <1>5 DEF Turn, TakeTurn, Key
    <1>6. ASSUME NEW r \in Requests, Wake(r)
          PROVE  QueueInv'
        BY <1>3, <1>4, <1>6 DEF Wake, Resume
    <1>7. ASSUME NEW r \in Requests, Complete(r)
          PROVE  QueueInv'
        BY <1>0, <1>7, ReleaseKeeps DEF Complete, Key
    <1>8. ASSUME NEW r \in Requests, Abort(r)
          PROVE  QueueInv'
        BY <1>1, <1>4, <1>8 DEF Abort
    <1> QED
        BY <1>1, <1>2, <1>5, <1>6, <1>7, <1>8, OthersLeaveTheQueue

-----------------------------------------------------------------------------
(***************************************************************************)
(* The leases are exact and a finalization is alone                        *)
(***************************************************************************)
CoreInv == Shapes /\ RunsInside /\ LeasesCounted /\ OneFinalizer

\* A request that is not in the queue does not run: nothing happens to it.
OutRests == \A s \in Requests : place[s] = "out" => run'[s] = run[s]

\* The places of the operations that run are kept.
PlacesKept(r) == \A s \in Requests : s # r /\ place[s] = "in" => place'[s] = "in"

\* What a step may do to a task that is being finalized.
Guarded ==
    \A k \in Tasks : task[k].state = "finishing" =>
        task'[k].state = "finishing" /\ (task[k].leases = 0 => task'[k].leases = 0)

\* Runs that rest stay inside the queue.
LEMMA InsideStays ==
    ASSUME RunsInside, run' = run, req' = req, \A s \in Requests : place[s] = "in" => place'[s] = "in"
    PROVE  RunsInside' /\ OutRests /\ \A s \in Requests : SameTokens(s)
    BY DEF RunsInside, OutRests, SameTokens, Running

\* A run that stops is inside, or held nothing.
LEMMA StopInside ==
    ASSUME RunShape, RunsInside, NEW r \in Requests, NEW code \in Outcomes, Stop(r, code), req' = req,
           PlacesKept(r), run[r].held > 0 => place'[r] = "in", place[r] # "out"
    PROVE  RunShape' /\ RunsInside' /\ OutRests /\ OthersRun(r) /\ \A s \in Requests : SameTokens(s)
    <1>1. RunShape' /\ OthersRun(r) /\ Same(r) /\ run'[r].at = run[r].at /\ run'[r].out = code
        BY DEF RunShape, Stop, OthersRun, Same
    <1>2. code # None
        BY NamesAssumption
    <1>3. OutRests /\ \A s \in Requests : SameTokens(s)
        BY <1>1 DEF OutRests, OthersRun, SameTokens, Same
    <1>4. RunsInside'
        BY <1>1, <1>2 DEF RunsInside, OthersRun, Same, Running, PlacesKept
    <1> QED
        BY <1>1, <1>3, <1>4

\* Leases stay counted when runs and counts do.
LEMMA CountsStay ==
    ASSUME RunsInside, LeasesCounted, \A s \in Requests : SameTokens(s), SameLeases,
           \A k \in Tasks : task'[k].state \in {"none", "finished", "expired"} => task[k].leases = 0
    PROVE  LeasesCounted'
    <1>1. \A k \in Tasks : Tokens(k)' = Tokens(k)
        BY TokensStay
    <1> QED
        BY <1>1 DEF LeasesCounted, SameLeases

\* A finalizer stays alone when its task is guarded.
LEMMA FinalizersStay ==
    ASSUME OneFinalizer, fin' = fin, req' = req, Guarded,
           \A r \in Requests : fin[r].pc # "idle" => run'[r] = run[r]
    PROVE  OneFinalizer'
    BY DEF OneFinalizer, Finalizing, Guarded, At, Running, Program

\* A step that keeps the states and the leases of the tasks.
LEMMA SameIsGuarded ==
    ASSUME SameStates, SameLeases
    PROVE  Guarded
    BY DEF SameStates, SameLeases, Guarded

\* Leases stay counted when states do too.
LEMMA SameIsCounted ==
    ASSUME RunsInside, LeasesCounted, \A s \in Requests : SameTokens(s), SameStates, SameLeases
    PROVE  LeasesCounted'
    <1>1. \A k \in Tasks : task'[k].state \in {"none", "finished", "expired"} => task[k].leases = 0
        BY DEF LeasesCounted, SameStates
    <1> QED
        BY <1>1, CountsStay

\* No step of an operation takes a lease of a task that is being finalized.
LEMMA EffectGuards ==
    ASSUME RunsInside, LeasesCounted, LeasesCounted', AskedInv, NEW r \in DOMAIN req, At(r, StepOf(r)), StepEffect(r)
    PROVE  Guarded
    <1>0. \A k \in Tasks : task[k].leases \in Nat /\ task'[k].leases \in Nat
        BY DEF LeasesCounted
    <1>1. CASE Passed(r) \/ Again(r) \/ Stopped(r)
        BY <1>1, SameIsGuarded DEF Passed, Again, Stopped
    <1>2. CASE Thrown(r) \/ Left(r)
        <2>1. r \in Requests /\ run[r].held \in 0..2
            BY DEF AskedInv, RunsInside
        <2>2. SameStates /\ \A k \in Tasks : task[k].leases = 0 => task'[k].leases = 0
            BY <1>0, <1>2, <2>1 DEF Thrown, Left
        <2> QED
            BY <2>2 DEF Guarded, SameStates
    <1>3. CASE Entered(r)
        BY <1>3 DEF Entered, Guarded
    <1> QED
        BY <1>1, <1>2, <1>3 DEF StepEffect

\* The steps of an operation.
LEMMA EffectCore ==
    ASSUME CoreInv, AskedInv, NEW r \in DOMAIN req, At(r, StepOf(r)), StepEffect(r),
           req' = req, place' = place, fin' = fin, StepOf(r) # "finish" \/ fin[r].pc = "idle"
    PROVE  CoreInv' /\ OutRests
    <1>1. Shapes' /\ r \in Requests
        BY DEF CoreInv, Shapes, StepEffect, FinShape, AskedInv
    <1>2. LeasesCounted'
        BY EffectCounts DEF CoreInv
    <1>3. RunsInside'
        BY EffectInside DEF CoreInv
    <1>4. Guarded
        BY <1>2, EffectGuards DEF CoreInv
    <1>5. \A s \in Requests : s # r => run'[s] = run[s]
        BY DEF StepEffect, OthersRun
    <1>6. fin[r].pc = "idle"
        BY <1>1 DEF CoreInv, OneFinalizer, At, StepOf
    <1>7. OneFinalizer'
        BY <1>4, <1>5, <1>6, FinalizersStay DEF CoreInv
    <1>8. OutRests
        BY <1>1, <1>5 DEF OutRests, CoreInv, RunsInside, At
    <1> QED
        BY <1>1, <1>2, <1>3, <1>7, <1>8 DEF CoreInv

\* The steps of an operation keep CoreInv.
LEMMA OperateCore ==
    ASSUME CoreInv, QueueInv, NEW r \in Requests, Operate(r)
    PROVE  CoreInv' /\ OutRests
    <1>1. Step(r) /\ place' = place
        BY DEF Operate, queueVars
    <1>2. At(r, StepOf(r)) /\ req' = req /\ fin' = fin /\ StepOf(r) # "finish"
        BY <1>1, StepAt
    <1>3. r \in DOMAIN req
        BY <1>2 DEF At, CoreInv, RunsInside, QueueInv, InLine
    <1>4. StepEffect(r)
        BY <1>1, <1>3, StepIs DEF CoreInv, QueueInv
    <1> QED
        BY <1>1, <1>2, <1>3, <1>4, EffectCore DEF QueueInv

\* The steps that leave the runtime as it is.
LEMMA RestCore ==
    ASSUME CoreInv, req' = req, run' = run, task' = task, fin' = fin, TabShape', PermShape',
           \A s \in Requests : place[s] = "in" => place'[s] = "in"
    PROVE  CoreInv' /\ OutRests
    <1>1. RunsInside' /\ OutRests /\ \A s \in Requests : SameTokens(s)
        BY InsideStays DEF CoreInv
    <1>2. Shapes' /\ SameStates /\ SameLeases
        BY DEF CoreInv, Shapes, RunShape, TaskShape, FinShape, SameStates, SameLeases
    <1>3. LeasesCounted'
        BY <1>1, <1>2, SameIsCounted DEF CoreInv
    <1>4. OneFinalizer'
        BY <1>2, SameIsGuarded, FinalizersStay DEF CoreInv
    <1> QED
        BY <1>1, <1>2, <1>3, <1>4 DEF CoreInv

\* A request that stops before its operation has taken its first step.
LEMMA StopCore ==
    ASSUME CoreInv, NEW r \in Requests, NEW code \in Outcomes, Stop(r, code), req' = req, fin' = fin,
           tab' = tab, perm' = perm, TaskShape', SameLeases, Guarded,
           \A k \in Tasks : task'[k].state \in {"none", "finished", "expired"} => task[k].leases = 0,
           PlacesKept(r), place[r] # "out", run[r].held = 0, ~At(r, "finish")
    PROVE  CoreInv' /\ OutRests
    <1>1. RunShape' /\ RunsInside' /\ OutRests /\ OthersRun(r) /\ \A s \in Requests : SameTokens(s)
        BY StopInside DEF CoreInv, Shapes
    <1>2. Shapes'
        BY <1>1 DEF CoreInv, Shapes, FinShape, TabShape, PermShape
    <1>3. LeasesCounted'
        BY <1>1, CountsStay DEF CoreInv
    <1>4. \A s \in Requests : fin[s].pc # "idle" => run'[s] = run[s]
        BY <1>1 DEF OthersRun, CoreInv, OneFinalizer
    <1>5. OneFinalizer'
        BY <1>4, FinalizersStay DEF CoreInv
    <1> QED
        BY <1>1, <1>2, <1>3, <1>5 DEF CoreInv

\* What follows when a step leaves the tasks alone.
LEMMA TaskRests ==
    ASSUME CoreInv, task' = task
    PROVE  /\ TaskShape' /\ SameLeases /\ SameStates /\ Guarded
           /\ \A k \in Tasks : task'[k].state \in {"none", "finished", "expired"} => task[k].leases = 0
    BY DEF CoreInv, Shapes, TaskShape, SameLeases, SameStates, Guarded, LeasesCounted

\* Arriving, taking a turn, and answering from the registry.
LEMMA ArriveCore ==
    ASSUME CoreInv, QueueInv, NEW r \in Requests, Arrive(r) \/ Turn(r) \/ Relay(r) \/ Forget, Leaders
    PROVE  CoreInv' /\ OutRests
    <1>1. UNCHANGED runtimeVars
        BY DEF Arrive, Turn, Relay, Forget
    <1>2. \A s \in Requests : place[s] = "in" => place'[s] = "in"
        <2>1. CASE Arrive(r)
            <3>1. place[r] = "out"
                BY <2>1, NamesAssumption DEF Arrive, Leaders
            <3>2. CASE place' = place
                BY <3>2
            <3>3. CASE Join(r, operationQueueKey(r))
                BY <3>1, <3>3 DEF Join, QueueInv, QueueTypeOK
            <3> QED
                BY <2>1, <3>2, <3>3 DEF Arrive, queueVars
        <2>2. CASE Turn(r)
            BY <2>2 DEF Turn, TakeTurn, TakeSlot, QueueInv, QueueTypeOK
        <2>3. CASE Relay(r) \/ Forget
            BY <2>3 DEF Relay, Forget, queueVars
        <2> QED
            BY <2>1, <2>2, <2>3
    <1> QED
        BY <1>1, <1>2, RestCore DEF runtimeVars, CoreInv, Shapes, TabShape, PermShape

\* Waking up for a slot, and aborting.
LEMMA GivesUpCore ==
    ASSUME CoreInv, QueueInv, NEW r \in Requests, Wake(r) \/ Abort(r)
    PROVE  CoreInv' /\ OutRests
    <1>1. /\ req' = req /\ fin' = fin /\ tab' = tab /\ perm' = perm /\ task' = task
        BY DEF Wake, Abort
    <1>2. CASE Stop(r, "OPERATION_CANCELLED") /\ GiveUp(r, operationQueueKey(r)) /\ place[r] \in {"turn", "slot", "woken"}
        <2>1. PlacesKept(r)
            BY <1>2 DEF PlacesKept, GiveUp, QueueInv, QueueTypeOK
        <2>2. run[r].held = 0 /\ ~At(r, "finish") /\ place[r] # "out"
            BY <1>2 DEF CoreInv, RunsInside, At
        <2>3. "OPERATION_CANCELLED" \in Outcomes
            BY DEF Outcomes
        <2> QED
            BY <1>1, <1>2, <2>1, <2>2, <2>3, TaskRests, StopCore
    <1>3. CASE run' = run /\ (place' = place \/ Resume(r))
        <2>1. \A s \in Requests : place[s] = "in" => place'[s] = "in"
            BY <1>3 DEF Resume, TakeSlot, QueueInv, QueueTypeOK
        <2> QED
            BY <1>1, <1>3, <2>1, RestCore DEF CoreInv, Shapes, TabShape, PermShape
    <1> QED
        BY <1>2, <1>3 DEF Wake, Abort, queueVars

\* The start of an operation: it stops, takes its first step or leases the task of its tab.
LEMMA RefusalIsAnOutcome ==
    ASSUME NEW check
    PROVE  Refusal(check) \in Outcomes
    BY DEF Refusal, Outcomes

\* The number of leases an operation begins with is a number.
LEMMA LeadingIsCounted ==
    ASSUME NEW op \in Operations
    PROVE  Cardinality(Leading(op)) \in Nat
    <1>1. Len(execute[op]) \in Nat
        BY TabPrograms, OpenPrograms DEF OpenProgram
    <1>2. IsFiniteSet(1..Len(execute[op]))
        BY <1>1, FS_Interval
    <1>3. Leading(op) \subseteq 1..Len(execute[op])
        BY DEF Leading
    <1> QED
        BY <1>2, <1>3, FS_Subset, FS_CardinalityType

\* Admission to a task changes the count of its leases only.
LEMMA TouchedIs ==
    ASSUME TaskShape, LeasesCounted, NEW k \in Tasks, Accessible(k)
    PROVE  /\ IsLeased([Touched(k) EXCEPT ![k].idle = FALSE], k, 0)
           /\ IsLeased([Touched(k) EXCEPT ![k].leases = @ + 1], k, 1)
    <1> DEFINE f == Touched(k)
    <1>1. task[k].leases \in Nat /\ task[k].state # "none"
        BY DEF LeasesCounted, Accessible, isAccessibleState
    <1>2. /\ DOMAIN f = Tasks
          /\ \A j \in Tasks : DOMAIN f[j] = {"state", "owner", "tabs", "leases", "idle"} /\ (j # k => f[j] = task[j])
          /\ f[k].state = "active" /\ f[k].leases = task[k].leases
        BY DEF TaskShape, Touched
    <1> HIDE DEF f
    <1>3. IsLeased([f EXCEPT ![k].idle = FALSE], k, 0)
        BY <1>1, <1>2 DEF IsLeased
    <1>4. IsLeased([f EXCEPT ![k].leases = @ + 1], k, 1)
        BY <1>1, <1>2 DEF IsLeased
    <1> QED
        BY <1>3, <1>4 DEF f

\* A request without a lease takes n leases of task k.
LEMMA LeaseTaken ==
    ASSUME CoreInv, NEW r \in Requests, NEW k \in Tasks, NEW n \in 0..2, IsLeased(task', k, n),
           run[r].held = 0, run'[r].held = n, run'[r].task = k, OthersRun(r), task[k].state # "finishing"
    PROVE  LeasesCounted' /\ Guarded /\ TaskShape'
    <1>1. \A s \in Requests : s # r => SameTokens(s)
        BY DEF OthersRun, SameTokens
    <1>2. TaskShape' /\ Guarded
        BY DEF IsLeased, TaskShape, Guarded
    <1>3. ASSUME NEW j \in Tasks
          PROVE  /\ task'[j].leases \in Nat
                 /\ IsFiniteSet(Tokens(j)') /\ task'[j].leases = Cardinality(Tokens(j)')
                 /\ task'[j].state \in {"none", "finished", "expired"} => task'[j].leases = 0
        <2>1. /\ task[j].leases \in Nat /\ IsFiniteSet(Tokens(j)) /\ task[j].leases = Cardinality(Tokens(j))
              /\ task[j].state \in {"none", "finished", "expired"} => task[j].leases = 0
            BY DEF CoreInv, LeasesCounted
        <2>2. /\ IsFiniteSet(Tokens(j)')
              /\ Cardinality(Tokens(j)') = Cardinality(Tokens(j)) + (IF j = k THEN n ELSE 0)
            BY <1>1, <2>1, TokensTaken DEF CoreInv
        <2>3. CASE j = k
            BY <2>1, <2>2, <2>3 DEF IsLeased
        <2>4. CASE j # k
            BY <2>1, <2>2, <2>4 DEF IsLeased
        <2> QED
            BY <2>3, <2>4
    <1> QED
        BY <1>2, <1>3 DEF LeasesCounted

\* An operation that starts takes its leases or none.
LEMMA StartCore ==
    ASSUME CoreInv, QueueInv, NEW r \in Requests, Start(r)
    PROVE  CoreInv' /\ OutRests
    <1>1. /\ req' = req /\ fin' = fin /\ tab' = tab /\ perm' = perm /\ place' = place
          /\ place[r] = "in" /\ run[r].at = 0
        BY DEF Start, queueVars
    <1>2. r \in DOMAIN req /\ req[r].op \in Operations /\ req'[r].op = req[r].op
        BY <1>1 DEF QueueInv, InLine, AskedInv, Asked
    <1>3. run[r].held = 0 /\ PlacesKept(r) /\ ~At(r, "finish") /\ place[r] # "out" /\ RunShape
        BY <1>1 DEF CoreInv, RunsInside, PlacesKept, At, Running, Shapes
    <1>4. \A c \in {"OPERATION_CANCELLED", "TASK_NOT_FOUND"} : c \in Outcomes
        BY DEF Outcomes
    <1>5. CASE task' = task /\ \E c \in {"OPERATION_CANCELLED", "TASK_NOT_FOUND"} : Stop(r, c)
        BY <1>1, <1>3, <1>4, <1>5, TaskRests, StopCore
    <1>6. ASSUME OthersRun(r), RunShape', run'[r].at \in Nat \ {0}, run'[r].held \in 0..2,
                 run'[r].held > 0 => run'[r].task \in Tasks, run'[r].held = HeldAt(req[r].op, run'[r].at),
                 LeasesCounted', Guarded, TaskShape'
          PROVE  CoreInv' /\ OutRests
        <2>1. RunsInside'
            BY <1>1, <1>2, <1>6 DEF CoreInv, RunsInside, OthersRun, Running
        <2>2. OutRests
            BY <1>3, <1>6 DEF OutRests, OthersRun
        <2>3. Shapes'
            BY <1>1, <1>6 DEF CoreInv, Shapes, FinShape, TabShape, PermShape
        <2>4. OneFinalizer'
            <3>1. \A s \in Requests : fin[s].pc # "idle" => run'[s] = run[s]
                BY <1>3, <1>6 DEF OthersRun, CoreInv, OneFinalizer
            <3> QED
                BY <1>1, <1>6, <3>1, FinalizersStay DEF CoreInv
        <2> QED
            BY <1>6, <2>1, <2>2, <2>3, <2>4 DEF CoreInv
    <1>7. CASE ~OnATab(req[r].op) /\ run' = [run EXCEPT ![r].at = 1] /\ task' = task
        <2>1. OthersRun(r) /\ RunShape' /\ run'[r].at = 1 /\ run'[r].held = 0 /\ \A s \in Requests : SameTokens(s)
            BY <1>3, <1>7 DEF RunShape, OthersRun, SameTokens
        <2>2. HeldAt(req[r].op, 1) = 0
            BY <1>7 DEF HeldAt
        <2>3. TaskShape' /\ SameLeases /\ SameStates /\ Guarded
            BY <1>7, TaskRests
        <2>4. LeasesCounted'
            BY <2>1, <2>3, SameIsCounted DEF CoreInv
        <2> QED
            BY <1>6, <2>1, <2>2, <2>3, <2>4
    <1>8. ASSUME NEW k \in TabTasks(r), OnATab(req[r].op), StartOnTab(r, k)
          PROVE  CoreInv' /\ OutRests
        <2>1. k \in Tasks /\ Accessible(k) /\ task[k].state # "finishing"
            BY <1>8 DEF TabTasks, TaskOfTab, Usable, Accessible, isAccessibleState
        <2>2. /\ IsLeased([Touched(k) EXCEPT ![k].idle = FALSE], k, 0)
              /\ IsLeased([Touched(k) EXCEPT ![k].leases = @ + 1], k, 1)
            BY <2>1, TouchedIs DEF CoreInv, Shapes
        <2>3. CASE /\ task' = [Touched(k) EXCEPT ![k].idle = FALSE]
                   /\ \E c \in Outcomes : Stop(r, c)
            <3>1. IsLeased(task', k, 0)
                BY <2>2, <2>3
            <3>2. /\ TaskShape' /\ SameLeases /\ Guarded
                  /\ \A j \in Tasks : task'[j].state \in {"none", "finished", "expired"} => task[j].leases = 0
                BY <2>1, <3>1 DEF IsLeased, TaskShape, SameLeases, Guarded, CoreInv, LeasesCounted,
                                  Accessible, isAccessibleState
            <3> QED
                BY <1>1, <1>3, <2>3, <3>2, StopCore
        <2>4. CASE /\ task' = [Touched(k) EXCEPT ![k].leases = @ + 1]
                   /\ run' = [run EXCEPT ![r].at = 1 + Cardinality(Leading(req[r].op)), ![r].task = k, ![r].held = 1]
            <3>0. 1 + Cardinality(Leading(req[r].op)) \in Nat \ {0}
                BY <1>2, LeadingIsCounted
            <3>1. OthersRun(r) /\ RunShape' /\ run'[r].at \in Nat \ {0} /\ run'[r].held = 1 /\ run'[r].task = k
                BY <1>3, <2>4, <3>0 DEF RunShape, OthersRun
            <3>2. IsLeased(task', k, 1)
                BY <2>2, <2>4
            <3>3. LeasesCounted' /\ Guarded /\ TaskShape'
                BY <1>3, <2>1, <3>1, <3>2, LeaseTaken
            <3>4. HeldAt(req[r].op, run'[r].at) = 1
                BY <1>8 DEF HeldAt
            <3> QED
                BY <1>6, <2>1, <3>1, <3>3, <3>4
        <2>5. (IF SiteRefused(r, k) THEN "SITE_ACCESS_AUTHORIZATION_REQUIRED"
               ELSE Refusal(Program(r)[Min(FailedChecks(r, k))])) \in Outcomes
            BY RefusalIsAnOutcome DEF Outcomes
        <2> QED
            BY <1>8, <2>3, <2>4, <2>5 DEF StartOnTab
    <1>9. CASE OnATab(req[r].op) /\ TabTasks(r) # {} /\ StartOnTab(r, CHOOSE k \in TabTasks(r) : TRUE)
        BY <1>8, <1>9
    <1> QED
        BY <1>5, <1>7, <1>9 DEF Start

\* The end of an operation gives back what it holds.
LEMMA CompleteCore ==
    ASSUME CoreInv, QueueInv, NEW r \in Requests, Complete(r)
    PROVE  CoreInv' /\ OutRests
    <1> DEFINE out == IF run[r].out = None THEN "ok" ELSE run[r].out
    <1>1. /\ req' = req /\ fin' = fin /\ tab' = tab /\ perm' = perm /\ place[r] = "in" /\ Done(r)
          /\ Release(r, operationQueueKey(r)) /\ task' = Unleased(run[r].task, run[r].held)
          /\ run' = [run EXCEPT ![r].out = out, ![r].held = 0]
        BY DEF Complete
    <1>2. out # None
        BY NamesAssumption DEF Outcomes
    <1> HIDE DEF out
    <1>3. /\ RunShape' /\ OthersRun(r) /\ run'[r].at = run[r].at /\ run'[r].out # None
          /\ run'[r].held = 0 /\ run'[r].task = run[r].task
        BY <1>1, <1>2 DEF CoreInv, Shapes, RunShape, OthersRun
    <1>4. /\ RunShape /\ TaskShape /\ run[r].held \in 0..2 /\ (run[r].held > 0 => run[r].task \in Tasks)
          /\ run[r].at \in Nat
        BY DEF CoreInv, Shapes, RunsInside
    <1>5. /\ TaskShape' /\ SameStates
          /\ \A k \in Tasks : task'[k].leases = IF k = run[r].task THEN task[k].leases - run[r].held
                                                ELSE task[k].leases
        <2>0. \A k \in Tasks : task[k].leases \in Nat
            BY DEF CoreInv, LeasesCounted
        <2>1. CASE run[r].held = 0
            BY <1>1, <1>4, <2>0, <2>1 DEF Unleased, TaskShape, SameStates
        <2>2. CASE run[r].held # 0
            <3>1. TaskShape' /\ SameStates
                BY <1>1, <1>4, <2>2 DEF Unleased, TaskShape, SameStates
            <3> QED
                BY <1>1, <1>4, <2>2, <3>1 DEF Unleased, TaskShape
        <2> QED
            BY <2>1, <2>2
    <1>6. \A s \in Requests : s # r => SameTokens(s)
        BY <1>3 DEF OthersRun, SameTokens
    <1>7. ASSUME NEW k \in Tasks
          PROVE  /\ task'[k].leases \in Nat /\ (task[k].leases = 0 => task'[k].leases = 0)
                 /\ IsFiniteSet(Tokens(k)') /\ task'[k].leases = Cardinality(Tokens(k)')
                 /\ task'[k].state \in {"none", "finished", "expired"} => task'[k].leases = 0
        <2>1. /\ task[k].leases \in Nat /\ IsFiniteSet(Tokens(k)) /\ task[k].leases = Cardinality(Tokens(k))
              /\ task[k].state \in {"none", "finished", "expired"} => task[k].leases = 0
            BY DEF CoreInv, LeasesCounted
        <2>2. run'[r].held = run[r].held - run[r].held
            BY <1>3, <1>4
        <2>3. /\ IsFiniteSet(Tokens(k)')
              /\ Cardinality(Tokens(k)') = Cardinality(Tokens(k)) - (IF k = run[r].task THEN run[r].held ELSE 0)
            BY <1>3, <1>4, <1>6, <2>1, <2>2, TokensGiven DEF CoreInv
        <2>4. Cardinality(Tokens(k)') \in Nat
            BY <2>3, FS_CardinalityType
        <2> QED
            BY <1>4, <1>5, <2>1, <2>3, <2>4 DEF SameStates
    <1>8. LeasesCounted' /\ Guarded
        BY <1>5, <1>7 DEF LeasesCounted, Guarded, SameStates
    <1>9. PlacesKept(r)
        <2>1. waiters # <<>> => place[Head(waiters)] = "slot"
            <3>1. waiters # <<>> => Len(waiters) \in Nat /\ 1 \in 1..Len(waiters) /\ Head(waiters) = waiters[1]
                BY DEF QueueInv, QueueTypeOK
            <3> QED
                BY <3>1 DEF QueueInv, WaitersExact
        <2> QED
            BY <1>1, <2>1 DEF PlacesKept, Release
    <1>10. RunsInside'
        <2> SUFFICES ASSUME NEW s \in Requests
                     PROVE  /\ run'[s].at \in Nat /\ run'[s].held \in 0..2
                            /\ run'[s].at = 0 => run'[s].held = 0
                            /\ run'[s].held > 0 => run'[s].task \in Tasks /\ place'[s] = "in"
                            /\ Running(s)' => place'[s] = "in" /\ run'[s].held = HeldAt(req'[s].op, run'[s].at)
            BY DEF RunsInside
        <2>1. CASE s = r
            BY <1>3, <1>4, <2>1 DEF Running
        <2>2. CASE s # r
            <3>1. run'[s] = run[s] /\ (place[s] = "in" => place'[s] = "in") /\ req'[s] = req[s]
                BY <1>1, <1>3, <1>9, <2>2 DEF OthersRun, PlacesKept
            <3> QED
                BY <3>1 DEF CoreInv, RunsInside, Running
        <2> QED
            BY <2>1, <2>2
    <1>11. OneFinalizer'
        <2>1. ~At(r, "finish")
            <3>1. r \in DOMAIN req
                BY <1>1 DEF QueueInv, InLine
            <3>2. At(r, "finish") => /\ run[r].at \in 1..Len(execute[req[r].op]) /\ Running(r)
                                     /\ req[r].op \in Operations
                BY <3>1, AtIs DEF CoreInv, QueueInv
            <3>3. req[r].op \in Operations => Len(execute[req[r].op]) \in Nat
                BY TabPrograms, OpenPrograms DEF OpenProgram
            <3> QED
                BY <1>1, <3>2, <3>3 DEF Done, Running, Program
        <2>2. \A s \in Requests : fin[s].pc # "idle" => run'[s] = run[s]
            BY <1>3, <2>1 DEF OthersRun, CoreInv, OneFinalizer
        <2> QED
            BY <1>1, <1>8, <2>2, FinalizersStay DEF CoreInv
    <1>12. Shapes' /\ OutRests
        BY <1>1, <1>3, <1>5 DEF CoreInv, Shapes, FinShape, TabShape, PermShape, OutRests, OthersRun
    <1> QED
        BY <1>8, <1>10, <1>11, <1>12 DEF CoreInv

\* An operation whose driver call fails throws, and gives its leases back.
LEMMA DriverFailsCore ==
    ASSUME CoreInv, QueueInv, DriverFails, place' = place
    PROVE  CoreInv' /\ OutRests
    <1>1. PICK r \in Requests :
             /\ Running(r) /\ run[r].at <= Len(Program(r))
             /\ Program(r)[run[r].at] \in {"act", "visit", "read", "close", "login", "select", "roll", "cut", "unmark"}
             /\ ThrowsUnmarked(r) /\ req' = req /\ tab' = tab /\ fin' = fin
        BY UnrecordedIs DEF DriverFails, ThrowsUnmarked, Outcomes, CoreInv, Shapes
    <1>2. r \in DOMAIN req /\ At(r, StepOf(r)) /\ StepOf(r) # "finish"
        BY <1>1 DEF At, StepOf, CoreInv, RunsInside, QueueInv, InLine
    <1>3. RunShape' /\ TaskShape' /\ PermShape' /\ OthersRun(r) /\ Thrown(r)
        <2>1. PICK code \in Outcomes : \E p : Unmarks(p) /\ ThrowWith(r, code, p)
            BY <1>1 DEF ThrowsUnmarked
        <2>2. PICK p : Unmarks(p) /\ ThrowWith(r, code, p)
            BY <2>1
        <2> QED
            BY <2>2, ThrowIs DEF Unmarks, CoreInv, Shapes
    <1>4. StepEffect(r)
        BY <1>1, <1>3 DEF StepEffect, CoreInv, Shapes, TabShape
    <1> QED
        BY <1>1, <1>2, <1>4, EffectCore DEF QueueInv

\* Nobody else holds the lifecycle lock.
Alone(a) == \A b \in Finalizers : b # a => fin[b].pc \in {"idle", "wait"}
OthersFin(a) == \A b \in Finalizers : b # a => fin'[b] = fin[b]

\* What a finalization is after a step of its own.
FinGood(a) ==
    /\ Finalizing(a) => fin[a].task \in Tasks /\ task[fin[a].task].state = "finishing"
    /\ fin[a].pc \in {"close", "closing"} => task[fin[a].task].leases = 0
    /\ \A c \in fin[a].cands : c.task \in Tasks
    /\ a \in Requests /\ fin[a].pc # "idle" => At(a, "finish")

\* The steps of the one that holds the lock, or that leaves the tasks alone.
LEMMA LockedCore ==
    ASSUME CoreInv, NEW a \in Finalizers, FinShape', TaskShape', TabShape', PermShape', OthersFin(a),
           req' = req, place' = place, SameLeases,
           \/ Alone(a)
           \/ fin'[a].pc \in {"idle", "wait"} /\ SameStates,
           \/ run' = run
           \/ a \in Requests /\ At(a, "finish") /\ fin'[a].pc = "idle" /\ \E c \in Outcomes : Stop(a, c),
           \A k \in Tasks : task'[k].state \in {"none", "finished", "expired"} => task[k].leases = 0,
           FinGood(a)'
    PROVE  CoreInv' /\ OutRests
    <1>1. /\ RunShape' /\ RunsInside' /\ OutRests /\ \A s \in Requests : SameTokens(s)
          /\ \A s \in Requests : s # a => run'[s] = run[s]
        <2>1. CASE run' = run
            BY <2>1, InsideStays DEF CoreInv, Shapes, RunShape
        <2>2. CASE a \in Requests /\ At(a, "finish") /\ \E c \in Outcomes : Stop(a, c)
            <3>1. place[a] = "in" /\ PlacesKept(a)
                BY <2>2 DEF CoreInv, RunsInside, At, PlacesKept
            <3> QED
                BY <2>2, <3>1, StopInside DEF CoreInv, Shapes, OthersRun
        <2> QED
            BY <2>1, <2>2
    <1>2. LeasesCounted'
        BY <1>1, CountsStay DEF CoreInv
    <1>3. Shapes'
        BY <1>1 DEF Shapes
    <1>4. ASSUME NEW b \in Finalizers, b # a
          PROVE  FinGood(b)'
        <2>1. fin'[b] = fin[b] /\ FinGood(b)
            BY <1>4 DEF OthersFin, CoreInv, OneFinalizer, FinGood
        <2>2. At(b, "finish") /\ b \in Requests => At(b, "finish")'
            BY <1>1, <1>4 DEF At, Running, Program
        <2>3. CASE fin[b].pc \in {"idle", "wait"}
            BY <2>1, <2>2, <2>3 DEF FinGood, Finalizing
        <2>4. CASE fin[b].pc \notin {"idle", "wait"}
            <3>1. SameStates
                BY <1>4, <2>4 DEF Alone
            <3> QED
                BY <2>1, <2>2, <3>1 DEF FinGood, Finalizing, SameStates, SameLeases
        <2> QED
            BY <2>3, <2>4
    <1>5. \A b \in Finalizers : FinGood(b)'
        BY <1>4
    <1>6. \A b, c \in Finalizers :
             fin'[b].pc \notin {"idle", "wait"} /\ fin'[c].pc \notin {"idle", "wait"} => b = c
        BY DEF OthersFin, Alone, CoreInv, OneFinalizer
    <1>7. Requests \subseteq Finalizers
        BY DEF Finalizers
    <1>8. OneFinalizer'
        BY <1>5, <1>6, <1>7 DEF OneFinalizer, FinGood
    <1> QED
        BY <1>1, <1>2, <1>3, <1>8 DEF CoreInv

\* Who holds the lock is alone.
LEMMA HolderIsAlone ==
    ASSUME CoreInv, NEW a \in Finalizers, fin[a].pc \notin {"idle", "wait"} \/ LockFree
    PROVE  Alone(a) /\ FinGood(a)
    BY DEF CoreInv, OneFinalizer, Alone, LockFree, FinGood

\* finishTask finds a task that is active, suspended or finished.
LEMMA ResolveScopedIs ==
    ASSUME NEW r, resolveScoped(r) # None
    PROVE  /\ resolveScoped(r) \in Tasks
           /\ task[resolveScoped(r)].state \in {"active", "suspended", "finished"}
    <1> DEFINE mine == {k \in Tasks : task[k].owner = req[r].owner /\
                                      task[k].state \in {"active", "suspended", "finished"}}
               found == IF req[r].task = None THEN mine ELSE mine \cap {req[r].task}
    <1>1. resolveScoped(r) = IF Cardinality(found) = 1 THEN CHOOSE k \in found : TRUE ELSE None
        BY DEF resolveScoped
    <1>2. Cardinality(found) = 1 => found # {}
        BY FS_EmptySet
    <1>3. resolveScoped(r) \in found
        BY <1>1, <1>2
    <1> QED
        BY <1>3

\* The finalizer that is idle.
LEMMA NoFinIs ==
    /\ DOMAIN NoFin = {"pc", "task", "all", "todo", "tab", "idx", "cands", "changed"}
    /\ NoFin.pc = "idle" /\ NoFin.cands = {}
    BY DEF NoFin

\* A finalization that goes back to where it began.
LEMMA IdleIsGood ==
    ASSUME FinShape, NEW a \in Finalizers, fin' = [fin EXCEPT ![a] = NoFin]
    PROVE  FinShape' /\ OthersFin(a) /\ FinGood(a)' /\ fin'[a].pc = "idle"
    <1>1. FinShape' /\ OthersFin(a) /\ fin'[a].pc = "idle" /\ fin'[a].cands = {}
        BY NoFinIs DEF FinShape, OthersFin
    <1> QED
        BY <1>1 DEF FinGood, Finalizing

\* finishTask makes the task finalizing before it waits for the leases.
LEMMA FinishBeginsCore ==
    ASSUME CoreInv, QueueInv, NEW r \in Requests, FinishBegins(r), place' = place
    PROVE  CoreInv' /\ OutRests
    <1> DEFINE k == resolveScoped(r)
    <1>1. At(r, "finish") /\ fin[r] = NoFin /\ LockFree /\ req' = req /\ tab' = tab /\ r \in Finalizers
        BY DEF FinishBegins, Finalizers
    <1>2. Alone(r) /\ FinGood(r) /\ r \in DOMAIN req /\ StepOf(r) = "finish"
        BY <1>1, HolderIsAlone DEF At, StepOf, CoreInv, RunsInside, QueueInv, InLine
    <1>3. CASE k = None
        <2>1. Throw(r, "TASK_NOT_FOUND") /\ fin' = fin
            BY <1>3 DEF FinishBegins
        <2>2. RunShape' /\ TaskShape' /\ PermShape' /\ OthersRun(r) /\ Thrown(r)
            BY <2>1, ThrowIs DEF Throw, Outcomes, CoreInv, Shapes, PermShape
        <2>3. StepEffect(r)
            BY <1>1, <2>2 DEF StepEffect, CoreInv, Shapes, TabShape
        <2> QED
            BY <1>1, <1>2, <2>1, <2>3, EffectCore, NoFinIs DEF QueueInv
    <1>4. CASE k # None
        <2>1. k \in Tasks /\ task[k].state \in {"active", "suspended", "finished"}
            BY <1>4, ResolveScopedIs
        <2>2. /\ TaskShape /\ FinShape /\ TabShape' /\ (perm' = perm => PermShape') /\ DOMAIN fin[r] = DOMAIN NoFin
              /\ \A j \in Tasks : task[j].state \in {"none", "finished", "expired"} => task[j].leases = 0
            BY <1>1 DEF CoreInv, Shapes, TabShape, PermShape, LeasesCounted
        <2>3. CASE task[k].state = "finished" \/ hasLongLivedTaskActivity(k)
            <3>1. /\ \E c \in Outcomes : Stop(r, c)
                  /\ fin' = fin /\ perm' = perm
                BY <1>4, <2>3 DEF FinishBegins, Stop, Outcomes
            <3>2. /\ TaskShape' /\ SameLeases
                  /\ \A j \in Tasks : task'[j].state \in {"none", "finished", "expired"} => task[j].leases = 0
                <4>1. CASE task' = task
                    BY <2>2, <4>1 DEF TaskShape, SameLeases
                <4>2. CASE task' = [task EXCEPT ![k] = Resolved(k, r)] /\ task[k].state # "finished"
                    <5> DEFINE new == Resolved(k, r)
                    <5>1. /\ DOMAIN new = {"state", "owner", "tabs", "leases", "idle"}
                          /\ new.state = "active" /\ new.leases = task[k].leases
                        BY <2>1, <2>2 DEF Resolved, TaskShape
                    <5> HIDE DEF new
                    <5> QED
                        BY <2>1, <2>2, <4>2, <5>1 DEF TaskShape, SameLeases, new
                <4> QED
                    BY <1>4, <2>3, <4>1, <4>2 DEF FinishBegins
            <3>3. FinShape' /\ OthersFin(r) /\ fin'[r].pc = "idle" /\ FinGood(r)'
                BY <1>1, <2>2, <3>1, NoFinIs DEF FinShape, OthersFin, FinGood, Finalizing
            <3> QED
                BY <1>1, <1>2, <2>2, <3>1, <3>2, <3>3, LockedCore
        <2>4. CASE task[k].state # "finished" /\ ~hasLongLivedTaskActivity(k)
            <3> DEFINE new == [NoFin EXCEPT !.pc = "drain", !.task = k, !.all = task[k].tabs, !.todo = task[k].tabs]
            <3>1. task' = Begun(k) /\ fin' = [fin EXCEPT ![r] = new] /\ run' = run /\ perm' = perm
                BY <1>4, <2>4 DEF FinishBegins
            <3>2. DOMAIN new = DOMAIN NoFin /\ new.pc = "drain" /\ new.task = k /\ new.cands = {}
                BY DEF NoFin
            <3> HIDE DEF new, k
            <3>3. /\ TaskShape' /\ SameLeases /\ task'[k].state = "finishing"
                  /\ \A j \in Tasks : j # k => task'[j] = task[j]
                BY <2>1, <2>2, <3>1 DEF Begun, TaskShape, SameLeases
            <3>4. FinShape' /\ OthersFin(r) /\ fin'[r] = new
                BY <1>1, <2>2, <3>1, <3>2, NoFinIs DEF FinShape, OthersFin
            <3>5. At(r, "finish")'
                BY <1>1, <3>1 DEF At, Running, Program
            <3>6. FinGood(r)'
                BY <2>1, <3>2, <3>3, <3>4, <3>5 DEF FinGood, Finalizing
            <3> QED
                BY <1>1, <1>2, <2>2, <3>1, <3>3, <3>4, <3>6, LockedCore
        <2> QED
            BY <2>3, <2>4
    <1> QED
        BY <1>3, <1>4

\* A finalization that an exception ends.
LEMMA FinalizationFailsCore ==
    ASSUME CoreInv, NEW a \in Finalizers, Finalizing(a), NEW code \in Outcomes, NEW d,
           FinalizationFails(a, code, d), place' = place
    PROVE  CoreInv' /\ OutRests
    <1> DEFINE k == fin[a].task
    <1>1. Alone(a) /\ FinGood(a)
        BY HolderIsAlone DEF Finalizing
    <1>2. k \in Tasks /\ task[k].state = "finishing" /\ (a \in Requests => At(a, "finish"))
        BY <1>1 DEF FinGood, Finalizing
    <1>3. /\ req' = req /\ tab' = tab /\ perm' = perm /\ fin' = [fin EXCEPT ![a] = NoFin]
          /\ task' = [task EXCEPT ![k].state = "active", ![k].idle = FALSE]
          /\ run' = IF a = Reaper THEN run ELSE [run EXCEPT ![a].out = code]
        BY <1>2 DEF FinalizationFails
    <1>4. /\ TaskShape' /\ SameLeases
          /\ \A j \in Tasks : task'[j].state \in {"none", "finished", "expired"} => task[j].leases = 0
        BY <1>2, <1>3 DEF CoreInv, Shapes, TaskShape, SameLeases, LeasesCounted
    <1>5. FinShape' /\ OthersFin(a) /\ FinGood(a)' /\ fin'[a].pc = "idle"
        BY <1>3, IdleIsGood DEF CoreInv, Shapes
    <1>6. \/ run' = run
          \/ a \in Requests /\ At(a, "finish") /\ fin'[a].pc = "idle" /\ \E c \in Outcomes : Stop(a, c)
        BY <1>2, <1>3, <1>5 DEF Finalizers, Stop
    <1> QED
        BY <1>1, <1>3, <1>4, <1>5, <1>6, LockedCore DEF CoreInv, Shapes, TabShape, PermShape

\* It goes on when they are gone.
LEMMA DrainCore ==
    ASSUME CoreInv, NEW r \in Requests, Drain(r), place' = place
    PROVE  CoreInv' /\ OutRests
    <1>1. /\ fin[r].pc = "drain" /\ task[fin[r].task].leases = 0 /\ fin' = [fin EXCEPT ![r].pc = "close"]
          /\ req' = req /\ task' = task /\ tab' = tab /\ perm' = perm /\ run' = run /\ r \in Finalizers
        BY DEF Drain, Finalizers
    <1>2. Alone(r) /\ FinGood(r)
        BY <1>1, HolderIsAlone
    <1>3. /\ FinShape' /\ OthersFin(r) /\ fin'[r].pc = "close" /\ fin'[r].task = fin[r].task /\ fin'[r].cands = fin[r].cands
        BY <1>1 DEF CoreInv, Shapes, FinShape, OthersFin
    <1>4. At(r, "finish")'
        BY <1>1, <1>2 DEF FinGood, At, Running, Program
    <1>5. FinGood(r)'
        BY <1>1, <1>2, <1>3, <1>4 DEF FinGood, Finalizing
    <1> QED
        BY <1>1, <1>2, <1>3, <1>5, TaskRests, LockedCore DEF CoreInv, Shapes, TabShape, PermShape

\* It returns when the tabs are closed.
LEMMA FinishReturnsCore ==
    ASSUME CoreInv, NEW r \in Requests, FinishReturns(r), place' = place
    PROVE  CoreInv' /\ OutRests
    <1>1. /\ fin[r].pc = "save" /\ fin' = [fin EXCEPT ![r] = NoFin]
          /\ req' = req /\ task' = task /\ tab' = tab /\ perm' = perm /\ r \in Finalizers
          /\ \E c \in Outcomes : Stop(r, c)
        BY DEF FinishReturns, Finalizers, Stop, Outcomes
    <1>2. Alone(r) /\ FinGood(r)
        BY <1>1, HolderIsAlone
    <1>3. FinShape' /\ OthersFin(r) /\ FinGood(r)' /\ fin'[r].pc = "idle" /\ At(r, "finish")
        BY <1>1, <1>2, IdleIsGood DEF CoreInv, Shapes, FinGood
    <1> QED
        BY <1>1, <1>2, <1>3, TaskRests, LockedCore DEF CoreInv, Shapes, TabShape, PermShape

\* The steps that close the tabs of a task one by one.
LEMMA FinKeepsClosing ==
    ASSUME CoreInv, NEW a \in Finalizers, fin[a].pc \in {"close", "closing"}, fin'[a].pc \in {"close", "closing"},
           fin'[a].task = fin[a].task, fin'[a].cands = fin[a].cands, run' = run, req' = req,
           SameStates, SameLeases
    PROVE  FinGood(a)'
    <1>1. FinGood(a)
        BY HolderIsAlone
    <1>2. At(a, "finish") => At(a, "finish")'
        BY DEF At, Running, Program
    <1> QED
        BY <1>1, <1>2 DEF FinGood, Finalizing, SameStates, SameLeases

\* A finalizer that discards a tab changes neither states nor leases.
LEMMA DiscardIs ==
    ASSUME CoreInv, NEW a \in Finalizers, NEW t, Discard(a, t)
    PROVE  /\ TaskShape' /\ TabShape' /\ SameStates /\ SameLeases
           /\ FinShape' /\ OthersFin(a) /\ fin'[a].pc = "close" /\ fin'[a].task = fin[a].task
           /\ fin'[a].cands = fin[a].cands
    <1>1. TaskShape' /\ SameStates /\ SameLeases
        BY DetachedIs DEF Discard, CoreInv, Shapes
    <1>2. TabShape'
        BY ForgottenIs DEF Discard, CoreInv, Shapes
    <1>3. /\ FinShape' /\ OthersFin(a) /\ fin'[a].pc = "close" /\ fin'[a].task = fin[a].task
          /\ fin'[a].cands = fin[a].cands
        BY DEF Discard, CoreInv, Shapes, FinShape, OthersFin
    <1> QED
        BY <1>1, <1>2, <1>3

\* Closing tabs keeps CoreInv.
LEMMA ClosingCore ==
    ASSUME CoreInv, NEW a \in Finalizers, fin[a].pc \in {"close", "closing"}, place' = place, req' = req, run' = run,
           TaskShape', TabShape', PermShape', SameStates, SameLeases, FinShape', OthersFin(a),
           fin'[a].pc \in {"close", "closing"}, fin'[a].task = fin[a].task, fin'[a].cands = fin[a].cands
    PROVE  CoreInv' /\ OutRests
    <1>1. Alone(a) /\ FinGood(a)'
        BY HolderIsAlone, FinKeepsClosing
    <1>2. \A k \in Tasks : task'[k].state \in {"none", "finished", "expired"} => task[k].leases = 0
        BY DEF SameStates, CoreInv, LeasesCounted
    <1> QED
        BY <1>1, <1>2, LockedCore

\* Going to the next tab.
LEMMA ReachTabCore ==
    ASSUME CoreInv, NEW a \in Finalizers, ReachTab(a), place' = place
    PROVE  CoreInv' /\ OutRests
    <1>1. fin[a].pc = "close" /\ Finalizing(a)
        BY DEF ReachTab, Finalizing
    <1>2. ASSUME NEW c \in Outcomes, NEW d, FinalizationFails(a, c, d)
          PROVE  CoreInv' /\ OutRests
        BY <1>1, <1>2, FinalizationFailsCore
    <1>3. ASSUME NEW t, Discard(a, t), UNCHANGED <<req, drv, perm, run, acts>>
          PROVE  CoreInv' /\ OutRests
        <2>1. /\ TaskShape' /\ TabShape' /\ SameStates /\ SameLeases
              /\ FinShape' /\ OthersFin(a) /\ fin'[a].pc = "close" /\ fin'[a].task = fin[a].task
              /\ fin'[a].cands = fin[a].cands
            BY <1>3, DiscardIs
        <2> QED
            BY <1>1, <1>3, <2>1, ClosingCore DEF CoreInv, Shapes, PermShape
    <1>4. CASE Reconnect(fin[a].task) /\ UNCHANGED <<req, run, fin, acts>>
        <2>1. TaskShape' /\ TabShape' /\ PermShape' /\ SameStates /\ SameLeases
            BY <1>4, ReconnectIs DEF CoreInv, Shapes
        <2>2. FinShape' /\ OthersFin(a)
            BY <1>4 DEF CoreInv, Shapes, FinShape, OthersFin
        <2> QED
            BY <1>1, <1>4, <2>1, <2>2, ClosingCore
    <1>5. PICK t \in fin[a].todo : Reaching(a, t)
        BY DEF ReachTab
    <1>6. CASE FinalizationFails(a, "BROWSER_CONTEXT_RECOVERY_FAILED", Down) \/ FinalizationFails(a, "STALE_TAB_ID", drv)
        BY <1>2, <1>6 DEF Outcomes
    <1>7. CASE Discard(a, t) /\ UNCHANGED <<req, drv, perm, run, acts>>
        BY <1>3, <1>7
    <1>8. CASE /\ UNCHANGED <<req, task, tab, perm, run>>
               /\ \/ fin' = [fin EXCEPT ![a].todo = @ \ {t}]
                  \/ fin' = [fin EXCEPT ![a].pc = "closing", ![a].tab = t, ![a].idx = IndexOf(tab[t].page)]
        <2>1. /\ FinShape' /\ OthersFin(a) /\ fin'[a].pc \in {"close", "closing"} /\ fin'[a].task = fin[a].task
              /\ fin'[a].cands = fin[a].cands
            BY <1>1, <1>8 DEF CoreInv, Shapes, FinShape, OthersFin
        <2>2. TabShape' /\ PermShape' /\ TaskShape' /\ SameStates /\ SameLeases
            BY <1>8, TaskRests DEF CoreInv, Shapes, TabShape, PermShape
        <2>3. req' = req /\ run' = run
            BY <1>8
        <2> QED
            BY <1>1, <2>1, <2>2, <2>3, ClosingCore
    <1>10. CASE ~tab[t].reg
        <2>1. UNCHANGED <<req, task, tab, perm, run>> /\ fin' = [fin EXCEPT ![a].todo = @ \ {t}]
            BY <1>5, <1>10 DEF Reaching
        <2> QED
            BY <1>8, <2>1
    <1>11. CASE tab[t].reg /\ (~drv.alive \/ tab[t].page = None)
        BY <1>5, <1>7, <1>11 DEF Reaching
    <1>12. CASE tab[t].reg /\ ~(~drv.alive \/ tab[t].page = None) /\ ~Ready
        BY <1>4, <1>5, <1>6, <1>12 DEF Reaching
    <1>13. CASE tab[t].reg /\ ~(~drv.alive \/ tab[t].page = None) /\ Ready /\ tab[t].page \notin ToSet(drv.pages)
        BY <1>5, <1>6, <1>13 DEF Reaching
    <1>14. CASE tab[t].reg /\ ~(~drv.alive \/ tab[t].page = None) /\ Ready /\ tab[t].page \in ToSet(drv.pages)
        <2>1. /\ UNCHANGED <<req, task, tab, perm, run>>
              /\ fin' = [fin EXCEPT ![a].pc = "closing", ![a].tab = t, ![a].idx = IndexOf(tab[t].page)]
            BY <1>5, <1>14 DEF Reaching
        <2> QED
            BY <1>8, <2>1
    <1> QED
        BY <1>10, <1>11, <1>12, <1>13, <1>14

\* Closing the page.
LEMMA ClosePageCore ==
    ASSUME CoreInv, NEW a \in Finalizers, ClosePage(a), place' = place
    PROVE  CoreInv' /\ OutRests
    <1>1. fin[a].pc = "closing" /\ Discard(a, fin[a].tab) /\ req' = req /\ perm' = perm /\ run' = run
        BY DEF ClosePage
    <1>2. /\ TaskShape' /\ TabShape' /\ SameStates /\ SameLeases
          /\ FinShape' /\ OthersFin(a) /\ fin'[a].pc = "close" /\ fin'[a].task = fin[a].task
          /\ fin'[a].cands = fin[a].cands
        BY <1>1, DiscardIs
    <1> QED
        BY <1>1, <1>2, ClosingCore DEF CoreInv, Shapes, PermShape

\* The task is over, with no lease.
LEMMA TaskEndsCore ==
    ASSUME CoreInv, NEW a \in Finalizers, TaskEnds(a), place' = place
    PROVE  CoreInv' /\ OutRests
    <1> DEFINE k == fin[a].task
               end == IF a = Reaper THEN "expired" ELSE "finished"
    <1>1. /\ fin[a].pc = "close" /\ req' = req /\ tab' = tab /\ run' = run
          /\ perm' = Revoked(k, fin[a].all)
          /\ task' = Completed(k, end)
          /\ fin' = [fin EXCEPT ![a].pc = IF a = Reaper THEN "look" ELSE "save", ![a].changed = TRUE]
        BY DEF TaskEnds
    <1>2. Alone(a) /\ FinGood(a)
        BY <1>1, HolderIsAlone
    <1>3. k \in Tasks /\ task[k].leases = 0 /\ end # "none"
        BY <1>1, <1>2 DEF FinGood, Finalizing
    <1> HIDE DEF end
    <1>4. PermShape'
        BY <1>1 DEF CoreInv, Shapes, PermShape, Revoked
    <1>5. /\ TaskShape' /\ SameLeases
          /\ \A j \in Tasks : j # k => task'[j] = task[j]
        BY <1>1, <1>3 DEF CoreInv, Shapes, TaskShape, SameLeases, Completed
    <1>6. \A j \in Tasks : task'[j].state \in {"none", "finished", "expired"} => task[j].leases = 0
        BY <1>3, <1>5 DEF CoreInv, LeasesCounted
    <1>7. FinShape' /\ OthersFin(a) /\ fin'[a].pc \in {"look", "save"} /\ fin'[a].cands = fin[a].cands
        BY <1>1 DEF CoreInv, Shapes, FinShape, OthersFin
    <1>8. At(a, "finish") => At(a, "finish")'
        BY <1>1 DEF At, Running, Program
    <1>9. FinGood(a)'
        BY <1>1, <1>2, <1>7, <1>8 DEF FinGood, Finalizing
    <1> QED
        BY <1>1, <1>2, <1>4, <1>5, <1>6, <1>7, <1>9, LockedCore DEF CoreInv, Shapes, TabShape

\* The reaper.
LEMMA ReaperTicksCore ==
    ASSUME CoreInv, ReaperTicks, place' = place
    PROVE  CoreInv' /\ OutRests
    <1> DEFINE cs == {[task |-> k, tabs |-> task[k].tabs] : k \in {j \in Tasks : Expirable(j)}}
               new == [NoFin EXCEPT !.pc = "wait", !.cands = cs]
    <1>1. /\ fin' = [fin EXCEPT ![Reaper] = new] /\ Reaper \in Finalizers
          /\ req' = req /\ task' = task /\ tab' = tab /\ perm' = perm /\ run' = run
        BY DEF ReaperTicks, Finalizers
    <1>2. \A c \in cs : c.task \in Tasks
        OBVIOUS
    <1> HIDE DEF cs
    <1>3. DOMAIN new = DOMAIN NoFin /\ new.pc = "wait" /\ new.cands = cs
        BY DEF NoFin
    <1> HIDE DEF new
    <1>4. FinShape' /\ OthersFin(Reaper) /\ fin'[Reaper] = new
        BY <1>1, <1>3, NoFinIs DEF CoreInv, Shapes, FinShape, OthersFin
    <1>5. FinGood(Reaper)'
        BY <1>2, <1>3, <1>4, NamesAssumption DEF FinGood, Finalizing
    <1> QED
        BY <1>1, <1>3, <1>4, <1>5, TaskRests, LockedCore DEF CoreInv, Shapes, TabShape, PermShape

\* The reaper takes a task only when it is idle and nobody finalizes it.
LEMMA ReaperLooksCore ==
    ASSUME CoreInv, ReaperLooks, place' = place
    PROVE  CoreInv' /\ OutRests
    <1>1. /\ Reaper \in Finalizers /\ req' = req /\ tab' = tab /\ perm' = perm /\ run' = run
          /\ LockFree \/ fin[Reaper].pc = "look"
        BY DEF ReaperLooks, Finalizers
    <1>2. Alone(Reaper) /\ FinGood(Reaper)
        BY <1>1, HolderIsAlone
    <1>3. CASE fin[Reaper].cands = {}
        <2>1. fin' = [fin EXCEPT ![Reaper] = NoFin] /\ task' = task
            BY <1>3 DEF ReaperLooks
        <2>2. FinShape' /\ OthersFin(Reaper) /\ FinGood(Reaper)'
            BY <1>1, <2>1, IdleIsGood DEF CoreInv, Shapes
        <2> QED
            BY <1>1, <1>2, <2>1, <2>2, TaskRests, LockedCore DEF CoreInv, Shapes, TabShape, PermShape
    <1>4. CASE fin[Reaper].cands # {}
        <2>1. PICK c \in fin[Reaper].cands :
                 /\ fin' = [fin EXCEPT ![Reaper] = Looks(c)]
                 /\ task' = IF MayExpire(c) THEN Begun(c.task) ELSE task
            BY <1>4 DEF ReaperLooks
        <2>2. c.task \in Tasks
            BY <1>2 DEF FinGood
        <2>3. /\ DOMAIN Looks(c) = DOMAIN NoFin
              /\ Looks(c).pc = IF MayExpire(c) THEN "close" ELSE "look"
              /\ Looks(c).task = c.task /\ Looks(c).cands \subseteq fin[Reaper].cands
            BY <1>1, NoFinIs DEF Looks, CoreInv, Shapes, FinShape
        <2>4. FinShape' /\ OthersFin(Reaper) /\ fin'[Reaper] = Looks(c)
            BY <1>1, <2>1, <2>3, NoFinIs DEF CoreInv, Shapes, FinShape, OthersFin
        <2>5. /\ TaskShape' /\ SameLeases
              /\ \A j \in Tasks : task'[j].state \in {"none", "finished", "expired"} => task[j].leases = 0
              /\ MayExpire(c) => task'[c.task].state = "finishing"
            <3>1. CASE MayExpire(c)
                BY <2>1, <2>2, <3>1 DEF Begun, CoreInv, Shapes, TaskShape, SameLeases, LeasesCounted
            <3>2. CASE ~MayExpire(c)
                BY <2>1, <3>2, TaskRests
            <3> QED
                BY <3>1, <3>2
        <2>6. MayExpire(c) => task'[c.task].leases = 0
            BY <2>2, <2>5 DEF MayExpire, Expirable, SameLeases
        <2>7. FinGood(Reaper)'
            BY <1>2, <2>2, <2>3, <2>4, <2>5, <2>6, NamesAssumption DEF FinGood, Finalizing
        <2> QED
            BY <1>1, <1>2, <2>4, <2>5, <2>7, LockedCore DEF CoreInv, Shapes, TabShape, PermShape
    <1> QED
        BY <1>3, <1>4

\* Time and faults.
LEMMA AgesCore ==
    ASSUME CoreInv, Ages, place' = place
    PROVE  CoreInv' /\ OutRests
    <1>1. req' = req /\ tab' = tab /\ run' = run /\ fin' = fin
        BY DEF Ages
    <1>2. PermShape'
        BY DEF Ages, CoreInv, Shapes, PermShape
    <1>3. CASE task' = task
        BY <1>1, <1>2, <1>3, RestCore DEF CoreInv, Shapes, TabShape
    <1>4. CASE \E k \in Tasks : task' = [task EXCEPT ![k].idle = TRUE]
        <2>1. TaskShape' /\ SameStates /\ SameLeases
            BY <1>4 DEF CoreInv, Shapes, TaskShape, SameStates, SameLeases
        <2>2. RunsInside' /\ OutRests /\ \A s \in Requests : SameTokens(s)
            BY <1>1, InsideStays DEF CoreInv
        <2>3. LeasesCounted'
            BY <2>1, <2>2, SameIsCounted DEF CoreInv
        <2>4. OneFinalizer'
            BY <1>1, <2>1, SameIsGuarded, FinalizersStay DEF CoreInv
        <2>5. Shapes'
            BY <1>1, <1>2, <2>1 DEF CoreInv, Shapes, RunShape, TabShape, FinShape
        <2> QED
            BY <2>2, <2>3, <2>4, <2>5 DEF CoreInv
    <1> QED
        BY <1>3, <1>4 DEF Ages

\* CoreInv is inductive, given the queue's invariant.
LEMMA CoreStep ==
    ASSUME CoreInv, QueueInv, Leaders, [Next]_vars
    PROVE  CoreInv' /\ OutRests
    <1>1. ASSUME NEW r \in Requests, Serve(r)
          PROVE  CoreInv' /\ OutRests
        <2>1. CASE Turn(r) \/ Relay(r)
            BY <2>1, ArriveCore
        <2>2. CASE Wake(r)
            BY <2>2, GivesUpCore
        <2>3. CASE Start(r)
            BY <2>3, StartCore
        <2>4. CASE Operate(r)
            BY <2>4, OperateCore
        <2>5. CASE Finish(r)
            BY <2>5, FinishBeginsCore, DrainCore, FinishReturnsCore DEF Finish, FinishStep, queueVars
        <2>6. CASE Complete(r)
            BY <2>6, CompleteCore
        <2>7. CASE DrainStops(r)
            <3>1. r \in Finalizers /\ Finalizing(r) /\ FinalizationFails(r, "TASK_SUSPENDED", drv) /\ place' = place
                BY <2>7 DEF DrainStops, DrainFails, Finalizers, Finalizing, queueVars
            <3> QED
                BY <3>1, FinalizationFailsCore DEF Outcomes
        <2> QED
            BY <1>1, <2>1, <2>2, <2>3, <2>4, <2>5, <2>6, <2>7 DEF Serve
    <1>2. ASSUME NEW r \in Requests, Arrive(r) \/ Abort(r)
          PROVE  CoreInv' /\ OutRests
        BY <1>2, ArriveCore, GivesUpCore
    <1>3. ASSUME NEW a \in Finalizers, Finalize(a)
          PROVE  CoreInv' /\ OutRests
        BY <1>3, ReachTabCore, ClosePageCore, TaskEndsCore DEF Finalize, FinalizerStep, queueVars
    <1>4. CASE Reap
        BY <1>4, ReaperTicksCore, ReaperLooksCore DEF Reap, queueVars
    <1>5. ASSUME UNCHANGED <<req, task, tab, perm, run, fin, place>>
          PROVE  CoreInv' /\ OutRests
        BY <1>5, RestCore DEF CoreInv, Shapes, TabShape, PermShape
    <1>6. CASE ShutDownIdle \/ Forget
        BY <1>5, <1>6 DEF ShutDownIdle, IdleShutdown, Forget, runtimeVars, queueVars
    <1>7. CASE Disturb
        <2>1. place' = place
            BY <1>7 DEF Disturb, queueVars
        <2>2. CASE BrowserDies \/ PageCloses
            BY <1>5, <2>1, <2>2 DEF BrowserDies, PageCloses
        <2>3. ASSUME NEW a \in Finalizers, CloseFails(a)
              PROVE  CoreInv' /\ OutRests
            BY <2>1, <2>3, FinalizationFailsCore DEF CloseFails, Finalizing, Outcomes
        <2> QED
            BY <1>7, <2>1, <2>2, <2>3, AgesCore, DriverFailsCore DEF Disturb
    <1>8. CASE UNCHANGED vars
        BY <1>5, <1>8 DEF vars, runtimeVars, queueVars
    <1> QED
        BY <1>1, <1>2, <1>3, <1>4, <1>6, <1>7, <1>8 DEF Next

\* CoreInv holds at the start.
LEMMA CoreBegins ==
    ASSUME Init
    PROVE  CoreInv
    <1>1. PICK s \in Scenarios : req = s.req /\ task = s.task /\ tab = s.tab /\ drv = s.drv /\ perm = s.perm
        BY DEF Init
    <1>2. Shapes
        <2>1. RunShape
            BY DEF Init, RunShape
        <2>2. TaskShape /\ TabShape
            BY <1>1, ScenariosAssumption DEF TaskShape, TabShape, TaskRecords, TabRecords
        <2>3. FinShape
            BY NoFinIs DEF Init, FinShape
        <2>4. PermShape
            BY <1>1, ScenariosAssumption DEF PermShape
        <2> QED
            BY <2>1, <2>2, <2>3, <2>4 DEF Shapes
    <1>3. ASSUME NEW r \in Requests
          PROVE  run[r].at = 0 /\ run[r].held = 0
        <2>1. run = [q \in Requests |-> [at |-> 0, task |-> None, held |-> 0, tab |-> None, mode |-> "none",
                                         idx |-> 0, mark |-> {}, out |-> None]]
            BY DEF Init
        <2> QED
            BY <2>1
    <1>4. RunsInside
        <2>1. ASSUME NEW r \in Requests
              PROVE  /\ run[r].at \in Nat /\ run[r].held \in 0..2
                     /\ run[r].at = 0 => run[r].held = 0
                     /\ run[r].held > 0 => run[r].task \in Tasks /\ place[r] = "in"
                     /\ Running(r) => place[r] = "in" /\ run[r].held = HeldAt(req[r].op, run[r].at)
            BY <1>3 DEF Running
        <2> QED
            BY <2>1, Zenon DEF RunsInside
    <1>5. LeasesCounted
        <2>1. \A k \in Tasks : Tokens(k) = {}
            BY <1>3 DEF Tokens
        <2>2. \A k \in Tasks : task[k].leases = 0
            BY <1>1, ScenariosAssumption
        <2> QED
            BY <2>1, <2>2, FS_EmptySet DEF LeasesCounted
    <1>6. OneFinalizer
        <2>1. \A a \in Finalizers : fin[a].pc = "idle" /\ fin[a].cands = {}
            BY NoFinIs DEF Init
        <2>2. Requests \subseteq Finalizers
            BY DEF Finalizers
        <2> QED
            BY <2>1, <2>2 DEF OneFinalizer, Finalizing
    <1> QED
        BY <1>2, <1>4, <1>5, <1>6 DEF CoreInv

-----------------------------------------------------------------------------
(***************************************************************************)
(* A repeated call has one operation: NoTwinRuns                           *)
(***************************************************************************)
\* Who is out of the queue comes back only by arriving.
LEMMA OutStays ==
    ASSUME QueueInv, [Next]_vars, NEW s \in Requests, place[s] = "out", ~Arrive(s)
    PROVE  place'[s] = "out"
    <1>0. place \in [Requests -> Places]
        BY DEF QueueInv, QueueTypeOK
    <1>1. CASE UNCHANGED queueVars
        BY <1>1 DEF queueVars
    <1>2. ASSUME NEW r \in Requests, Arrive(r)
          PROVE  place'[s] = "out"
        <2>1. r # s
            BY <1>2
        <2>2. CASE UNCHANGED queueVars
            BY <2>2 DEF queueVars
        <2>3. CASE Join(r, operationQueueKey(r))
            BY <1>0, <2>1, <2>3 DEF Join
        <2> QED
            BY <1>2, <2>2, <2>3 DEF Arrive
    <1>3. ASSUME NEW r \in Requests, Turn(r)
          PROVE  place'[s] = "out"
        BY <1>0, <1>3 DEF Turn, TakeTurn, TakeSlot
    <1>4. ASSUME NEW r \in Requests, Wake(r)
          PROVE  place'[s] = "out"
        BY <1>0, <1>4 DEF Wake, GiveUp, Resume, TakeSlot
    <1>5. ASSUME NEW r \in Requests, Complete(r)
          PROVE  place'[s] = "out"
        <2>1. waiters # <<>> => place[Head(waiters)] = "slot"
            <3>1. waiters # <<>> => Len(waiters) \in Nat /\ 1 \in 1..Len(waiters) /\ Head(waiters) = waiters[1]
                BY DEF QueueInv, QueueTypeOK
            <3> QED
                BY <3>1 DEF QueueInv, WaitersExact
        <2> QED
            BY <1>5, <2>1 DEF Complete, Release
    <1>6. ASSUME NEW r \in Requests, Abort(r)
          PROVE  place'[s] = "out"
        BY <1>0, <1>6 DEF Abort, GiveUp, queueVars
    <1> QED
        BY <1>1, <1>2, <1>3, <1>4, <1>5, <1>6, OthersLeaveTheQueue

\* An operation that has settled stays settled.
LEMMA SettledStays ==
    ASSUME QueueInv, OutRests, [Next]_vars, NEW s \in Requests, Settled(s), leader[s] # None
    PROVE  Settled(s)'
    <1>1. place'[s] = "out"
        BY OutStays DEF Settled, Arrive
    <1> QED
        BY <1>1 DEF Settled, OutRests

\* Who leads changes with an arrival, and what is remembered also by forgetting what has ended.
LEMMA OthersKeepLeaders ==
    ASSUME [Next]_vars, \A r \in Requests : ~Arrive(r)
    PROVE  /\ leader' = leader
           /\ entries' = entries \/ \E e \in entries : Settled(e) /\ entries' = entries \ {e}
    <1>1. ASSUME NEW r \in Requests, Serve(r) \/ Abort(r)
          PROVE  leader' = leader /\ entries' = entries
        <2>1. CASE Start(r)
            BY <2>1 DEF Start, appVars
        <2>2. CASE Complete(r)
            BY <2>2 DEF Complete
        <2>3. CASE Abort(r)
            BY <2>3 DEF Abort
        <2>4. CASE Turn(r) \/ Wake(r) \/ Relay(r)
            BY <2>4 DEF Turn, Wake, Relay, appVars
        <2>5. CASE Operate(r) \/ Finish(r) \/ DrainStops(r)
            BY <2>5 DEF Operate, Finish, DrainStops, appVars
        <2> QED
            BY <1>1, <2>1, <2>2, <2>3, <2>4, <2>5 DEF Serve
    <1>2. ASSUME NEW a \in Finalizers, Finalize(a)
          PROVE  leader' = leader /\ entries' = entries
        BY <1>2 DEF Finalize, appVars
    <1>3. CASE Reap \/ ShutDownIdle \/ Disturb
        BY <1>3 DEF Reap, ShutDownIdle, Disturb, appVars
    <1>4. CASE Forget
        BY <1>4 DEF Forget, Prune
    <1> QED
        BY <1>1, <1>2, <1>3, <1>4 DEF Next, vars, appVars

LeadInv == Leaders /\ Remembered /\ NoTwinRuns

\* Steps that appoint no leader keep LeadInv.
LEMMA LeadersKept ==
    ASSUME QueueInv, OutRests, LeadInv, [Next]_vars, leader' = leader,
           entries' = entries \/ \E e \in entries : Settled(e) /\ entries' = entries \ {e},
           \A r \in Requests : leader[r] # r => place'[r] = "out",
           \A r \in Requests : leader[r] = r /\ Settled(r) => Settled(r)'
    PROVE  LeadInv'
    <1>0. req' = req
        BY RequestsStay
    <1>1. Leaders'
        <2>1. ASSUME NEW r \in Requests, leader[r] # r
              PROVE  place'[r] = "out" /\ run'[r] = run[r] /\ run[r].at = 0 /\ run[r].out = None
            BY <2>1 DEF LeadInv, Leaders, OutRests
        <2> QED
            BY <1>0, <2>1 DEF LeadInv, Leaders
    <1>2. \A r \in Requests : Keyed(r)' = Keyed(r) /\ scopedBrowserCallId(r)' = scopedBrowserCallId(r)
        BY <1>0 DEF Keyed, scopedBrowserCallId
    <1>3. Remembered'
        BY <1>2 DEF LeadInv, Remembered, Leaders
    <1>4. NoTwinRuns'
        BY <1>2 DEF LeadInv, NoTwinRuns
    <1> QED
        BY <1>1, <1>3, <1>4 DEF LeadInv

\* LeadInv is inductive, given that what is out of the queue rests.
LEMMA LeadStep ==
    ASSUME QueueInv, OutRests, LeadInv, [Next]_vars
    PROVE  LeadInv'
    <1>0. /\ req' = req
          /\ \A r \in Requests : Keyed(r)' = Keyed(r) /\ scopedBrowserCallId(r)' = scopedBrowserCallId(r)
        BY RequestsStay DEF Keyed, scopedBrowserCallId
    <1>1. \A r \in Requests : leader[r] = r /\ Settled(r) => Settled(r)'
        BY SettledStays, NamesAssumption
    <1>2. CASE \A r \in Requests : ~Arrive(r)
        <2>1. \A r \in Requests : leader[r] # r => place'[r] = "out"
            BY <1>2, OutStays DEF LeadInv, Leaders
        <2> QED
            BY <1>1, <1>2, <2>1, OthersKeepLeaders, LeadersKept
    <1>3. ASSUME NEW r \in Requests, Arrive(r)
          PROVE  LeadInv'
        <2>1. /\ r \in DOMAIN req /\ leader[r] = None /\ leader[r] # r /\ r \notin entries /\ run' = run
              /\ place[r] = "out" /\ run[r].at = 0 /\ run[r].out = None /\ place \in [Requests -> Places]
            BY <1>3, NamesAssumption DEF Arrive, runtimeVars, LeadInv, Leaders, QueueInv, QueueTypeOK
        <2>2. CASE leader' = leader /\ entries' = entries /\ UNCHANGED queueVars
            BY <1>1, <2>2, LeadersKept DEF LeadInv, Leaders, queueVars
        <2>3. ASSUME NEW e \in Known(r), leader' = [leader EXCEPT ![r] = e], entries' = entries, UNCHANGED queueVars
              PROVE  LeadInv'
            <3>1. e \in entries /\ e # r /\ e \in Requests
                BY <2>1, <2>3 DEF Known, LeadInv, Leaders
            <3>2. /\ DOMAIN leader' = Requests /\ leader'[r] = e /\ place' = place
                  /\ \A s \in Requests : s # r => leader'[s] = leader[s]
                  /\ \A s \in Requests : leader'[s] = s <=> leader[s] = s
                BY <2>1, <2>3, <3>1 DEF LeadInv, Leaders, queueVars
            <3>3. Leaders'
                BY <1>0, <2>1, <2>3, <3>2 DEF LeadInv, Leaders
            <3>4. \A s \in Requests : Settled(s)' = Settled(s)
                BY <2>1, <3>2 DEF Settled
            <3>5. Remembered'
                BY <1>0, <2>3, <3>2, <3>4 DEF LeadInv, Remembered
            <3>6. NoTwinRuns'
                BY <1>0, <3>2, <3>4 DEF LeadInv, NoTwinRuns
            <3> QED
                BY <3>3, <3>5, <3>6 DEF LeadInv
        <2>4. CASE /\ leader' = [leader EXCEPT ![r] = r] /\ Join(r, operationQueueKey(r))
                   /\ entries' = IF Keyed(r) THEN entries \cup {r} ELSE entries
                   /\ Keyed(r) => Known(r) = {}
            <3>1. /\ DOMAIN leader' = Requests /\ leader'[r] = r /\ place'[r] = "turn"
                  /\ \A s \in Requests : s # r => leader'[s] = leader[s] /\ place'[s] = place[s]
                BY <2>1, <2>4 DEF LeadInv, Leaders, Join
            <3>2. Leaders'
                BY <1>0, <2>1, <2>4, <3>1 DEF LeadInv, Leaders
            <3>3. \A s \in Requests : s # r => Settled(s)' = Settled(s)
                BY <2>1, <3>1 DEF Settled
            <3>4. Remembered'
                BY <1>0, <2>4, <3>1, <3>3 DEF LeadInv, Remembered
            <3>5. ASSUME NEW s \in Requests, s # r, leader[s] = s, Keyed(r), Keyed(s),
                         scopedBrowserCallId(r) = scopedBrowserCallId(s)
                  PROVE  Settled(s)
                BY <2>4, <3>5 DEF LeadInv, Remembered, Known
            <3>6. NoTwinRuns'
                <4> SUFFICES ASSUME NEW p \in Requests, NEW q \in Requests, p # q, leader'[p] = p, leader'[q] = q,
                                    Keyed(p), Keyed(q), scopedBrowserCallId(p) = scopedBrowserCallId(q)
                             PROVE  Settled(p)' \/ Settled(q)'
                    BY <1>0 DEF NoTwinRuns
                <4>1. CASE p = r
                    BY <3>1, <3>3, <3>5, <4>1
                <4>2. CASE q = r
                    BY <3>1, <3>3, <3>5, <4>2
                <4>3. CASE p # r /\ q # r
                    BY <3>1, <3>3, <4>3 DEF LeadInv, NoTwinRuns
                <4> QED
                    BY <4>1, <4>2, <4>3
            <3> QED
                BY <3>2, <3>4, <3>6 DEF LeadInv
        <2>5. CASE Keyed(r) /\ Known(r) # {} /\ leader' = [leader EXCEPT ![r] = CHOOSE e \in Known(r) : TRUE]
                      /\ entries' = entries /\ UNCHANGED queueVars
            BY <2>3, <2>5
        <2> QED
            BY <1>3, <2>2, <2>4, <2>5 DEF Arrive
    <1> QED
        BY <1>2, <1>3

\* LeadInv holds at the start.
LEMMA LeadBegins ==
    ASSUME Init
    PROVE  LeadInv
    <1>1. /\ leader = [r \in Requests |-> None] /\ entries = {}
          /\ place = [r \in Requests |-> "out"]
          /\ run = [q \in Requests |-> [at |-> 0, task |-> None, held |-> 0, tab |-> None, mode |-> "none",
                                        idx |-> 0, mark |-> {}, out |-> None]]
        BY DEF Init, QueueInit
    <1>2. ASSUME NEW r \in Requests
          PROVE  leader[r] # r /\ place[r] = "out" /\ run[r].at = 0 /\ run[r].out = None
        BY <1>1, NamesAssumption
    <1> QED
        BY <1>1, <1>2 DEF LeadInv, Leaders, Remembered, NoTwinRuns

-----------------------------------------------------------------------------
(***************************************************************************)
(* Theorems                                                                *)
(***************************************************************************)
WorkerInv == QueueInv /\ CoreInv /\ LeadInv

\* WorkerInv holds in every reachable state.
LEMMA WorkerInvHolds == Spec => []WorkerInv
    <1>1. Init => WorkerInv
        BY QueueBegins, CoreBegins, LeadBegins DEF WorkerInv
    <1>2. WorkerInv /\ [Next]_vars => WorkerInv'
        BY QueueStep, CoreStep, LeadStep DEF WorkerInv, LeadInv
    <1> QED
        BY <1>1, <1>2, PTL DEF Spec

\* The slots of the queue are counted exactly and never exceeded, and two operations with one key
\* never run at the same time, for every number of slots and requests (BrowserOperationQueue.run).
THEOREM OperationsSerialize == Spec => []OneAtATime
    <1>1. WorkerInv => OneAtATime
        BY QueueSerializes DEF WorkerInv
    <1> QED
        BY <1>1, WorkerInvHolds, PTL

\* The leases of a task are those of the operations that run in it, however they end: no throw,
\* early answer, lost browser or finalization gives one back twice or never (acquireForTask and
\* the release in every finally).
THEOREM LeasesAreExact == Spec => []LeaseExact
    <1>1. ASSUME WorkerInv
          PROVE  LeaseExact
        <2>1. \A k \in Tasks : task[k].leases = Cardinality(Tokens(k))
            BY <1>1 DEF WorkerInv, CoreInv, LeasesCounted
        <2> QED
            BY <2>1, Zenon DEF LeaseExact, Tokens
    <1> QED
        BY <1>1, WorkerInvHolds, PTL

\* While finishTask or the reaper closes the tabs of a task, no operation works in the task and none
\* can begin (beginFinish, waitForTaskLeases, beginExpiration).
THEOREM FinalizationIsAlone == Spec => []FinalizesAlone
    <1>1. WorkerInv => FinalizesAlone
        BY DEF WorkerInv, CoreInv, OneFinalizer, Finalizing, FinalizesAlone, Accessible, isAccessibleState
    <1> QED
        BY <1>1, WorkerInvHolds, PTL

\* A repeated call never runs beside the operation it repeats, whatever the registry of calls has
\* forgotten meanwhile (BrowserIdempotencyRegistry.run and prune).
THEOREM RepeatedCallsShare == Spec => []NoTwinRuns
    <1>1. WorkerInv => NoTwinRuns
        BY DEF WorkerInv, LeadInv
    <1> QED
        BY <1>1, WorkerInvHolds, PTL

-----------------------------------------------------------------------------
(***************************************************************************)
(* A confirmation is spent once: ConfirmedOnce                             *)
(***************************************************************************)
\* The act a request was confirmed for.
ActOfSpent(a) ==
    /\ a.by \in Requests /\ Spent(a.by)
    /\ a.conf = req[a.by].conf /\ a.want = req[a.by].tab

\* Confirmations stay spent once when no confirmation is added and no request spends one.
LEMMA ConfKept ==
    ASSUME ConfInv, req' = req, perm'.conf \subseteq perm.conf, DOMAIN req \subseteq Requests,
           \A s \in Requests : Spent(s)' = Spent(s),
           \A s \in Requests : run[s].out # None => run'[s].out # None,
           \A a \in acts' : a.risky => a \in acts \/ ActOfSpent(a)
    PROVE  ConfInv'
    <1>1. Pending'
        BY DEF ConfInv, Pending
    <1>2. ASSUME NEW r \in Requests, Spent(r)'
          PROVE  /\ req'[r].conf \in DOMAIN req' /\ run'[req'[r].conf].out # None
                 /\ req'[req'[r].conf].tab = req'[r].tab /\ req'[req'[r].conf].deed = req'[r].deed
                 /\ \A c \in perm'.conf : c.id # req'[r].conf
                 /\ \A s \in Requests : Spent(s)' /\ req'[s].conf = req'[r].conf => s = r
        <2>1. Spent(r)
            BY <1>2
        <2>2. req[r].conf \in DOMAIN req /\ run[req[r].conf].out # None
            BY <2>1 DEF ConfInv, SpentOnce
        <2> QED
            BY <2>1, <2>2 DEF ConfInv, SpentOnce
    <1>3. ASSUME NEW a \in acts', a.risky
          PROVE  a.by \in Requests /\ Spent(a.by)' /\ a.conf = req'[a.by].conf /\ a.want = req'[a.by].tab
        BY <1>3 DEF ConfInv, SpentOnce, ActOfSpent
    <1>4. SpentOnce'
        BY <1>2, <1>3 DEF SpentOnce
    <1> QED
        BY <1>1, <1>4 DEF ConfInv

\* What a request has spent depends on how far its operation is.
LEMMA SpentSame ==
    ASSUME NEW s \in Requests, req' = req, run'[s].at = run[s].at
    PROVE  Spent(s)' = Spent(s)
    BY DEF Spent, Program

\* The steps that are none of an operation.
RunRests == \A s \in Requests : run'[s].at = run[s].at /\ (run[s].out # None => run'[s].out # None)

\* The same for a step of no operation.
LEMMA ConfRests ==
    ASSUME ConfInv, AskedInv, req' = req, perm'.conf \subseteq perm.conf, RunRests,
           \A a \in acts' : a.risky => a \in acts
    PROVE  ConfInv'
    <1>1. \A s \in Requests : Spent(s)' = Spent(s)
        BY SpentSame DEF RunRests
    <1> QED
        BY <1>1, ConfKept DEF RunRests, AskedInv

\* An operation steps over its confirmation only with the step that asks for it.
LEMMA SpentOver ==
    ASSUME RunsInside, NEW r \in DOMAIN req, r \in Requests, req' = req, At(r, StepOf(r)), StepOf(r) # "confirm" \/ ~req[r].risky,
           run'[r].at \in {run[r].at, run[r].at + 1}
    PROVE  Spent(r)' = Spent(r)
    <1>1. run[r].at \in Nat /\ run[r].at > 0
        BY DEF RunsInside, At, Running
    <1>2. CASE ~req[r].risky
        BY <1>2 DEF Spent
    <1>3. CASE req[r].risky /\ Program(r)[run[r].at] # "confirm"
        <2>1. Program(r)' = Program(r)
            BY DEF Program
        <2>2. ASSUME NEW i \in 1..(run'[r].at - 1), Program(r)[i] = "confirm"
              PROVE  i \in 1..(run[r].at - 1)
            BY <1>1, <1>3, <2>2
        <2>3. 1..(run[r].at - 1) \subseteq 1..(run'[r].at - 1)
            BY <1>1
        <2> QED
            BY <1>3, <2>1, <2>2, <2>3 DEF Spent
    <1> QED
        BY <1>2, <1>3 DEF StepOf

\* What a step of an operation may do for the driver.
ActsFor(r) ==
    \A a \in acts' : a.risky => a \in acts \/ (a.by = r /\ a.conf = req[r].conf /\ a.want = Tab(r) /\ Risky(r))

\* What an operation that throws leaves of the permissions.
LEMMA ThrowKeepsConf ==
    ASSUME NEW r, NEW code, NEW p, DOMAIN p = {"conf", "asks", "grants", "recording"}, ThrowWith(r, code, p)
    PROVE  perm'.conf = p.conf
    BY DEF ThrowWith

\* Giving up an unused confirmation only removes one.
LEMMA UnconfirmedIs ==
    ASSUME PermShape
    PROVE  DOMAIN Unconfirmed = {"conf", "asks", "grants", "recording"} /\ Unconfirmed.conf \subseteq perm.conf
    BY DEF Unconfirmed, PermShape

\* No step but Confirm adds a confirmation.
LEMMA StepKeepsConf ==
    ASSUME PermShape, NEW r, Step(r), ~Confirm(r)
    PROVE  perm'.conf \subseteq perm.conf
    <1>1. ASSUME NEW code, Throw(r, code)
          PROVE  perm'.conf \subseteq perm.conf
        BY <1>1, ThrowKeepsConf DEF Throw, PermShape
    <1>2. ASSUME ReconnectFails(r)
          PROVE  perm'.conf \subseteq perm.conf
        BY <1>2, ThrowKeepsConf, UnconfirmedIs DEF ReconnectFails
    <1>3. ASSUME NEW k, Reconnect(k)
          PROVE  perm'.conf \subseteq perm.conf
        BY <1>3, UnconfirmedIs DEF Reconnect
    <1>4. CASE Target(r) \/ Save(r) \/ Read(r)
        BY <1>1, <1>4 DEF Target, Save, Read, Check
    <1>5. CASE Connect(r)
        BY <1>2, <1>3, <1>5 DEF Connect
    <1>6. CASE Reach(r)
        BY <1>1, <1>2, <1>3, <1>6 DEF Reach, Turned
    <1>7. CASE SelectTab(r)
        BY <1>1, <1>7 DEF SelectTab, Select, Turned
    <1>8. CASE Reconcile(r) \/ Drop(r) \/ Leave(r)
        BY <1>8 DEF Reconcile, Drop, Leave
    <1>9. CASE Tapes(r)
        <2>1. CASE Unmarks(perm') \/ Marks(r)
            BY <2>1 DEF Unmarks, Marks, PermShape
        <2>2. CASE ThrowsUnmarked(r)
            BY <2>2, ThrowKeepsConf DEF ThrowsUnmarked, Unmarks
        <2> QED
            BY <1>9, <2>1, <2>2, TapeIs
    <1>10. CASE GrantPage(r) \/ Login(r) \/ Close(r)
        BY <1>1, <1>10 DEF GrantPage, Login, Close
    <1>11. CASE Act(r) \/ Visit(r)
        BY <1>1, <1>11 DEF Act, Visit, ActOn
    <1>12. CASE Enter(r)
        BY <1>1, <1>12 DEF Enter
    <1>13. CASE Admit(r)
        BY <1>1, <1>13 DEF Admit, PermShape
    <1>14. CASE Pick(r)
        <2>1. CASE Reusable(r) # {}
            <3> DEFINE m == IF Exact(r) # {} THEN "keep" ELSE "reuse"
            <3>1. PICK t \in Reusable(r) : Select(r, t, Takes(r, t, m))
                BY <1>14, <2>1 DEF Pick
            <3> HIDE DEF m
            <3> QED
                BY <1>1, <3>1 DEF Select, Turned
        <2>2. CASE Reusable(r) = {}
            BY <1>1, <1>14, <2>2 DEF Pick
        <2> QED
            BY <2>1, <2>2
    <1>15. CASE Attach(r)
        BY <1>1, <1>15 DEF Attach
    <1> QED
        BY <1>4, <1>5, <1>6, <1>7, <1>8, <1>9, <1>10, <1>11, <1>12, <1>13, <1>14, <1>15
        DEF Step, Tapes

\* The act of a step is that of its request, tab and confirmation.
LEMMA StepActs ==
    ASSUME NEW r, Step(r)
    PROVE  ActsFor(r)
    <1>1. ASSUME acts' = acts
          PROVE  ActsFor(r)
        BY <1>1 DEF ActsFor
    <1>2. ASSUME NEW page, NEW site, ActOn(r, page, site)
          PROVE  ActsFor(r)
        <2> DEFINE new == [by |-> r, want |-> Tab(r), hit |-> page, risky |-> Risky(r), conf |-> req[r].conf]
        <2>1. acts' = acts \cup {new}
            BY <1>2 DEF ActOn
        <2>2. new.by = r /\ new.want = Tab(r) /\ new.risky = Risky(r) /\ new.conf = req[r].conf
            OBVIOUS
        <2> HIDE DEF new
        <2> QED
            BY <2>1, <2>2 DEF ActsFor
    <1>3. CASE Act(r)
        BY <1>1, <1>2, <1>3 DEF Act
    <1>4. CASE Visit(r)
        BY <1>1, <1>2, <1>4 DEF Visit
    <1>5. CASE Close(r)
        <2>1. CASE acts' = acts
            BY <1>1, <2>1
        <2>2. CASE acts' = acts \cup {[by |-> r, want |-> Tab(r), hit |-> drv.pages[run[r].idx],
                                       risky |-> FALSE, conf |-> None]}
            BY <2>2 DEF ActsFor
        <2> QED
            BY <1>5, <2>1, <2>2 DEF Close
    <1>6. CASE Target(r) \/ Save(r) \/ Read(r)
        BY <1>1, <1>6 DEF Target, Save, Read, Check
    <1>7. CASE SelectTab(r) \/ GrantPage(r) \/ Login(r)
        BY <1>1, <1>7 DEF SelectTab, GrantPage, Login
    <1>8. CASE Connect(r) \/ Reach(r) \/ Reconcile(r) \/ Drop(r)
        BY <1>1, <1>8 DEF Connect, Reach, Reconcile, Drop
    <1>11. CASE Record(r) \/ Roll(r) \/ Halt(r) \/ Cut(r) \/ Unmark(r)
        BY <1>1, <1>11 DEF Record, Roll, Halt, Cut, Unmark
    <1>9. CASE Confirm(r) \/ Enter(r) \/ Admit(r) \/ Leave(r)
        BY <1>1, <1>9 DEF Confirm, Enter, Admit, Leave
    <1>10. CASE Pick(r) \/ Attach(r)
        BY <1>1, <1>10 DEF Pick, Attach
    <1> QED
        BY <1>3, <1>4, <1>5, <1>6, <1>7, <1>8, <1>9, <1>10, <1>11 DEF Step

\* Only an operation on a tab asks for a confirmation.
LEMMA ConfirmsOnATab ==
    ASSUME NEW op \in Operations, NEW i \in 1..Len(execute[op]), execute[op][i] = "confirm"
    PROVE  OnATab(op)
    BY OpenPrograms DEF OpenProgram, OpenSteps

\* Every step but Confirm keeps ConfInv.
LEMMA StepConf ==
    ASSUME CoreInv, AskedInv, ConfInv, NEW r \in DOMAIN req, Step(r), StepEffect(r), ~Confirm(r)
    PROVE  ConfInv'
    <1>1. r \in Requests /\ At(r, StepOf(r)) /\ req' = req /\ StepOf(r) # "confirm"
        <2>1. At(r, StepOf(r)) /\ req' = req
            BY StepAt
        <2>2. ASSUME NEW s, At(r, s)
              PROVE  StepOf(r) = s
            BY <2>2 DEF At, StepOf
        <2>3. StepOf(r) # "confirm"
            <3>1. CASE Target(r) \/ Save(r) \/ Read(r)
                BY <2>2, <3>1 DEF Target, Save, Read, Check
            <3>2. CASE SelectTab(r) \/ GrantPage(r) \/ Act(r) \/ Visit(r) \/ Login(r) \/ Close(r)
                BY <2>2, <3>2 DEF SelectTab, GrantPage, Act, Visit, Login, Close
            <3>3. CASE Connect(r) \/ Reach(r) \/ Reconcile(r) \/ Drop(r)
                BY <2>2, <3>3 DEF Connect, Reach, Reconcile, Drop
            <3>6. CASE Record(r) \/ Roll(r) \/ Halt(r) \/ Cut(r) \/ Unmark(r)
                BY <2>2, <3>6 DEF Record, Roll, Halt, Cut, Unmark
            <3>4. CASE Enter(r) \/ Admit(r) \/ Leave(r)
                BY <2>2, <3>4 DEF Enter, Admit, Leave
            <3>5. CASE Pick(r) \/ Attach(r)
                BY <2>2, <3>5 DEF Pick, Attach
            <3> QED
                BY <3>1, <3>2, <3>3, <3>4, <3>5, <3>6 DEF Step
        <2> QED
            BY <2>1, <2>3 DEF AskedInv
    <1>2. perm'.conf \subseteq perm.conf
        BY StepKeepsConf DEF CoreInv, Shapes
    <1>3. run'[r].at \in {run[r].at, run[r].at + 1} /\ \A s \in Requests : s # r => run'[s] = run[s]
        BY DEF StepEffect, Passed, Again, Stopped, Thrown, Entered, Left, OthersRun
    <1>4. \A s \in Requests : Spent(s)' = Spent(s)
        BY <1>1, <1>3, SpentSame, SpentOver DEF CoreInv
    <1>5. \A s \in Requests : run[s].out # None => run'[s].out # None
        BY <1>1, <1>3 DEF At, Running
    <1>6. Risky(r) => Spent(r) /\ Tab(r) = req[r].tab
        <2> SUFFICES ASSUME Risky(r)
                     PROVE  Spent(r) /\ Tab(r) = req[r].tab
            OBVIOUS
        <2>1. PICK i \in 1..run[r].at : Program(r)[i] = "confirm"
            BY DEF Risky
        <2>2. /\ run[r].at \in 1..Len(execute[req[r].op]) /\ Program(r) = execute[req[r].op]
              /\ req[r].op \in Operations /\ Program(r)[run[r].at] = StepOf(r)
            BY <1>1, AtIs DEF CoreInv, Program
        <2>3. Len(execute[req[r].op]) \in Nat
            BY <2>2, TabPrograms, OpenPrograms DEF OpenProgram
        <2>4. i \in 1..(run[r].at - 1) /\ i \in 1..Len(Program(r))
            BY <1>1, <2>1, <2>2, <2>3
        <2>5. OnATab(req[r].op)
            BY <2>1, <2>2, <2>4, ConfirmsOnATab
        <2> QED
            BY <2>1, <2>4, <2>5 DEF Spent, Tab, Risky
    <1>7. \A a \in acts' : a.risky => a \in acts \/ ActOfSpent(a)
        BY <1>1, <1>6, StepActs DEF ActsFor, ActOfSpent
    <1> QED
        BY <1>1, <1>2, <1>4, <1>5, <1>7, ConfKept DEF AskedInv

\* Confirm spends an open confirmation of the same action on the same target and tab, or asks for a fresh one.
LEMMA ConfirmConf ==
    ASSUME CoreInv, AskedInv, ConfInv, NEW r \in DOMAIN req, Confirm(r), StepEffect(r)
    PROVE  ConfInv'
    <1>0. At(r, "confirm") /\ StepOf(r) = "confirm" /\ req' = req /\ acts' = acts /\ r \in Requests /\ tab' = tab
        BY DEF Confirm, At, StepOf, AskedInv
    <1>1. run'[r].at \in {run[r].at, run[r].at + 1} /\ \A s \in Requests : s # r => run'[s] = run[s]
        BY DEF StepEffect, Passed, Again, Stopped, Thrown, Entered, Left, OthersRun
    <1>2. /\ \A s \in Requests : run[s].out # None => run'[s].out # None
          /\ run[r].out = None /\ run[r].at \in Nat /\ run[r].at > 0 /\ PermShape /\ RunShape
        BY <1>0, <1>1 DEF At, Running, CoreInv, Shapes, RunsInside
    <1>3. \A s \in Requests : s # r => Spent(s)' = Spent(s)
        BY <1>0, <1>1, SpentSame
    <1>4. OnATab(req[r].op) /\ Tab(r) = req[r].tab /\ run[r].at \in 1..Len(execute[req[r].op])
        <2>1. /\ run[r].at \in 1..Len(execute[req[r].op]) /\ req[r].op \in Operations
              /\ execute[req[r].op][run[r].at] = "confirm"
            BY <1>0, AtIs DEF CoreInv
        <2>2. OnATab(req[r].op)
            BY <2>1, ConfirmsOnATab
        <2> QED
            BY <2>1, <2>2 DEF Tab
    <1>5. CASE ~req[r].risky
        <2>1. perm' = perm
            BY <1>5 DEF Confirm
        <2>2. Spent(r)' = Spent(r)
            BY <1>0, <1>5 DEF Spent
        <2> QED
            BY <1>0, <1>2, <1>3, <2>1, <2>2, ConfKept DEF AskedInv
    <1>6. CASE req[r].risky /\ Throw(r, "BROWSER_CONFIRMATION_INVALID")
        <2>1. perm'.conf = perm.conf
            BY <1>2, <1>6, ThrowKeepsConf DEF Throw, PermShape
        <2>2. run'[r].at = run[r].at
            BY <1>0, <1>2, <1>6 DEF Throw, ThrowWith, RunShape
        <2>3. Spent(r)' = Spent(r)
            BY <1>0, <2>2, SpentSame
        <2> QED
            BY <1>0, <1>2, <1>3, <2>1, <2>3, ConfKept DEF AskedInv
    <1>7. CASE /\ req[r].risky /\ req[r].conf = None
               /\ run' = [run EXCEPT ![r].out = "ACTION_REQUIRES_CONFIRMATION"]
               /\ perm' = [perm EXCEPT !.conf = @ \cup
                             {[id |-> r, tab |-> Tab(r), site |-> tab[Tab(r)].site, deed |-> req[r].deed]}]
        <2> DEFINE new == [id |-> r, tab |-> Tab(r), site |-> tab[Tab(r)].site, deed |-> req[r].deed]
        <2>1. perm'.conf = perm.conf \cup {new}
            BY <1>2, <1>7 DEF PermShape
        <2>2. new.id = r /\ new.tab = req[r].tab /\ new.deed = req[r].deed
            BY <1>4
        <2> HIDE DEF new
        <2>3. run'[r].out # None /\ run'[r].at = run[r].at
            BY <1>0, <1>2, <1>7, NamesAssumption DEF RunShape, Outcomes
        <2>4. \A s \in Requests : Spent(s)' = Spent(s)
            BY <1>0, <1>3, <2>3, SpentSame
        <2>5. \A c \in perm.conf : c.id # r
            BY <1>2 DEF ConfInv, Pending
        <2>6. Pending'
            BY <1>0, <1>2, <2>1, <2>2, <2>3, <2>5 DEF ConfInv, Pending, AskedInv
        <2>7. ASSUME NEW s \in Requests, Spent(s)
              PROVE  /\ req[s].conf \in DOMAIN req /\ run'[req[s].conf].out # None
                     /\ req[req[s].conf].tab = req[s].tab /\ req[req[s].conf].deed = req[s].deed
                     /\ \A c \in perm'.conf : c.id # req[s].conf
                     /\ \A q \in Requests : Spent(q) /\ req[q].conf = req[s].conf => q = s
            BY <1>2, <2>1, <2>2, <2>7 DEF ConfInv, SpentOnce, AskedInv
        <2>8. SpentOnce'
            BY <1>0, <2>4, <2>7 DEF ConfInv, SpentOnce
        <2> QED
            BY <2>6, <2>8 DEF ConfInv
    <1>8. CASE /\ req[r].risky /\ Matching(r) # {} /\ Advance(r)
               /\ perm' = [perm EXCEPT !.conf = Consumed(CHOOSE c \in Matching(r) : TRUE)]
        <2>1. PICK c \in Matching(r) : perm' = [perm EXCEPT !.conf = Consumed(c)]
            BY <1>8
        <2>2. c \in perm.conf /\ c.id = req[r].conf /\ c.tab = req[r].tab /\ c.deed = req[r].deed
            BY <1>4, <2>1 DEF Matching
        <2>3. perm'.conf = perm.conf \ {c}
            BY <1>2, <2>1 DEF PermShape, Consumed
        <2>4. /\ c.id \in DOMAIN req /\ run[c.id].out # None /\ c.id \in Requests
              /\ req[c.id].tab = req[r].tab /\ req[c.id].deed = req[r].deed
              /\ \A d \in perm'.conf : d.id # c.id
            BY <2>2, <2>3 DEF ConfInv, Pending, AskedInv
        <2>5. \A s \in Requests : s # r /\ Spent(s)' => Spent(s) /\ req[s].conf # c.id
            BY <1>3, <2>2 DEF ConfInv, SpentOnce
        <2>6. Pending'
            BY <1>0, <1>2, <2>3 DEF ConfInv, Pending, AskedInv
        <2>7. Spent(r)'
            <3>1. run'[r].at = run[r].at + 1
                BY <1>0, <1>2, <1>8, AdvanceIs
            <3>2. run[r].at \in 1..(run'[r].at - 1)
                BY <1>2, <3>1
            <3> QED
                BY <1>0, <1>4, <1>8, <3>2 DEF Spent, Program, At
        <2>8. ASSUME NEW s \in Requests, Spent(s)'
              PROVE  /\ req[s].conf \in DOMAIN req /\ run'[req[s].conf].out # None
                     /\ req[req[s].conf].tab = req[s].tab /\ req[req[s].conf].deed = req[s].deed
                     /\ \A d \in perm'.conf : d.id # req[s].conf
                     /\ \A q \in Requests : Spent(q)' /\ req[q].conf = req[s].conf => q = s
            <3>1. CASE s = r
                BY <1>2, <2>2, <2>4, <2>5, <3>1
            <3>2. CASE s # r
                <4>1. Spent(s) /\ req[s].conf # req[r].conf
                    BY <2>2, <2>5, <2>8, <3>2
                <4>2. req[s].conf \in DOMAIN req /\ run[req[s].conf].out # None
                    BY <4>1 DEF ConfInv, SpentOnce
                <4> QED
                    BY <1>2, <2>3, <2>5, <4>1, <4>2 DEF ConfInv, SpentOnce, AskedInv
            <3> QED
                BY <3>1, <3>2
        <2>9. ASSUME NEW a \in acts, a.risky
              PROVE  a.by \in Requests /\ Spent(a.by)' /\ a.conf = req[a.by].conf /\ a.want = req[a.by].tab
            BY <1>3, <2>7, <2>9 DEF ConfInv, SpentOnce
        <2>10. SpentOnce'
            BY <1>0, <2>8, <2>9 DEF SpentOnce
        <2> QED
            BY <2>6, <2>10 DEF ConfInv
    <1> QED
        BY <1>5, <1>6, <1>7, <1>8 DEF Confirm

\* An operation starts before its confirmation.
LEMMA LeadingStopsAtConfirm ==
    ASSUME NEW op \in Operations, NEW i \in 1..Len(execute[op]), execute[op][i] = "confirm"
    PROVE  Cardinality(Leading(op)) < i
    <1>1. Len(execute[op]) \in Nat
        BY TabPrograms, OpenPrograms DEF OpenProgram
    <1>2. i \in Nat /\ i - 1 \in Nat
        BY <1>1
    <1>3. Leading(op) \subseteq 1..(i - 1)
        <2> SUFFICES ASSUME NEW j \in 1..Len(execute[op]), \A l \in 1..j : execute[op][l] \in Checks, ~(j \in 1..(i - 1))
                     PROVE  FALSE
            BY DEF Leading
        <2>1. i \in 1..j
            BY <1>1, <1>2
        <2> QED
            BY <2>1 DEF Checks
    <1>4. ASSUME NEW n \in Nat
          PROVE  IsFiniteSet(1..n) /\ Cardinality(1..n) = n
        <2>1. 1 \in Int /\ n \in Int
            OBVIOUS
        <2>2. IsFiniteSet(1..n) /\ Cardinality(1..n) = IF 1 > n THEN 0 ELSE n - 1 + 1
            BY <2>1, FS_Interval, Zenon
        <2> QED
            BY <2>2
    <1>5. Cardinality(Leading(op)) <= Cardinality(1..(i - 1))
        BY <1>2, <1>3, <1>4, FS_Subset
    <1>6. Cardinality(1..(i - 1)) = i - 1
        BY <1>2, <1>4
    <1> QED
        BY <1>2, <1>5, <1>6, LeadingIsCounted

\* A request that starts has spent nothing.
LEMMA StartConf ==
    ASSUME CoreInv, QueueInv, ConfInv, NEW r \in Requests, Start(r)
    PROVE  ConfInv'
    <1>1. /\ req' = req /\ perm' = perm /\ acts' = acts /\ place[r] = "in" /\ run[r].at = 0 /\ run[r].out = None
        BY DEF Start
    <1>2. r \in DOMAIN req /\ req[r].op \in Operations /\ RunShape /\ AskedInv
        BY <1>1 DEF QueueInv, InLine, AskedInv, Asked, CoreInv, Shapes
    <1>3. ASSUME NEW c, Stop(r, c)
          PROVE  run'[r].at = 0 /\ \A s \in Requests : s # r => run'[s] = run[s]
        BY <1>1, <1>2, <1>3 DEF Stop, RunShape
    <1>4. run'[r].at \in {0, 1, 1 + Cardinality(Leading(req[r].op))} /\ \A s \in Requests : s # r => run'[s] = run[s]
        <2>1. CASE run' = [run EXCEPT ![r].at = 1]
            BY <1>1, <1>2, <2>1 DEF RunShape
        <2>2. ASSUME NEW k, StartOnTab(r, k)
              PROVE  /\ run'[r].at \in {0, 1 + Cardinality(Leading(req[r].op))}
                     /\ \A s \in Requests : s # r => run'[s] = run[s]
            <3>1. CASE SiteRefused(r, k) \/ FailedChecks(r, k) # {}
                BY <1>3, <2>2, <3>1 DEF StartOnTab
            <3>2. CASE ~(SiteRefused(r, k) \/ FailedChecks(r, k) # {})
                <4> DEFINE n == 1 + Cardinality(Leading(req[r].op))
                <4>1. run' = [run EXCEPT ![r].at = n, ![r].task = k, ![r].held = 1]
                    BY <2>2, <3>2 DEF StartOnTab
                <4> HIDE DEF n
                <4>2. run'[r].at = n /\ \A s \in Requests : s # r => run'[s] = run[s]
                    BY <1>2, <4>1 DEF RunShape
                <4> QED
                    BY <4>2 DEF n
            <3> QED
                BY <3>1, <3>2
        <2> QED
            BY <1>3, <2>1, <2>2 DEF Start
    <1>5. ~Spent(r)
        BY <1>1 DEF Spent
    <1>6. ~Spent(r)'
        <2> SUFFICES ASSUME NEW i \in 1..(run'[r].at - 1), i \in 1..Len(execute[req[r].op]),
                            execute[req[r].op][i] = "confirm"
                     PROVE  FALSE
            BY <1>1 DEF Spent, Program
        <2>1. Cardinality(Leading(req[r].op)) < i /\ Cardinality(Leading(req[r].op)) \in Nat
            BY <1>2, LeadingStopsAtConfirm, LeadingIsCounted
        <2> QED
            BY <1>4, <2>1
    <1>7. ASSUME NEW s \in Requests
          PROVE  Spent(s)' = Spent(s)
        <2>1. CASE s = r
            BY <1>5, <1>6, <2>1 DEF Spent
        <2>2. CASE s # r
            BY <1>1, <1>4, <2>2, SpentSame
        <2> QED
            BY <2>1, <2>2
    <1> QED
        BY <1>1, <1>2, <1>4, <1>7, ConfKept DEF AskedInv

\* The steps in which no operation goes on.
LEMMA StopRests ==
    ASSUME RunShape, NEW r \in Requests, NEW code \in Outcomes,
           Stop(r, code) \/ run' = [run EXCEPT ![r].out = code, ![r].held = 0]
    PROVE  RunRests
    BY NamesAssumption DEF RunShape, Stop, RunRests

\* A finalization that fails spends nothing.
LEMMA FailsConf ==
    ASSUME CoreInv, AskedInv, ConfInv, NEW a \in Finalizers, NEW code \in Outcomes, NEW d, FinalizationFails(a, code, d)
    PROVE  ConfInv'
    <1>1. req' = req /\ perm' = perm /\ acts' = acts
        BY DEF FinalizationFails
    <1>2. RunRests
        <2>1. CASE run' = run
            BY <2>1 DEF RunRests
        <2>2. CASE a \in Requests /\ Stop(a, code)
            BY <2>2, StopRests DEF CoreInv, Shapes
        <2> QED
            BY <2>1, <2>2 DEF FinalizationFails, Finalizers, Stop
    <1> QED
        BY <1>1, <1>2, ConfRests

\* Serving, arriving and aborting keep ConfInv.
LEMMA ServeConf ==
    ASSUME CoreInv, QueueInv, ConfInv, NEW r \in Requests, Serve(r) \/ Arrive(r) \/ Abort(r)
    PROVE  ConfInv'
    <1>0. AskedInv /\ RunShape /\ PermShape /\ r \in Finalizers
        BY DEF QueueInv, CoreInv, Shapes, Finalizers
    <1>1. ASSUME req' = req, perm' = perm, acts' = acts,
                 run' = run \/ \E c \in Outcomes : Stop(r, c) \/ run' = [run EXCEPT ![r].out = c, ![r].held = 0]
          PROVE  ConfInv'
        <2>1. RunRests
            BY <1>0, <1>1, StopRests DEF RunRests
        <2> QED
            BY <1>0, <1>1, <2>1, ConfRests
    <1>2. CASE Arrive(r) \/ Turn(r) \/ Relay(r)
        BY <1>1, <1>2 DEF Arrive, Turn, Relay, runtimeVars
    <1>3. CASE Wake(r) \/ Abort(r)
        <2>1. "OPERATION_CANCELLED" \in Outcomes
            BY DEF Outcomes
        <2> QED
            BY <1>1, <1>3, <2>1 DEF Wake, Abort
    <1>4. CASE Start(r)
        BY <1>4, StartConf
    <1>5. CASE Operate(r)
        <2>1. Step(r)
            BY <1>5 DEF Operate
        <2>2. At(r, StepOf(r))
            BY <2>1, StepAt
        <2>3. r \in DOMAIN req
            BY <2>2 DEF At, CoreInv, RunsInside, QueueInv, InLine
        <2>4. StepEffect(r)
            BY <2>1, <2>3, StepIs DEF CoreInv, QueueInv
        <2> QED
            BY <1>0, <2>1, <2>3, <2>4, StepConf, ConfirmConf
    <1>6. CASE Complete(r)
        <2>1. /\ req' = req /\ perm' = perm /\ acts' = acts
              /\ run' = [run EXCEPT ![r].out = IF run[r].out = None THEN "ok" ELSE run[r].out, ![r].held = 0]
            BY <1>6 DEF Complete
        <2>2. "ok" # None
            BY NamesAssumption DEF Outcomes
        <2>3. RunRests
            BY <1>0, <2>1, <2>2 DEF RunRests, RunShape
        <2> QED
            BY <1>0, <2>1, <2>3, ConfRests
    <1>7. CASE DrainStops(r)
        BY <1>0, <1>7, FailsConf DEF DrainStops, DrainFails, Outcomes
    <1>8. CASE FinishBegins(r)
        <2>1. req' = req /\ acts' = acts
            BY <1>8 DEF FinishBegins
        <2>2. \/ Throw(r, "TASK_NOT_FOUND")
              \/ perm' = perm /\ (run' = run \/ Stop(r, "ok") \/ Stop(r, "TASK_SUSPENDED"))
            BY <1>8 DEF FinishBegins, Stop
        <2>3. CASE Throw(r, "TASK_NOT_FOUND")
            <3>1. perm'.conf \subseteq perm.conf
                BY <1>0, <2>3, ThrowKeepsConf DEF Throw, PermShape
            <3>2. RunRests
                BY <1>0, <2>3, StopRests DEF Throw, ThrowWith, Outcomes
            <3> QED
                BY <1>0, <2>1, <3>1, <3>2, ConfRests
        <2>4. "ok" \in Outcomes /\ "TASK_SUSPENDED" \in Outcomes
            BY DEF Outcomes
        <2> QED
            BY <1>1, <2>1, <2>2, <2>3, <2>4
    <1>9. CASE Drain(r) \/ FinishReturns(r)
        <2>1. req' = req /\ acts' = acts /\ perm' = perm
            BY <1>9 DEF Drain, FinishReturns
        <2>2. run' = run \/ Stop(r, "ok") \/ Stop(r, "TAB_NOT_OWNED")
            BY <1>9 DEF Drain, FinishReturns, Stop
        <2>3. "ok" \in Outcomes /\ "TAB_NOT_OWNED" \in Outcomes
            BY DEF Outcomes
        <2> QED
            BY <1>1, <2>1, <2>2, <2>3
    <1> QED
        BY <1>2, <1>3, <1>4, <1>5, <1>6, <1>7, <1>8, <1>9 DEF Serve, Finish, FinishStep

\* The steps of finalizers only remove confirmations.
LEMMA FinalizeConf ==
    ASSUME CoreInv, AskedInv, ConfInv, NEW a \in Finalizers, FinalizerStep(a) \/ CloseFails(a)
    PROVE  ConfInv'
    <1>0. PermShape
        BY DEF CoreInv, Shapes
    <1>1. ASSUME req' = req, perm'.conf \subseteq perm.conf, run' = run, \A b \in acts' : b.risky => b \in acts
          PROVE  ConfInv'
        <2>1. RunRests
            BY <1>1 DEF RunRests
        <2> QED
            BY <1>1, <2>1, ConfRests
    <1>2. CASE ReachTab(a)
        <2>1. PICK t \in fin[a].todo : Reaching(a, t)
            BY <1>2 DEF ReachTab
        <2>2. CASE FinalizationFails(a, "BROWSER_CONTEXT_RECOVERY_FAILED", Down) \/ FinalizationFails(a, "STALE_TAB_ID", drv)
            BY <2>2, FailsConf DEF Outcomes
        <2>3. CASE Reconnect(fin[a].task) /\ UNCHANGED <<req, run, fin, acts>>
            BY <1>0, <1>1, <2>3, UnconfirmedIs DEF Reconnect
        <2>4. CASE UNCHANGED <<req, perm, run, acts>>
            BY <1>1, <2>4
        <2> QED
            BY <2>1, <2>2, <2>3, <2>4 DEF Reaching
    <1>3. CASE ClosePage(a)
        <2>1. req' = req /\ perm' = perm /\ run' = run
            BY <1>3 DEF ClosePage
        <2>2. \/ acts' = acts
              \/ acts' = acts \cup {[by |-> a, want |-> fin[a].tab, hit |-> drv.pages[fin[a].idx],
                                     risky |-> FALSE, conf |-> None]}
            BY <1>3 DEF ClosePage
        <2>3. \A b \in acts' : b.risky => b \in acts
            BY <2>2
        <2> QED
            BY <1>1, <2>1, <2>3
    <1>4. CASE TaskEnds(a)
        <2>1. Revoked(fin[a].task, fin[a].all).conf \subseteq perm.conf
            BY <1>0 DEF Revoked, PermShape
        <2> QED
            BY <1>1, <1>4, <2>1 DEF TaskEnds
    <1>5. CASE CloseFails(a)
        BY <1>5, FailsConf DEF CloseFails, Outcomes
    <1> QED
        BY <1>2, <1>3, <1>4, <1>5 DEF FinalizerStep

\* ConfInv is inductive, given WorkerInv.
LEMMA ConfStep ==
    ASSUME WorkerInv, ConfInv, [Next]_vars
    PROVE  ConfInv'
    <1>0. CoreInv /\ QueueInv /\ AskedInv /\ PermShape /\ RunShape
        BY DEF WorkerInv, QueueInv, CoreInv, Shapes
    <1>1. ASSUME req' = req, perm'.conf \subseteq perm.conf, run' = run, acts' = acts
          PROVE  ConfInv'
        <2>1. RunRests
            BY <1>1 DEF RunRests
        <2> QED
            BY <1>0, <1>1, <2>1, ConfRests
    <1>2. ASSUME NEW r \in Requests, Serve(r) \/ Arrive(r) \/ Abort(r)
          PROVE  ConfInv'
        BY <1>0, <1>2, ServeConf
    <1>3. ASSUME NEW a \in Finalizers, Finalize(a)
          PROVE  ConfInv'
        BY <1>0, <1>3, FinalizeConf DEF Finalize
    <1>4. CASE Reap
        <2>1. CASE ReaperTicks
            BY <1>1, <2>1 DEF ReaperTicks
        <2>2. CASE ReaperLooks
            BY <1>1, <2>2 DEF ReaperLooks
        <2> QED
            BY <1>4, <2>1, <2>2 DEF Reap
    <1>5. CASE ShutDownIdle \/ Forget \/ UNCHANGED vars
        BY <1>1, <1>5 DEF ShutDownIdle, IdleShutdown, Forget, vars, runtimeVars
    <1>6. CASE Disturb
        <2>1. CASE Ages
            <3>1. perm'.conf \subseteq perm.conf
                BY <1>0, <2>1 DEF Ages, PermShape
            <3> QED
                BY <1>1, <2>1, <3>1 DEF Ages
        <2>2. CASE BrowserDies \/ PageCloses
            BY <1>1, <2>2 DEF BrowserDies, PageCloses
        <2>3. CASE DriverFails
            <3>1. PICK r \in Requests : req' = req /\ acts' = acts /\ \E p : Unmarks(p) /\ ThrowWith(r, "driver", p)
                BY <1>0, <2>3, UnrecordedIs DEF DriverFails
            <3>2. perm'.conf \subseteq perm.conf
                BY <3>1, ThrowKeepsConf DEF Unmarks
            <3>3. RunRests
                BY <1>0, <3>1, StopRests DEF ThrowWith, Outcomes
            <3> QED
                BY <1>0, <3>1, <3>2, <3>3, ConfRests
        <2>4. ASSUME NEW a \in Finalizers, CloseFails(a)
              PROVE  ConfInv'
            BY <1>0, <2>4, FinalizeConf
        <2> QED
            BY <1>6, <2>1, <2>2, <2>3, <2>4 DEF Disturb
    <1> QED
        BY <1>2, <1>3, <1>4, <1>5, <1>6 DEF Next

\* Every risky act spent a confirmation that was asked for this action on this target in this tab,
\* by whichever operation, and no confirmation was spent by two requests, whatever browser was lost,
\* tab was closed or request was answered early in between (authorizeAction, consume, sameBinding).
THEOREM ConfirmationsSpentOnce == Spec => []ConfirmedOnce
    <1>1. Init => ConfInv
        <2> SUFFICES ASSUME Init
                     PROVE  ConfInv
            OBVIOUS
        <2>1. PICK s \in Scenarios : perm = s.perm
            BY DEF Init
        <2>2. perm.conf = {} /\ acts = {}
            BY <2>1, ScenariosAssumption DEF Init
        <2>3. ASSUME NEW r \in Requests
              PROVE  run[r].at = 0
            <3>1. run = [q \in Requests |-> [at |-> 0, task |-> None, held |-> 0, tab |-> None, mode |-> "none",
                                             idx |-> 0, mark |-> {}, out |-> None]]
                BY DEF Init
            <3> QED
                BY <3>1
        <2>4. ASSUME NEW r \in Requests
              PROVE  ~Spent(r)
            BY <2>3 DEF Spent
        <2> QED
            BY <2>2, <2>4 DEF ConfInv, Pending, SpentOnce
    <1>2. WorkerInv /\ ConfInv /\ [Next]_vars => ConfInv'
        BY ConfStep
    <1>3. WorkerInv /\ ConfInv => ConfirmedOnce
        BY NamesAssumption DEF WorkerInv, QueueInv, AskedInv, ConfInv, SpentOnce, ConfirmedOnce
    <1> QED
        BY <1>1, <1>2, <1>3, WorkerInvHolds, PTL DEF Spec

-----------------------------------------------------------------------------
(***************************************************************************)
(* A task that is over leaves nothing behind                               *)
(***************************************************************************)
Ended == {"none", "finished", "expired"}

\* A tab that an operation works on, or that has a confirmation.
InUse(t) ==
    \/ \E c \in perm.conf : c.tab = t
    \/ \E r \in DOMAIN req : OnATab(req[r].op) /\ run[r].held > 0 /\ req[r].tab = t

\* A task has the tabs that are its own, and an operation works in the task of its tab.
TabsOwned ==
    /\ \A k \in Tasks : \A t \in task[k].tabs : t \in Tabs /\ tab[t].of = k
    /\ \A r \in DOMAIN req : OnATab(req[r].op) /\ run[r].held > 0 => tab[req[r].tab].of = run[r].task
    /\ \A c \in perm.conf : c.tab \in Tabs
    /\ \A t \in Tabs : tab[t].reg => tab[t].of # None

\* A tab in use is attached to its task, which is not over, and its finalization knows the tab.
UsedAttached ==
    \A t \in Tabs : InUse(t) =>
        /\ tab[t].of # None
        /\ tab[t].reg => /\ tab[t].of \in Tasks /\ task[tab[t].of].state \notin Ended
                         /\ t \in task[tab[t].of].tabs
                         /\ \A a \in Finalizers : Finalizing(a) /\ fin[a].task = tab[t].of => t \in fin[a].all

\* The tab that an open has picked is one of its task; a new one is unknown until it is attached.
Opens(r) == r \in DOMAIN req /\ ~OnATab(req[r].op) /\ Running(r)
PicksNew(r) == Opens(r) /\ run[r].mode = "new" /\ run[r].at <= 9
Picked ==
    /\ \A r \in Requests :
          /\ Opens(r) /\ run[r].mode # "none" =>
                run[r].tab \in Tabs /\ run[r].task \in Tasks /\ tab[run[r].tab].of = run[r].task
          /\ PicksNew(r) => /\ ~tab[run[r].tab].reg /\ ~InUse(run[r].tab)
                            /\ \A k \in Tasks : run[r].tab \notin task[k].tabs
          /\ Opens(r) /\ req[r].op \in {"open", "openAuthorizedSite"} /\ run[r].at > 5 => run[r].mode # "none"
          /\ run[r].mode # "none" => run[r].at > 5
    /\ \A r, s \in Requests : PicksNew(r) /\ PicksNew(s) /\ run[r].tab = run[s].tab => r = s

\* A task that is over keeps no grant, no question and no mark of a recording.
OverClean ==
    \A k \in Tasks : task[k].state \in {"finished", "expired"} =>
        /\ k \notin perm.grants /\ ~hasLongLivedTaskActivity(k)
        /\ \A a \in perm.asks : a.task # k

EndInv == TabsOwned /\ UsedAttached /\ Picked /\ OverClean

\* A lease keeps its task from ending.
LEMMA HolderLives ==
    ASSUME CoreInv, NEW r \in Requests, run[r].held > 0
    PROVE  /\ run[r].task \in Tasks /\ task[run[r].task].leases > 0
           /\ task[run[r].task].state \notin Ended
    <1> DEFINE k == run[r].task
    <1>1. k \in Tasks /\ run[r].held \in 0..2
        BY DEF CoreInv, RunsInside
    <1>2. IsFiniteSet(Tokens(k)) /\ task[k].leases = Cardinality(Tokens(k)) /\ task[k].leases \in Nat
        BY <1>1 DEF CoreInv, LeasesCounted
    <1>3. <<r, 1>> \in Tokens(k)
        BY <1>1 DEF Tokens
    <1>4. task[k].leases # 0
        BY <1>2, <1>3, FS_EmptySet
    <1> QED
        BY <1>1, <1>2, <1>4 DEF CoreInv, LeasesCounted, Ended

\* A tab comes into use when an operation starts on it.
Begins(t) ==
    /\ tab' = tab /\ fin' = fin
    /\ \E k \in Tasks : /\ task[k].state \in {"active", "suspended"} /\ task'[k].state = "active"
                        /\ t \in task[k].tabs /\ t \in task'[k].tabs
UseKept == \A t : InUse(t)' => InUse(t) \/ Begins(t)

\* No open holds tab t as a new one.
Unpicked(t) == \A r \in Requests : PicksNew(r)' => run'[r].tab # t

\* A tab stays with its task; one that is registered was not in use.
TabsKept ==
    \A t \in Tabs :
        /\ tab[t].of # None => tab'[t].of = tab[t].of
        /\ tab'[t].reg /\ ~tab[t].reg => ~InUse(t) /\ tab'[t].of # None /\ Unpicked(t)

\* No task ends; it loses the tabs that are forgotten and gets tabs of its own.
TasksKept ==
    \A k \in Tasks :
        /\ task[k].state \notin Ended => task'[k].state \notin Ended
        /\ task'[k].state \in {"finished", "expired"} => task[k].state = task'[k].state
        /\ \A t \in task[k].tabs : task[k].state \notin Ended /\ tab'[t].reg => t \in task'[k].tabs
        /\ \A t \in task'[k].tabs :
              t \in task[k].tabs \/ (t \in Tabs /\ tab'[t].of = k /\ Unpicked(t))

\* A finalization that goes on knows the tabs it knew, one that begins those of its task.
FinKept ==
    \A a \in Finalizers : Finalizing(a)' =>
        \/ Finalizing(a) /\ fin'[a].task = fin[a].task /\ fin'[a].all = fin[a].all
        \/ fin'[a].all = task'[fin'[a].task].tabs

\* What is granted, asked or recorded is for a task that is not over.
PermKept ==
    \A k \in Tasks : task'[k].state \in {"finished", "expired"} =>
        /\ k \in perm'.grants => k \in perm.grants
        /\ \A kind \in Recordings : <<kind, k>> \in perm'.recording => <<kind, k>> \in perm.recording
        /\ \A a \in perm'.asks : a.task = k => a \in perm.asks

\* An operation on a tab works in the task of the tab.
HeldKept(r) ==
    OnATab(req[r].op) /\ run'[r].held > 0 =>
        (run[r].held > 0 /\ run'[r].task = run[r].task) \/ tab'[req[r].tab].of = run'[r].task

\* An open keeps what it has picked.
PickKept(r) ==
    /\ run'[r].mode = run[r].mode /\ run'[r].tab = run[r].tab
    /\ run'[r].at \in Nat /\ run'[r].at >= run[r].at
    /\ run[r].mode # "none" => run'[r].task = run[r].task
    /\ ~OnATab(req[r].op) /\ Running(r)' => Running(r) \/ run'[r].at <= 5
    /\ r \in DOMAIN req /\ req[r].op \in {"open", "openAuthorizedSite"} /\ run'[r].at > 5 => run[r].at > 5

\* What suffices for the tabs of tasks and for what a task leaves behind.
LEMMA OwnKept ==
    ASSUME CoreInv, AskedInv, EndInv, req' = req, TabsKept, TasksKept, FinKept, PermKept, UseKept,
           \A r \in DOMAIN req : HeldKept(r)
    PROVE  TabsOwned' /\ UsedAttached' /\ OverClean'
    <1>0. TabsOwned /\ UsedAttached /\ OverClean /\ DOMAIN req \subseteq Requests /\ None \notin Tasks
        BY NamesAssumption DEF EndInv, AskedInv
    <1>1. ASSUME NEW k \in Tasks, NEW t \in task'[k].tabs
          PROVE  t \in Tabs /\ tab'[t].of = k
        BY <1>0, <1>1 DEF TasksKept, TabsKept, TabsOwned
    <1>2. ASSUME NEW r \in DOMAIN req, OnATab(req[r].op), run'[r].held > 0
          PROVE  tab'[req[r].tab].of = run'[r].task
        <2>1. req[r].tab \in Tabs
            BY <1>2 DEF AskedInv, Asked
        <2>2. CASE run[r].held > 0 /\ run'[r].task = run[r].task
            <3>1. run[r].task \in Tasks /\ tab[req[r].tab].of = run[r].task
                BY <1>0, <1>2, <2>2 DEF TabsOwned, CoreInv, RunsInside
            <3> QED
                BY <1>0, <2>1, <2>2, <3>1 DEF TabsKept
        <2> QED
            BY <1>2, <2>2 DEF HeldKept
    <1>3. ASSUME NEW t, InUse(t)
          PROVE  t \in Tabs
        BY <1>0, <1>3 DEF InUse, TabsOwned, AskedInv, Asked
    <1>4. ASSUME NEW t, InUse(t)'
          PROVE  t \in Tabs
        BY <1>0, <1>3, <1>4 DEF UseKept, Begins, TabsOwned
    <1>5. ASSUME NEW c \in perm'.conf
          PROVE  c.tab \in Tabs
        <2>1. InUse(c.tab)'
            BY DEF InUse
        <2> QED
            BY <1>4, <2>1
    <1>6. ASSUME NEW t \in Tabs, tab'[t].reg
          PROVE  tab'[t].of # None
        BY <1>0, <1>6 DEF TabsKept, TabsOwned
    <1>7. TabsOwned'
        BY <1>1, <1>2, <1>5, <1>6 DEF TabsOwned
    <1>8. ASSUME NEW t \in Tabs, InUse(t), tab'[t].reg
          PROVE  /\ tab'[t].of \in Tasks /\ task'[tab'[t].of].state \notin Ended
                 /\ t \in task'[tab'[t].of].tabs
                 /\ \A a \in Finalizers : Finalizing(a)' /\ fin'[a].task = tab'[t].of => t \in fin'[a].all
        <2>1. tab[t].reg /\ tab'[t].of = tab[t].of
            BY <1>0, <1>8 DEF TabsKept, UsedAttached
        <2>2. /\ tab[t].of \in Tasks /\ task[tab[t].of].state \notin Ended /\ t \in task[tab[t].of].tabs
              /\ \A a \in Finalizers : Finalizing(a) /\ fin[a].task = tab[t].of => t \in fin[a].all
            BY <1>0, <1>8, <2>1 DEF UsedAttached
        <2>3. task'[tab[t].of].state \notin Ended /\ t \in task'[tab[t].of].tabs
            BY <1>8, <2>2 DEF TasksKept
        <2>4. ASSUME NEW a \in Finalizers, Finalizing(a)', fin'[a].task = tab'[t].of
              PROVE  t \in fin'[a].all
            BY <2>1, <2>2, <2>3, <2>4 DEF FinKept
        <2> QED
            BY <2>1, <2>2, <2>3, <2>4
    <1>9. ASSUME NEW t \in Tabs, Begins(t)
          PROVE  /\ tab'[t].of \in Tasks /\ task'[tab'[t].of].state \notin Ended
                 /\ t \in task'[tab'[t].of].tabs
                 /\ \A a \in Finalizers : Finalizing(a)' /\ fin'[a].task = tab'[t].of => t \in fin'[a].all
        <2>1. PICK k \in Tasks : /\ task[k].state \in {"active", "suspended"} /\ task'[k].state = "active"
                                 /\ t \in task[k].tabs /\ t \in task'[k].tabs
            BY <1>9 DEF Begins
        <2>2. tab' = tab /\ fin' = fin /\ tab[t].of = k
            BY <1>0, <1>9, <2>1 DEF Begins, TabsOwned
        <2>3. ASSUME NEW a \in Finalizers, Finalizing(a)'
              PROVE  fin'[a].task # k
            BY <2>1, <2>2, <2>3 DEF Finalizing, CoreInv, OneFinalizer
        <2> QED
            BY <2>1, <2>2, <2>3 DEF Ended
    <1>10. UsedAttached'
        <2>1. ASSUME NEW t \in Tabs, InUse(t)'
              PROVE  /\ tab'[t].of # None
                     /\ tab'[t].reg => /\ tab'[t].of \in Tasks /\ task'[tab'[t].of].state \notin Ended
                                       /\ t \in task'[tab'[t].of].tabs
                                       /\ \A a \in Finalizers : Finalizing(a)' /\ fin'[a].task = tab'[t].of => t \in fin'[a].all
            <3>1. CASE InUse(t)
                <4>1. tab'[t].of # None
                    BY <1>0, <3>1 DEF UsedAttached, TabsKept
                <4> QED
                    BY <1>8, <3>1, <4>1
            <3>2. CASE Begins(t)
                BY <1>0, <1>9, <3>2
            <3> QED
                BY <2>1, <3>1, <3>2 DEF UseKept
        <2> QED
            BY <2>1 DEF UsedAttached
    <1>11. OverClean'
        BY <1>0 DEF OverClean, PermKept, TasksKept, hasLongLivedTaskActivity
    <1> QED
        BY <1>7, <1>10, <1>11

\* What suffices for the tab that an operation has picked.
LEMMA PicksKept ==
    ASSUME CoreInv, EndInv, req' = req, TabsKept, TasksKept, UseKept, \A r \in Requests : PickKept(r)
    PROVE  Picked'
    <1>0. TabsOwned /\ Picked /\ None \notin Tasks
        BY NamesAssumption DEF EndInv
    <1>1. ASSUME NEW r \in Requests, Opens(r)', run'[r].mode # "none"
          PROVE  /\ Opens(r) /\ run[r].mode # "none" /\ run'[r].task = run[r].task /\ run'[r].tab = run[r].tab
                 /\ run'[r].tab \in Tabs /\ run'[r].task \in Tasks /\ tab'[run'[r].tab].of = run'[r].task
        <2>1. run[r].at \in Nat /\ run[r].mode # "none" /\ run[r].at > 5 /\ PickKept(r)
            BY <1>0, <1>1 DEF Picked, PickKept, CoreInv, RunsInside
        <2>2. Opens(r)
            BY <1>1, <2>1 DEF Opens, PickKept
        <2>3. run[r].tab \in Tabs /\ run[r].task \in Tasks /\ tab[run[r].tab].of = run[r].task
            BY <1>0, <2>1, <2>2 DEF Picked
        <2> QED
            BY <1>0, <2>1, <2>2, <2>3 DEF PickKept, TabsKept
    <1>2. ASSUME NEW r \in Requests, PicksNew(r)'
          PROVE  PicksNew(r) /\ run'[r].tab = run[r].tab /\ run[r].tab \in Tabs
        <2>1. Opens(r)' /\ run'[r].mode = "new" /\ run'[r].at <= 9 /\ PickKept(r) /\ run[r].at \in Nat
            BY <1>2 DEF PicksNew, CoreInv, RunsInside
        <2>2. Opens(r) /\ run'[r].tab = run[r].tab /\ run'[r].tab \in Tabs
            BY <1>1, <2>1
        <2> QED
            BY <2>1, <2>2 DEF PickKept, PicksNew
    <1>3. ASSUME NEW r \in Requests, PicksNew(r)'
          PROVE  /\ ~tab'[run'[r].tab].reg /\ ~InUse(run[r].tab)'
                 /\ \A k \in Tasks : run'[r].tab \notin task'[k].tabs
        <2>1. PICK t \in Tabs : PicksNew(r) /\ run[r].tab = t /\ run'[r].tab = t
            BY <1>2, <1>3
        <2>2. ~tab[t].reg /\ \A k \in Tasks : t \notin task[k].tabs
            BY <1>0, <2>1 DEF Picked
        <2>6. ~InUse(t)
            BY <1>0, <2>1 DEF Picked, InUse
        <2>3. ~tab'[t].reg
            BY <1>3, <2>1, <2>2 DEF TabsKept, Unpicked
        <2>4. ~InUse(t)'
            BY <2>2, <2>6 DEF UseKept, Begins
        <2>7. ~InUse(run[r].tab)'
            BY <2>1, <2>4 DEF InUse
        <2>5. \A k \in Tasks : t \notin task'[k].tabs
            BY <1>3, <2>1, <2>2 DEF TasksKept, Unpicked
        <2> QED
            BY <2>1, <2>3, <2>5, <2>7
    <1>4. ASSUME NEW r \in Requests
          PROVE  /\ Opens(r)' /\ req'[r].op \in {"open", "openAuthorizedSite"} /\ run'[r].at > 5 => run'[r].mode # "none"
                 /\ run'[r].mode # "none" => run'[r].at > 5
        <2>1. run[r].at \in Nat /\ PickKept(r)
            BY DEF CoreInv, RunsInside
        <2>2. ASSUME Opens(r)', req[r].op \in {"open", "openAuthorizedSite"}, run'[r].at > 5
              PROVE  Opens(r) /\ run[r].at > 5
            BY <2>1, <2>2 DEF PickKept, Opens
        <2> QED
            BY <1>0, <2>1, <2>2 DEF PickKept, Picked
    <1>5. ASSUME NEW r \in Requests, NEW s \in Requests, PicksNew(r)', PicksNew(s)', run'[r].tab = run'[s].tab
          PROVE  r = s
        BY <1>0, <1>2, <1>5 DEF Picked
    <1> QED
        BY <1>1, <1>3, <1>4, <1>5 DEF Picked

\* What suffices for EndInv.
LEMMA EndKept ==
    ASSUME CoreInv, AskedInv, EndInv, req' = req, TabsKept, TasksKept, FinKept, PermKept, UseKept,
           \A r \in Requests : PickKept(r), \A r \in DOMAIN req : HeldKept(r)
    PROVE  EndInv'
    BY OwnKept, PicksKept DEF EndInv

\* What most steps leave alone.
TabsSame == \A t \in Tabs : tab'[t].reg = tab[t].reg /\ tab'[t].of = tab[t].of
TasksSame == \A k \in Tasks : task'[k].state = task[k].state /\ task'[k].tabs = task[k].tabs
FinSame ==
    \A a \in Finalizers : Finalizing(a)' =>
        Finalizing(a) /\ fin'[a].task = fin[a].task /\ fin'[a].all = fin[a].all
PermShrinks ==
    /\ perm'.conf \subseteq perm.conf /\ perm'.asks \subseteq perm.asks
    /\ perm'.grants \subseteq perm.grants /\ perm'.recording \subseteq perm.recording
\* A request keeps what it has picked, and takes no new lease of a tab's task.
RunKept(r) ==
    /\ PickKept(r)
    /\ r \in DOMAIN req /\ OnATab(req[r].op) /\ run'[r].held > 0 =>
          run[r].held > 0 /\ run'[r].task = run[r].task
RunsKept == \A r \in Requests : RunKept(r)

\* Runs that only go on use no tab that was not in use.
LEMMA UseShrinks ==
    ASSUME AskedInv, req' = req, perm'.conf \subseteq perm.conf, RunsKept
    PROVE  UseKept /\ \A r \in DOMAIN req : HeldKept(r)
    BY DEF AskedInv, UseKept, InUse, HeldKept, RunsKept, RunKept

\* Fewer permissions keep what is said of them.
LEMMA PermKeeps ==
    ASSUME PermShrinks
    PROVE  PermKept
    BY DEF PermShrinks, PermKept

\* A step that leaves tabs, tasks and finalizations alone, and grants nothing.
LEMMA EndRests ==
    ASSUME CoreInv, AskedInv, EndInv, req' = req, TabsSame, TasksSame, FinSame, PermShrinks, RunsKept
    PROVE  EndInv'
    <1>1. TabsKept
        BY DEF TabsSame, TabsKept
    <1>2. TasksKept
        BY DEF TasksSame, TasksKept
    <1>3. FinKept
        BY DEF FinSame, FinKept
    <1>4. UseKept /\ PermKept /\ \A r \in DOMAIN req : HeldKept(r)
        BY UseShrinks, PermKeeps DEF PermShrinks
    <1> QED
        BY <1>1, <1>2, <1>3, <1>4, EndKept DEF RunsKept, RunKept

(***************************************************************************)
(* How an operation moves                                                  *)
(***************************************************************************)
LEMMA RunStays ==
    ASSUME CoreInv, run' = run
    PROVE  RunsKept
    BY DEF CoreInv, RunsInside, RunsKept, RunKept, PickKept, Running

\* The operation goes on, stops, or throws.
LEMMA RunMoves ==
    ASSUME CoreInv, NEW r \in Requests, OthersRun(r), run'[r].mode = run[r].mode, run'[r].tab = run[r].tab,
           run'[r].task = run[r].task, run'[r].held \in 0..2, run'[r].held <= run[r].held,
           \/ run'[r].at = run[r].at /\ (run'[r].out = None => run[r].out = None)
           \/ /\ run'[r].at = run[r].at + 1 /\ Running(r)
              /\ req[r].op \in {"open", "openAuthorizedSite"} => run[r].at # 5
    PROVE  RunsKept
    <1>1. ASSUME NEW s \in Requests, s # r
          PROVE  RunKept(s)
        BY <1>1 DEF CoreInv, RunsInside, OthersRun, RunKept, PickKept, Running
    <1>2. RunKept(r)
        <2>1. run[r].at \in Nat /\ run[r].held \in 0..2
            BY DEF CoreInv, RunsInside
        <2> QED
            BY <2>1 DEF RunKept, PickKept, Running
    <1> QED
        BY <1>1, <1>2 DEF RunsKept

\* Only pick is the fifth step of an open.
LEMMA NotPick ==
    ASSUME AskedInv, CoreInv, NEW r \in DOMAIN req, NEW s, At(r, s), s # "pick"
    PROVE  req[r].op \in {"open", "openAuthorizedSite"} => run[r].at # 5
    <1>1. At(r, s) => execute[req[r].op][run[r].at] = s
        BY AtIs DEF CoreInv
    <1>2. execute["open"][5] = "pick" /\ execute["openAuthorizedSite"][5] = "pick"
        BY DEF execute, open, openAuthorizedSite
    <1> QED
        BY <1>1, <1>2

\* Going on keeps what is said of runs.
LEMMA AdvanceKeeps ==
    ASSUME AskedInv, CoreInv, NEW r \in DOMAIN req, NEW s, At(r, s), s # "pick",
           Notes(r) \/ \E i : run' = [run EXCEPT ![r].at = @ + 1, ![r].idx = i]
    PROVE  RunsKept
    <1>0. r \in Requests /\ RunShape /\ run[r].at \in Nat /\ run[r].held \in 0..2
        BY DEF AskedInv, CoreInv, Shapes, RunsInside
    <1>1. /\ OthersRun(r) /\ run'[r].mode = run[r].mode /\ run'[r].tab = run[r].tab
          /\ run'[r].task = run[r].task /\ run'[r].held = run[r].held /\ run'[r].at = run[r].at + 1
        BY <1>0 DEF Notes, Advance, RunShape, OthersRun
    <1>2. Running(r) /\ (req[r].op \in {"open", "openAuthorizedSite"} => run[r].at # 5)
        BY NotPick DEF At
    <1> QED
        BY <1>0, <1>1, <1>2, RunMoves

\* So does stopping.
LEMMA StopKeeps ==
    ASSUME CoreInv, NEW r \in Requests, NEW code \in Outcomes,
           Stop(r, code) \/ run' = [run EXCEPT ![r].out = code, ![r].held = 0]
    PROVE  RunsKept
    <1>0. RunShape /\ run[r].held \in 0..2 /\ code # None
        BY NamesAssumption DEF CoreInv, Shapes, RunsInside
    <1>1. /\ OthersRun(r) /\ run'[r].mode = run[r].mode /\ run'[r].tab = run[r].tab
          /\ run'[r].task = run[r].task /\ run'[r].held \in {run[r].held, 0} /\ run'[r].at = run[r].at
          /\ run'[r].out # None
        BY <1>0 DEF Stop, RunShape, OthersRun
    <1>2. run'[r].held \in 0..2 /\ run'[r].held <= run[r].held
        BY <1>0, <1>1
    <1> QED
        BY <1>1, <1>2, RunMoves

\* A lease that is given back leaves the task as it is.
LEMMA UnleasedSame ==
    ASSUME TaskShape, NEW k, NEW n \in 0..2, n # 0 => k \in Tasks, task' = Unleased(k, n)
    PROVE  TasksSame
    <1>1. CASE n = 0
        BY <1>1 DEF Unleased, TasksSame
    <1>2. CASE n # 0
        BY <1>2 DEF Unleased, TasksSame, TaskShape
    <1> QED
        BY <1>1, <1>2

\* So does throwing, which takes permissions and leases away.
LEMMA ThrowKeeps ==
    ASSUME CoreInv, NEW r \in Requests, NEW code \in Outcomes, NEW p,
           DOMAIN p = {"conf", "asks", "grants", "recording"},
           p.conf \subseteq perm.conf, p.asks = perm.asks, p.grants = perm.grants, p.recording \subseteq perm.recording,
           ThrowWith(r, code, p)
    PROVE  RunsKept /\ TasksSame /\ PermShrinks
    <1>1. RunsKept
        BY StopKeeps DEF ThrowWith
    <1>2. TasksSame
        <2>1. run[r].held \in 0..2 /\ (run[r].held # 0 => run[r].task \in Tasks) /\ TaskShape
            BY DEF CoreInv, RunsInside, Shapes
        <2> QED
            BY <2>1, UnleasedSame DEF ThrowWith
    <1>3. PermShrinks
        BY DEF ThrowWith, PermShrinks
    <1> QED
        BY <1>1, <1>2, <1>3

(***************************************************************************)
(* The steps of an operation                                               *)
(***************************************************************************)
LEMMA SimpleEnd ==
    ASSUME CoreInv, AskedInv, EndInv, NEW r \in DOMAIN req, NEW s, At(r, s), s # "pick",
           Goes(r) \/ Throws(r), TabsSame, req' = req, fin' = fin
    PROVE  EndInv'
    <1>0. r \in Requests /\ DOMAIN perm = {"conf", "asks", "grants", "recording"}
        BY DEF AskedInv, CoreInv, Shapes, PermShape
    <1>1. FinSame
        BY DEF FinSame, Finalizing
    <1>2. RunsKept /\ TasksSame /\ PermShrinks
        <2>1. CASE Goes(r)
            <3>1. RunsKept
                BY <2>1, AdvanceKeeps DEF Goes, Notes
            <3> QED
                BY <2>1, <3>1 DEF Goes, TasksSame, PermShrinks
        <2>2. CASE Throws(r)
            <3>1. PICK code \in Outcomes : ThrowWith(r, code, perm)
                BY <2>2 DEF Throws
            <3> QED
                BY <1>0, <3>1, ThrowKeeps
        <2> QED
            BY <2>1, <2>2
    <1> QED
        BY <1>1, <1>2, EndRests

\* The checks and the steps of the driver keep EndInv.
LEMMA DriverStepsEnd ==
    ASSUME CoreInv, AskedInv, EndInv, NEW r \in DOMAIN req,
           \/ Target(r) \/ Save(r) \/ Read(r)
           \/ SelectTab(r) \/ GrantPage(r) \/ Act(r) \/ Visit(r) \/ Login(r) \/ Close(r)
    PROVE  EndInv'
    <1>0. r \in Requests /\ Shapes
        BY DEF AskedInv, CoreInv
    <1>1. req' = req /\ fin' = fin
        <2>1. CASE Target(r) \/ Save(r) \/ Read(r)
            BY <2>1 DEF Target, Save, Read, Check
        <2>2. CASE SelectTab(r) \/ GrantPage(r) \/ Act(r) \/ Visit(r) \/ Login(r) \/ Close(r)
            BY <2>2 DEF SelectTab, GrantPage, Act, Visit, Login, Close
        <2> QED
            BY <2>1, <2>2
    <1>2. PICK s : At(r, s) /\ s # "pick"
        BY DEF Target, Save, Read, Check, SelectTab, GrantPage, Act, Visit, Login, Close
    <1>3. Goes(r) \/ Throws(r)
        BY <1>0, ChecksAreSimple, DriverStepsAreSimple
    <1>4. TabsSame
        <2>1. ASSUME NEW page, NEW site, ActOn(r, page, site)
              PROVE  TabsSame
            <3>1. tab' = tab \/ tab' = [tab EXCEPT ![Tab(r)].site = site]
                BY <2>1 DEF ActOn
            <3> QED
                BY <1>0, <3>1 DEF TabsSame, Shapes, TabShape
        <2>2. CASE tab' = tab
            BY <2>2 DEF TabsSame
        <2>3. CASE Act(r)
            BY <2>1, <2>2, <2>3 DEF Act
        <2>4. CASE Visit(r)
            BY <2>1, <2>2, <2>4 DEF Visit
        <2>5. CASE SelectTab(r)
            BY <2>2, <2>5 DEF SelectTab, Select, Turned
        <2>6. CASE Target(r) \/ Save(r) \/ Read(r)
            BY <2>2, <2>6 DEF Target, Save, Read, Check
        <2>7. CASE GrantPage(r) \/ Login(r) \/ Close(r)
            BY <2>2, <2>7 DEF GrantPage, Login, Close
        <2> QED
            BY <2>3, <2>4, <2>5, <2>6, <2>7
    <1> QED
        BY <1>1, <1>2, <1>3, <1>4, SimpleEnd

\* The tabs that are forgotten leave their tasks.
LEMMA ForgettingEnd ==
    ASSUME CoreInv, AskedInv, EndInv, NEW ts, tab' = Forgotten(ts), task' = Detached(ts),
           req' = req, perm' = perm, FinSame, RunsKept
    PROVE  EndInv'
    <1>0. TaskShape /\ TabShape /\ TabsOwned
        BY DEF CoreInv, Shapes, EndInv
    <1>1. ASSUME NEW t \in Tabs
          PROVE  /\ tab'[t].of = tab[t].of /\ (tab'[t].reg => tab[t].reg) /\ (t \in ts => ~tab'[t].reg)
        <2>1. CASE t \in ts
            <3>1. tab'[t] = Unregistered(t)
                BY <2>1 DEF Forgotten
            <3> QED
                BY <1>0, <3>1 DEF Unregistered, TabShape
        <2>2. CASE t \notin ts
            BY <2>2 DEF Forgotten
        <2> QED
            BY <2>1, <2>2
    <1>2. ASSUME NEW k \in Tasks
          PROVE  task'[k].state = task[k].state /\ task'[k].tabs = task[k].tabs \ ts
        <2>1. CASE task[k].tabs \cap ts = {}
            BY <2>1 DEF Detached
        <2>2. CASE task[k].tabs \cap ts # {}
            <3>1. task'[k] = WithoutTabs(k, ts)
                BY <2>2 DEF Detached
            <3> QED
                BY <1>0, <3>1 DEF WithoutTabs, TaskShape
        <2> QED
            BY <2>1, <2>2
    <1>3. TabsKept
        BY <1>1 DEF TabsKept
    <1>4. TasksKept
        BY <1>0, <1>1, <1>2 DEF TasksKept, TabsOwned
    <1>5. UseKept /\ PermKept /\ FinKept /\ \A r \in DOMAIN req : HeldKept(r)
        BY UseShrinks, PermKeeps DEF PermShrinks, FinKept, FinSame
    <1> QED
        BY <1>3, <1>4, <1>5, EndKept DEF RunsKept, RunKept

\* The browser comes back with the tabs that are registered, or with a blank one for task k.
LEMMA ReconnectEnd ==
    ASSUME CoreInv, AskedInv, EndInv, NEW k \in Tasks, Reconnect(k), req' = req, FinSame, RunsKept
    PROVE  EndInv'
    <1>0. TaskShape /\ TabShape /\ PermShape /\ TabsOwned /\ UsedAttached /\ Picked /\ None \notin Tasks
        BY NamesAssumption DEF CoreInv, Shapes, EndInv
    <1> DEFINE blank == IF Registered = {} THEN {CHOOSE t \in NewTabs : TRUE} ELSE {}
               owned(j) == {t \in Registered : tab[t].of = j} \cup (IF j = k THEN blank ELSE {})
    <1>1. blank \subseteq NewTabs
        BY DEF Reconnect
    <1>2. /\ tab' = [t \in Tabs |-> IF t \in blank THEN BlankTab(k, t)
                                    ELSE IF t \in Registered THEN Restored(t) ELSE tab[t]]
          /\ task' = [j \in Tasks |-> [task[j] EXCEPT !.tabs = @ \cup owned(j)]]
          /\ perm' = Unconfirmed
        BY DEF Reconnect
    <1> HIDE DEF blank
    <1>3. ASSUME NEW t \in Tabs
          PROVE  /\ t \notin blank => tab'[t].of = tab[t].of /\ tab'[t].reg = tab[t].reg
                 /\ t \in blank => tab[t].of = None /\ tab'[t].of = k
        <2>1. CASE t \in blank
            BY <1>1, <1>2, <2>1 DEF BlankTab, NewTabs
        <2>2. CASE t \notin blank /\ t \in Registered
            <3>1. tab'[t] = Restored(t)
                BY <1>2, <2>2
            <3> QED
                BY <1>0, <2>2, <3>1 DEF Restored, TabShape
        <2>3. CASE t \notin blank /\ t \notin Registered
            BY <1>2, <2>3
        <2> QED
            BY <2>1, <2>2, <2>3
    <1>4. ASSUME NEW r \in Requests, PicksNew(r)'
          PROVE  ~tab[run'[r].tab].reg /\ tab[run'[r].tab].of \in Tasks
        <2>1. PickKept(r) /\ run[r].at \in Nat
            BY DEF RunsKept, RunKept, CoreInv, RunsInside
        <2>2. run[r].mode = "new" /\ run'[r].tab = run[r].tab /\ run'[r].at <= 9 /\ Running(r)'
              /\ r \in DOMAIN req /\ ~OnATab(req[r].op)
            BY <1>4, <2>1 DEF PicksNew, Opens, PickKept
        <2>3. run[r].at > 5
            BY <1>0, <2>2 DEF Picked
        <2>4. Opens(r) /\ PicksNew(r)
            BY <2>1, <2>2, <2>3 DEF PickKept, PicksNew, Opens
        <2> QED
            BY <1>0, <2>2, <2>4 DEF Picked
    <1>5. ASSUME NEW t \in blank
          PROVE  t \in Tabs /\ ~InUse(t) /\ Unpicked(t)
        <2>1. t \in Tabs /\ tab[t].of = None
            BY <1>1, <1>5 DEF NewTabs
        <2> QED
            BY <1>0, <1>4, <2>1 DEF Unpicked, UsedAttached
    <1>6. TabsKept
        BY <1>0, <1>3, <1>5 DEF TabsKept
    <1>7. ASSUME NEW j \in Tasks
          PROVE  task'[j].state = task[j].state /\ task'[j].tabs = task[j].tabs \cup owned(j)
        BY <1>0, <1>2 DEF TaskShape
    <1>8. ASSUME NEW j \in Tasks, NEW t \in owned(j)
          PROVE  t \in Tabs /\ tab'[t].of = j /\ Unpicked(t)
        <2>1. CASE t \in Registered /\ tab[t].of = j
            <3>1. t \in Tabs /\ tab[t].reg /\ t \notin blank
                BY <1>1, <2>1 DEF Registered, blank
            <3> QED
                BY <1>3, <1>4, <2>1, <3>1 DEF Unpicked
        <2>2. CASE j = k /\ t \in blank
            BY <1>3, <1>5, <2>2
        <2> QED
            BY <1>8, <2>1, <2>2
    <1> HIDE DEF owned
    <1>9. TasksKept
        BY <1>7, <1>8 DEF TasksKept
    <1>10. PermShrinks
        BY <1>0, <1>2 DEF PermShrinks, Unconfirmed, PermShape
    <1>11. UseKept /\ PermKept /\ FinKept /\ \A r \in DOMAIN req : HeldKept(r)
        BY <1>10, UseShrinks, PermKeeps DEF PermShrinks, FinKept, FinSame
    <1> QED
        BY <1>6, <1>9, <1>11, EndKept DEF RunsKept, RunKept

\* An operation on a tab holds a lease of the task of its tab.
LEMMA OnItsTab ==
    ASSUME CoreInv, AskedInv, EndInv, NEW r \in DOMAIN req, Running(r), OnATab(req[r].op)
    PROVE  /\ run[r].held > 0 /\ req[r].tab \in Tabs /\ tab[req[r].tab].of = run[r].task /\ InUse(req[r].tab)
           /\ run[r].task \in Tasks /\ task[run[r].task].state \notin Ended
    <1>1. r \in Requests /\ req[r].tab \in Tabs
        BY DEF AskedInv, Asked
    <1>2. run[r].held = 1
        BY <1>1 DEF CoreInv, RunsInside, HeldAt
    <1> QED
        BY <1>1, <1>2, HolderLives DEF EndInv, TabsOwned, InUse

\* A reconnect gives fresh tabs to tasks that are not over.
LEMMA ConnectEnd ==
    ASSUME CoreInv, AskedInv, EndInv, NEW r \in DOMAIN req, Connect(r) \/ Reach(r)
    PROVE  EndInv'
    <1>0. r \in Requests /\ Shapes /\ PermShape
        BY DEF AskedInv, CoreInv, Shapes
    <1>1. req' = req /\ fin' = fin
        BY DEF Connect, Reach
    <1>2. PICK s \in {"connect", "reach"} : At(r, s)
        BY DEF Connect, Reach
    <1>3. FinSame
        BY <1>1 DEF FinSame, Finalizing
    <1>4. \/ Goes(r) /\ tab' = tab
          \/ Throw(r, "STALE_TAB_ID") /\ tab' = tab
          \/ ReconnectFails(r)
          \/ Reconnect(TaskOf(r)) /\ (Advance(r) \/ run' = run)
          \/ /\ run' = [run EXCEPT ![r].at = @ + 1, ![r].idx = IndexOf(tab[Tab(r)].page)]
             /\ task' = task /\ tab' = tab /\ perm' = perm
        <2>1. CASE Connect(r)
            BY <2>1 DEF Connect, Goes
        <2>2. CASE Reach(r)
            BY <2>2 DEF Reach, Turned
        <2> QED
            BY <2>1, <2>2
    <1>5. CASE (Goes(r) \/ Throw(r, "STALE_TAB_ID")) /\ tab' = tab
        <2>1. TabsSame
            BY <1>5 DEF TabsSame
        <2>2. Goes(r) \/ Throws(r)
            BY <1>5, ThrowsOutcome DEF Outcomes
        <2> QED
            BY <1>1, <1>2, <2>1, <2>2, SimpleEnd
    <1>6. CASE ReconnectFails(r)
        <2>1. ThrowWith(r, "BROWSER_CONTEXT_RECOVERY_FAILED", Unconfirmed) /\ tab' = tab
            BY <1>6 DEF ReconnectFails
        <2>2. /\ DOMAIN Unconfirmed = {"conf", "asks", "grants", "recording"} /\ Unconfirmed.conf \subseteq perm.conf
              /\ Unconfirmed.asks = perm.asks /\ Unconfirmed.grants = perm.grants
              /\ Unconfirmed.recording = perm.recording
            BY <1>0 DEF Unconfirmed, PermShape
        <2>3. RunsKept /\ TasksSame /\ PermShrinks
            BY <1>0, <2>1, <2>2, ThrowKeeps DEF Outcomes
        <2> QED
            BY <1>1, <1>3, <2>1, <2>3, EndRests DEF TabsSame
    <1>7. CASE Reconnect(TaskOf(r)) /\ (Advance(r) \/ run' = run)
        <2>1. RunsKept
            BY <1>2, <1>7, AdvanceKeeps, RunStays DEF Notes
        <2>2. TaskOf(r) \in Tasks
            <3>1. CASE OnATab(req[r].op)
                BY <1>2, <3>1, OnItsTab DEF TaskOf, Tab, At
            <3>2. CASE ~OnATab(req[r].op)
                <4> DEFINE op == req[r].op
                <4>1. OpenProgram(op) /\ run[r].at \in 1..Len(execute[op]) /\ execute[op][run[r].at] = s
                         /\ run[r].held = HeldAt(op, run[r].at) /\ s \in OpenSteps
                    BY <1>2, <3>2, AtIs DEF CoreInv
                <4>2. s \notin {"enter", "admit", "finish"}
                    BY <1>2
                <4> HIDE DEF op
                <4>3. HeldAt(op, run[r].at) > 0
                    BY <1>2, <4>1, <4>2 DEF OpenProgram
                <4> QED
                    BY <1>0, <3>2, <4>1, <4>3, HolderLives DEF TaskOf
            <3> QED
                BY <3>1, <3>2
        <2> QED
            BY <1>1, <1>3, <1>7, <2>1, <2>2, ReconnectEnd
    <1>8. CASE /\ run' = [run EXCEPT ![r].at = @ + 1, ![r].idx = IndexOf(tab[Tab(r)].page)]
               /\ task' = task /\ tab' = tab /\ perm' = perm
        <2>1. RunsKept
            BY <1>2, <1>8, AdvanceKeeps
        <2> QED
            BY <1>1, <1>3, <1>8, <2>1, EndRests DEF TabsSame, TasksSame, PermShrinks
    <1> QED
        BY <1>4, <1>5, <1>6, <1>7, <1>8

\* Reconciling and dropping forget tabs.
LEMMA ForgetEnd ==
    ASSUME CoreInv, AskedInv, EndInv, NEW r \in DOMAIN req, Reconcile(r) \/ Drop(r)
    PROVE  EndInv'
    <1>1. req' = req /\ fin' = fin /\ Advance(r)
        BY DEF Reconcile, Drop
    <1>2. PICK s \in {"reconcile", "drop"} : At(r, s)
        BY DEF Reconcile, Drop
    <1>3. FinSame /\ RunsKept
        BY <1>1, <1>2, AdvanceKeeps DEF FinSame, Finalizing, Notes
    <1>4. perm' = perm /\ \E ts \in {Lost, {Tab(r)}} : tab' = Forgotten(ts) /\ task' = Detached(ts)
        BY DEF Reconcile, Drop
    <1> QED
        BY <1>1, <1>3, <1>4, ForgettingEnd

\* A recording is begun under a lease, so its task is not over.
LEMMA RecordEnd ==
    ASSUME CoreInv, AskedInv, EndInv, NEW r \in DOMAIN req, Tapes(r)
    PROVE  EndInv'
    <1>0. r \in Requests /\ PermShape
        BY DEF AskedInv, CoreInv, Shapes
    <1>1. req' = req /\ fin' = fin /\ tab' = tab /\ TabsSame /\ FinSame
        BY <1>0, TapeIs DEF TabsSame, FinSame, Finalizing
    <1>2. PICK s \in TapeSteps : At(r, s)
        BY <1>0, TapeIs
    <1>3. CASE ThrowsUnmarked(r)
        <2>1. PICK code \in Outcomes : \E p : Unmarks(p) /\ ThrowWith(r, code, p)
            BY <1>3 DEF ThrowsUnmarked
        <2>2. PICK p : Unmarks(p) /\ ThrowWith(r, code, p)
            BY <2>1
        <2>3. RunsKept /\ TasksSame /\ PermShrinks
            BY <1>0, <2>2, ThrowKeeps DEF Unmarks
        <2> QED
            BY <1>1, <2>3, EndRests
    <1>4. CASE task' = task /\ Notes(r) /\ (Unmarks(perm') \/ Marks(r))
        <2>1. RunsKept
            BY <1>2, <1>4, AdvanceKeeps DEF TapeSteps
        <2>2. CASE Unmarks(perm')
            <3>1. PermShrinks /\ TasksSame
                BY <1>4, <2>2 DEF PermShrinks, TasksSame, Unmarks
            <3> QED
                BY <1>1, <2>1, <3>1, EndRests
        <2>3. CASE Marks(r)
            <3>1. OnATab(req[r].op) /\ At(r, "record")
                BY <2>3, AtIs DEF Marks, OpenSteps, CoreInv
            <3>2. \A k \in TaskOfTab(Tab(r)) : task[k].state \notin Ended
                BY <3>1, OnItsTab DEF At, Tab, TaskOfTab, EndInv, TabsOwned
            <3>3. /\ perm'.conf = perm.conf /\ perm'.asks = perm.asks /\ perm'.grants = perm.grants
                  /\ perm'.recording = perm.recording \cup TabMarks(r)
                BY <1>0, <2>3 DEF Marks, PermShape
            <3>4. ASSUME NEW k \in Tasks, task[k].state \in Ended, NEW kind, <<kind, k>> \in perm'.recording
                  PROVE  <<kind, k>> \in perm.recording
                BY <3>2, <3>3, <3>4 DEF TabMarks
            <3>5. PermKept
                BY <1>4, <3>3, <3>4 DEF PermKept, Ended
            <3>6. TabsKept /\ TasksKept /\ FinKept
                BY <1>1, <1>4 DEF TabsKept, TasksKept, FinKept, FinSame
            <3>7. UseKept /\ \A q \in DOMAIN req : HeldKept(q)
                BY <1>1, <2>1, <3>3, UseShrinks
            <3> QED
                BY <1>1, <2>1, <3>5, <3>6, <3>7, EndKept DEF RunsKept, RunKept
        <2> QED
            BY <1>4, <2>2, <2>3
    <1> QED
        BY <1>0, <1>3, <1>4, TapeIs

\* So is a confirmation.
LEMMA ConfirmEnd ==
    ASSUME CoreInv, AskedInv, EndInv, NEW r \in DOMAIN req, Confirm(r)
    PROVE  EndInv'
    <1>0. r \in Requests /\ PermShape
        BY DEF AskedInv, CoreInv, Shapes
    <1>1. req' = req /\ fin' = fin /\ tab' = tab /\ At(r, "confirm")
        BY DEF Confirm
    <1>2. FinSame /\ TabsSame
        BY <1>1 DEF FinSame, Finalizing, TabsSame
    <1>3. CASE Goes(r) \/ Throw(r, "BROWSER_CONFIRMATION_INVALID")
        BY <1>1, <1>2, <1>3, SimpleEnd, ThrowsOutcome DEF Outcomes
    <1>4. CASE /\ perm' = [perm EXCEPT !.conf = Consumed(CHOOSE c \in Matching(r) : TRUE)]
               /\ Advance(r) /\ task' = task
        <2>1. RunsKept
            BY <1>1, <1>4, AdvanceKeeps DEF Notes
        <2>2. PermShrinks
            BY <1>0, <1>4 DEF PermShrinks, PermShape, Consumed
        <2> QED
            BY <1>1, <1>2, <1>4, <2>1, <2>2, EndRests DEF TasksSame
    <1>5. CASE /\ perm' = [perm EXCEPT !.conf = @ \cup
                              {[id |-> r, tab |-> Tab(r), site |-> tab[Tab(r)].site, deed |-> req[r].deed]}]
               /\ run' = [run EXCEPT ![r].out = "ACTION_REQUIRES_CONFIRMATION"]
               /\ task' = task
        <2>1. RunsKept
            BY <1>0, <1>5, StopKeeps DEF Stop, Outcomes
        <2>2. OnATab(req[r].op)
            BY <1>1, AtIs DEF OpenSteps, CoreInv
        <2>3. InUse(req[r].tab) /\ Tab(r) = req[r].tab
            BY <1>1, <2>2, OnItsTab DEF At, Tab
        <2>4. /\ perm'.asks = perm.asks /\ perm'.grants = perm.grants /\ perm'.recording = perm.recording
              /\ \A c \in perm'.conf : c \in perm.conf \/ c.tab = req[r].tab
            BY <1>0, <1>5, <2>3 DEF PermShape
        <2>5. ASSUME NEW t, InUse(t)'
              PROVE  InUse(t)
            <3>1. CASE \E c \in perm'.conf : c.tab = t
                BY <2>3, <2>4, <3>1 DEF InUse
            <3>2. CASE \E q \in DOMAIN req : OnATab(req[q].op) /\ run'[q].held > 0 /\ req[q].tab = t
                BY <2>1, <3>2 DEF InUse, RunsKept, RunKept, AskedInv
            <3> QED
                BY <1>1, <2>5, <3>1, <3>2 DEF InUse
        <2>6. TabsKept /\ TasksKept /\ FinKept /\ PermKept /\ UseKept
            BY <1>1, <1>2, <1>5, <2>4, <2>5 DEF TabsKept, TasksKept, FinKept, FinSame, PermKept, UseKept
        <2>7. \A q \in DOMAIN req : HeldKept(q)
            BY <2>1 DEF RunsKept, RunKept, HeldKept, AskedInv
        <2> QED
            BY <1>1, <2>1, <2>6, <2>7, EndKept DEF RunsKept, RunKept
    <1> QED
        BY <1>3, <1>4, <1>5 DEF Confirm, Goes

\* Leaving a task.
LEMMA LeaveEnd ==
    ASSUME CoreInv, AskedInv, EndInv, NEW r \in DOMAIN req, Leave(r)
    PROVE  EndInv'
    <1>0. r \in Requests /\ TaskShape /\ RunShape
        BY DEF AskedInv, CoreInv, Shapes
    <1>1. /\ At(r, "leave") /\ req' = req /\ fin' = fin /\ tab' = tab /\ perm' = perm
          /\ task' = Unleased(run[r].task, 1)
          /\ run' = [run EXCEPT ![r].at = @ + 1, ![r].held = @ - 1]
        BY DEF Leave
    <1> DEFINE op == req[r].op
    <1>2. ~OnATab(op) /\ OpenProgram(op) /\ run[r].at \in 1..Len(execute[op]) /\ execute[op][run[r].at] = "leave"
             /\ run[r].held = HeldAt(op, run[r].at)
        BY <1>1, AtIs DEF TabSteps, TapeSteps, CoreInv
    <1> HIDE DEF op
    <1>3. HeldAt(op, run[r].at) = HeldAt(op, run[r].at + 1) + 1 /\ HeldAt(op, run[r].at + 1) \in Nat
        BY <1>2 DEF OpenProgram, HeldAt
    <1>4. run[r].task \in Tasks /\ run[r].at \in Nat /\ run[r].held \in 1..2
        BY <1>0, <1>2, <1>3 DEF CoreInv, RunsInside
    <1>5. TasksSame
        BY <1>0, <1>1, <1>4, UnleasedSame
    <1>6. RunsKept
        <2>1. /\ OthersRun(r) /\ run'[r].mode = run[r].mode /\ run'[r].tab = run[r].tab
              /\ run'[r].task = run[r].task /\ run'[r].held = run[r].held - 1 /\ run'[r].at = run[r].at + 1
            BY <1>0, <1>1 DEF RunShape, OthersRun
        <2>2. Running(r) /\ (req[r].op \in {"open", "openAuthorizedSite"} => run[r].at # 5)
            BY <1>1, NotPick DEF At
        <2> QED
            BY <1>0, <1>4, <2>1, <2>2, RunMoves
    <1> QED
        BY <1>1, <1>5, <1>6, EndRests DEF TabsSame, PermShrinks, FinSame, Finalizing

\* The task that an open resolves is active, with the tabs it had.
LEMMA LeasedTabs ==
    ASSUME TaskShape, NEW r, NEW k \in Tasks, NEW n
    PROVE  /\ \A j \in Tasks : j # k => Leased(k, r, n)[j] = task[j]
           /\ Leased(k, r, n)[k].state = "active"
           /\ Leased(k, r, n)[k].tabs = IF task[k].state = "none" THEN {} ELSE task[k].tabs
           /\ DOMAIN Leased(k, r, n) = Tasks
           /\ DOMAIN Leased(k, r, n)[k] = {"state", "owner", "tabs", "leases", "idle"}
    <1> DEFINE new == Resolved(k, r)
    <1>1. /\ DOMAIN new = {"state", "owner", "tabs", "leases", "idle"}
          /\ new.state = "active"
          /\ new.tabs = IF task[k].state = "none" THEN {} ELSE task[k].tabs
        BY DEF Resolved, TaskShape
    <1> HIDE DEF new
    <1>2. Leased(k, r, n) = [task EXCEPT ![k] = [new EXCEPT !.leases = @ + n]]
        BY DEF Leased, new
    <1> QED
        BY <1>1, <1>2 DEF TaskShape

\* Entering a task, or admitting an operation to one.
LEMMA EnterEnd ==
    ASSUME CoreInv, AskedInv, EndInv, NEW r \in DOMAIN req, Enter(r) \/ Admit(r)
    PROVE  EndInv'
    <1> DEFINE k == resolveForOpen(r)
    <1>0. r \in Requests /\ TaskShape /\ RunShape /\ PermShape /\ Picked
        BY DEF AskedInv, CoreInv, Shapes, EndInv
    <1>1. req' = req /\ fin' = fin /\ tab' = tab
        BY DEF Enter, Admit
    <1>2. PICK s \in {"enter", "admit"} : At(r, s)
        BY DEF Enter, Admit
    <1>3. CASE k = None
        <2>1. Throw(r, "TASK_SCOPE_REQUIRED")
            BY <1>3 DEF Enter, Admit
        <2>2. Throws(r) /\ TabsSame
            BY <1>1, <2>1, ThrowsOutcome DEF Outcomes, TabsSame
        <2> QED
            BY <1>1, <1>2, <2>2, SimpleEnd
    <1>4. CASE k # None
        <2>1. k \in Tasks /\ task[k].state \in {"none", "active", "suspended"}
            BY <1>4, ResolveIs
        <2>2. ~OnATab(req[r].op) /\ run[r].at = 1 /\ Running(r)
            BY <1>2, EntersEmptyHanded DEF CoreInv, At
        <2>3. PICK n \in 0..2 :
                 task' = Leased(k, r, n) \/ task' = [Leased(k, r, n) EXCEPT ![k].idle = FALSE]
            BY <1>4 DEF Enter, Admit
        <2>4. \/ run' = [run EXCEPT ![r].at = @ + 1, ![r].task = k, ![r].held = 1]
              \/ run' = [run EXCEPT ![r].at = @ + 1, ![r].task = k, ![r].held = 2]
              \/ run' = [run EXCEPT ![r].task = k, ![r].out = "confirmation_required"]
              \/ run' = [run EXCEPT ![r].task = k, ![r].out = "SITE_ACCESS_AUTHORIZATION_REQUIRED"]
            BY <1>4 DEF Enter, Admit
        <2>5. \/ perm' = perm
              \/ perm' = [perm EXCEPT !.asks = @ \cup {[id |-> r, task |-> k]}]
              \/ perm' = [perm EXCEPT !.asks = @ \ SiteMatch(r, k), !.grants = @ \cup {k}]
            BY <1>4 DEF Enter, Admit
        <2> HIDE DEF k
        <2>6. /\ \A j \in Tasks : j # k => task'[j] = task[j]
              /\ task'[k].state = "active"
              /\ task'[k].tabs = IF task[k].state = "none" THEN {} ELSE task[k].tabs
            <3> DEFINE f == Leased(k, r, n)
            <3>1. /\ \A j \in Tasks : j # k => f[j] = task[j]
                  /\ f[k].state = "active" /\ DOMAIN f = Tasks
                  /\ f[k].tabs = IF task[k].state = "none" THEN {} ELSE task[k].tabs
                  /\ DOMAIN f[k] = {"state", "owner", "tabs", "leases", "idle"}
                BY <1>0, <2>1, LeasedTabs
            <3>2. task' = f \/ task' = [f EXCEPT ![k].idle = FALSE]
                BY <2>3
            <3> HIDE DEF f
            <3> QED
                BY <2>1, <3>1, <3>2
        <2>7. /\ OthersRun(r) /\ run'[r].mode = run[r].mode /\ run'[r].tab = run[r].tab
              /\ run'[r].at \in {1, 2}
            BY <1>0, <2>2, <2>4 DEF RunShape, OthersRun
        <2>8. RunsKept
            <3>1. ASSUME NEW q \in Requests, q # r
                  PROVE  RunKept(q)
                BY <2>7, <3>1 DEF CoreInv, RunsInside, OthersRun, RunKept, PickKept, Running
            <3>2. run[r].mode = "none"
                BY <1>0, <2>2 DEF Picked
            <3>3. RunKept(r)
                BY <2>2, <2>7, <3>2 DEF RunKept, PickKept
            <3> QED
                BY <3>1, <3>3 DEF RunsKept
        <2>9. TasksKept
            BY <1>1, <2>1, <2>6 DEF TasksKept, Ended
        <2>10. /\ perm'.conf = perm.conf /\ perm'.recording = perm.recording
               /\ \A j \in perm'.grants : j \in perm.grants \/ j = k
               /\ \A a \in perm'.asks : a \in perm.asks \/ a.task = k
            <3>1. CASE perm' = perm
                BY <3>1
            <3>2. CASE perm' = [perm EXCEPT !.asks = @ \cup {[id |-> r, task |-> k]}]
                BY <1>0, <3>2 DEF PermShape
            <3>3. CASE perm' = [perm EXCEPT !.asks = @ \ SiteMatch(r, k), !.grants = @ \cup {k}]
                BY <1>0, <3>3 DEF PermShape
            <3> QED
                BY <2>5, <3>1, <3>2, <3>3
        <2>11. PermKept
            BY <2>6, <2>10 DEF PermKept
        <2>12. UseKept /\ \A q \in DOMAIN req : HeldKept(q)
            BY <1>1, <2>8, <2>10, UseShrinks
        <2>13. TabsKept /\ FinKept
            BY <1>1 DEF TabsKept, FinKept, Finalizing
        <2> QED
            BY <1>1, <2>8, <2>9, <2>11, <2>12, <2>13, EndKept DEF RunsKept, RunKept
    <1> QED
        BY <1>3, <1>4

\* Where an open picks a tab and attaches it.
LEMMA OpensAt ==
    ASSUME CoreInv, AskedInv, NEW r \in DOMAIN req, NEW s \in {"pick", "attach"}, At(r, s)
    PROVE  /\ ~OnATab(req[r].op) /\ req[r].op \in {"open", "openAuthorizedSite"} /\ Opens(r)
           /\ run[r].at = IF s = "pick" THEN 5 ELSE 9
           /\ run[r].task \in Tasks
    <1> DEFINE op == req[r].op
    <1>1. ~OnATab(op) /\ OpenProgram(op) /\ run[r].at \in 1..Len(execute[op]) /\ execute[op][run[r].at] = s
             /\ run[r].held = HeldAt(op, run[r].at) /\ r \in Requests /\ Running(r)
        BY AtIs DEF TabSteps, TapeSteps, CoreInv
    <1> HIDE DEF op
    <1>2. HeldAt(op, run[r].at) > 0
        BY <1>1 DEF OpenProgram
    <1>3. op \in {"open", "openAuthorizedSite"} /\ run[r].at = IF s = "pick" THEN 5 ELSE 9
        BY <1>1 DEF OpenProgram
    <1>4. run[r].task \in Tasks
        BY <1>1, <1>2, HolderLives
    <1> QED
        BY <1>1, <1>3, <1>4 DEF op, Opens

\* A tab is attached to a task that is still active, or closed again.
LEMMA AttachEnd ==
    ASSUME CoreInv, AskedInv, EndInv, NEW r \in DOMAIN req, Attach(r)
    PROVE  EndInv'
    <1>0. r \in Requests /\ TaskShape /\ RunShape /\ TabShape /\ PermShape /\ Picked /\ None \notin Tasks
        BY NamesAssumption DEF AskedInv, CoreInv, Shapes, EndInv
    <1>1. req' = req /\ fin' = fin /\ At(r, "attach")
        BY DEF Attach
    <1>2. ~OnATab(req[r].op) /\ req[r].op \in {"open", "openAuthorizedSite"} /\ Opens(r) /\ run[r].at = 9
        BY <1>1, OpensAt
    <1>3. run[r].mode # "none"
        BY <1>0, <1>2 DEF Picked
    <1>4. run[r].tab \in Tabs /\ run[r].task \in Tasks /\ tab[run[r].tab].of = run[r].task /\ Tab(r) = run[r].tab
        BY <1>0, <1>2, <1>3 DEF Picked, Tab
    <1>5. PICK t \in Tabs, k \in Tasks : t = run[r].tab /\ t = Tab(r) /\ k = run[r].task /\ tab[t].of = k
        BY <1>4
    <1>6. \/ Throw(r, "TAB_NOT_FOUND") /\ tab' = tab
          \/ /\ tab' = [tab EXCEPT ![t] = Configured(r, Bound(r))]
             /\ run[r].mode = "new" \/ tab[t].reg
             /\ \/ Throw(r, "TASK_SUSPENDED")
                \/ /\ Advance(r) /\ perm' = perm
                   /\ task' = [task EXCEPT ![k].tabs = @ \cup {t}, ![k].idle = FALSE]
        BY <1>5 DEF Attach
    <1>7. CASE Throw(r, "TAB_NOT_FOUND") /\ tab' = tab
        <2>1. Throws(r) /\ TabsSame
            BY <1>7, ThrowsOutcome DEF Outcomes, TabsSame
        <2> QED
            BY <1>1, <2>1, SimpleEnd
    <1>8. CASE /\ tab' = [tab EXCEPT ![t] = Configured(r, Bound(r))]
               /\ run[r].mode = "new" \/ tab[t].reg
               /\ \/ Throw(r, "TASK_SUSPENDED")
                  \/ /\ Advance(r) /\ perm' = perm
                     /\ task' = [task EXCEPT ![k].tabs = @ \cup {t}, ![k].idle = FALSE]
        <2>1. /\ RunsKept /\ OthersRun(r) /\ (run'[r].at = 10 \/ run'[r].out # None)
              /\ \A j \in Tasks : task'[j].state = task[j].state
              /\ \A j \in Tasks : task'[j].tabs = task[j].tabs \/ (j = k /\ task'[j].tabs = task[j].tabs \cup {t})
              /\ PermShrinks
            <3>1. CASE Throw(r, "TASK_SUSPENDED")
                <4>1. ThrowWith(r, "TASK_SUSPENDED", perm) /\ "TASK_SUSPENDED" \in Outcomes
                    BY <3>1 DEF Throw, Outcomes
                <4>2. RunsKept /\ TasksSame /\ PermShrinks
                    BY <1>0, <4>1, ThrowKeeps DEF PermShape
                <4>3. OthersRun(r) /\ run'[r].out # None
                    BY <1>0, <4>1, NamesAssumption DEF ThrowWith, RunShape, OthersRun
                <4> QED
                    BY <4>2, <4>3 DEF TasksSame
            <3>2. CASE /\ Advance(r) /\ perm' = perm
                       /\ task' = [task EXCEPT ![k].tabs = @ \cup {t}, ![k].idle = FALSE]
                <4>1. RunsKept
                    BY <1>1, <3>2, AdvanceKeeps DEF Notes
                <4>2. OthersRun(r) /\ run'[r].at = 10
                    BY <1>0, <1>2, <3>2 DEF Advance, RunShape, OthersRun
                <4>3. /\ \A j \in Tasks : task'[j].state = task[j].state
                      /\ \A j \in Tasks : task'[j].tabs = task[j].tabs \/ (j = k /\ task'[j].tabs = task[j].tabs \cup {t})
                    BY <1>0, <3>2 DEF TaskShape
                <4> QED
                    BY <3>2, <4>1, <4>2, <4>3 DEF PermShrinks
            <3> QED
                BY <1>8, <3>1, <3>2
        <2>2. /\ tab'[t].reg /\ tab'[t].of = k
              /\ \A u \in Tabs : u # t => tab'[u] = tab[u]
            <3>1. Configured(r, Bound(r)).reg /\ Configured(r, Bound(r)).of = k
                BY <1>5 DEF Configured
            <3> QED
                BY <1>0, <1>8, <3>1 DEF TabShape
        <2>3. run[r].mode = "new" => PicksNew(r)
            BY <1>2 DEF PicksNew
        <2>4. Unpicked(t)
            <3>1. ASSUME NEW q \in Requests, PicksNew(q)', run'[q].tab = t
                  PROVE  FALSE
                <4>1. q # r
                    BY <2>1, <3>1 DEF PicksNew, Opens, Running
                <4>2. PicksNew(q) /\ run[q].tab = t
                    BY <1>1, <2>1, <3>1, <4>1 DEF PicksNew, Opens, Running, OthersRun
                <4>3. ~tab[t].reg
                    BY <1>0, <4>2 DEF Picked
                <4> QED
                    BY <1>0, <1>5, <1>8, <2>3, <4>1, <4>2, <4>3 DEF Picked
            <3> QED
                BY <3>1 DEF Unpicked
        <2>5. ~tab[t].reg => ~InUse(t)
            <3>1. ASSUME PicksNew(r)
                  PROVE  ~InUse(t)
                BY <1>0, <1>5, <3>1 DEF Picked, InUse
            <3> QED
                BY <1>8, <2>3, <3>1
        <2>6. TabsKept
            BY <1>0, <1>5, <2>2, <2>4, <2>5 DEF TabsKept
        <2>7. TasksKept
            BY <2>1, <2>2, <2>4 DEF TasksKept
        <2>8. UseKept /\ PermKept /\ FinKept /\ \A q \in DOMAIN req : HeldKept(q)
            BY <1>1, <2>1, UseShrinks, PermKeeps DEF PermShrinks, FinKept, Finalizing
        <2> QED
            BY <1>1, <2>1, <2>6, <2>7, <2>8, EndKept DEF RunsKept, RunKept
    <1> QED
        BY <1>6, <1>7, <1>8

\* A tab is picked for a task whose lease is held, or for none.
LEMMA PickEnd ==
    ASSUME CoreInv, AskedInv, EndInv, NEW r \in DOMAIN req, Pick(r)
    PROVE  EndInv'
    <1>0. /\ r \in Requests /\ RunShape /\ TabShape /\ PermShape
          /\ TabsOwned /\ UsedAttached /\ Picked /\ None \notin Tasks
        BY NamesAssumption DEF AskedInv, CoreInv, Shapes, EndInv
    <1>1. req' = req /\ fin' = fin /\ At(r, "pick")
        BY DEF Pick
    <1>2. ~OnATab(req[r].op) /\ Opens(r) /\ run[r].at = 5 /\ run[r].task \in Tasks
        BY <1>1, OpensAt
    <1>3. \/ Throws(r) /\ tab' = tab
          \/ \E t \in Tabs, m \in {"keep", "reuse"} :
                /\ Takes(r, t, m) /\ task' = task /\ perm' = perm /\ tab' = tab
                /\ tab[t].of = run[r].task
          \/ \E t \in Tabs :
                /\ Takes(r, t, "new") /\ task' = task /\ perm' = perm
                /\ tab' = [tab EXCEPT ![t].of = run[r].task]
                /\ tab[t].of = None
        <2>1. CASE Reusable(r) # {}
            <3> DEFINE m == IF Exact(r) # {} THEN "keep" ELSE "reuse"
            <3>1. PICK t \in Reusable(r) : Select(r, t, Takes(r, t, m))
                BY <2>1 DEF Pick
            <3>2. t \in Tabs /\ tab[t].of = run[r].task /\ m \in {"keep", "reuse"}
                BY DEF Reusable, Exact, Recyclable, Registered
            <3> HIDE DEF m
            <3>3. \/ Throw(r, "SITE_ACCESS_AUTHORIZATION_REQUIRED") /\ tab' = tab
                  \/ Throw(r, "BROWSER_DISCONNECTED") /\ tab' = tab
                  \/ Throw(r, "STALE_TAB_ID") /\ tab' = tab
                  \/ Takes(r, t, m) /\ task' = task /\ perm' = perm /\ tab' = tab
                BY <3>1 DEF Select, Turned
            <3> QED
                BY <3>2, <3>3, ThrowsOutcome DEF Outcomes
        <2>2. CASE Reusable(r) = {}
            <3>1. \/ Throw(r, "LIMIT_EXCEEDED") /\ tab' = tab
                  \/ \E t \in NewTabs : Takes(r, t, "new") /\ task' = task /\ perm' = perm
                                           /\ tab' = [tab EXCEPT ![t].of = run[r].task]
                BY <2>2 DEF Pick
            <3> QED
                BY <3>1, ThrowsOutcome DEF Outcomes, NewTabs
        <2> QED
            BY <2>1, <2>2
    <1>4. CASE Throws(r) /\ tab' = tab
        <2>1. /\ FinSame /\ TabsSame
            BY <1>1, <1>4 DEF FinSame, Finalizing, TabsSame
        <2>2. PICK code \in Outcomes : ThrowWith(r, code, perm)
            BY <1>4 DEF Throws
        <2>3. RunsKept /\ TasksSame /\ PermShrinks
            BY <1>0, <2>2, ThrowKeeps DEF PermShape
        <2> QED
            BY <1>1, <2>1, <2>3, EndRests
    <1>5. ASSUME NEW t \in Tabs, NEW m, Takes(r, t, m), task' = task, perm' = perm, m # "none",
                 \A u \in Tabs : /\ tab'[u].reg = tab[u].reg
                                 /\ tab[u].of # None => tab'[u].of = tab[u].of,
                 tab'[t].of = run[r].task, m = "new" => tab[t].of = None
          PROVE  EndInv'
        <2>1. /\ OthersRun(r) /\ run'[r].at = 6 /\ run'[r].tab = t /\ run'[r].mode = m
              /\ run'[r].task = run[r].task /\ run'[r].held = run[r].held /\ run'[r].out = run[r].out
            BY <1>0, <1>2, <1>5 DEF Takes, RunShape, OthersRun
        <2>2. TabsKept /\ TasksKept
            BY <1>5 DEF TabsKept, TasksKept
        <2>3. FinKept /\ PermKept
            BY <1>1, <1>5 DEF FinKept, Finalizing, PermKept
        <2>4. \A q \in Requests : run'[q].held = run[q].held /\ run'[q].task = run[q].task
            BY <2>1 DEF OthersRun
        <2>5. \A u : InUse(u)' => InUse(u)
            BY <1>1, <1>5, <2>4 DEF InUse, AskedInv
        <2>6. \A q \in DOMAIN req : HeldKept(q)
            BY <2>4 DEF HeldKept, AskedInv
        <2>7. TabsOwned' /\ UsedAttached' /\ OverClean'
            BY <1>1, <2>2, <2>3, <2>5, <2>6, OwnKept DEF UseKept
        <2>8. ASSUME NEW q \in Requests, q # r
              PROVE  /\ run'[q] = run[q] /\ (Opens(q)' <=> Opens(q)) /\ (PicksNew(q)' <=> PicksNew(q))
            BY <1>1, <2>1, <2>8 DEF OthersRun, Opens, PicksNew, Running
        <2>9. ASSUME NEW q \in Requests, PicksNew(q)'
              PROVE  /\ ~tab'[run'[q].tab].reg /\ ~InUse(run[q].tab)'
                     /\ \A k \in Tasks : run'[q].tab \notin task'[k].tabs
            <3>1. PICK u \in Tabs : run'[q].tab = u /\ ~tab[u].reg /\ ~InUse(u) /\ \A k \in Tasks : u \notin task[k].tabs
                <4>1. CASE q = r
                    <5>1. m = "new" /\ tab[t].of = None
                        BY <1>5, <2>1, <2>9, <4>1 DEF PicksNew
                    <5>2. ~tab[t].reg /\ ~InUse(t) /\ \A k \in Tasks : t \notin task[k].tabs
                        BY <1>0, <5>1 DEF TabsOwned, UsedAttached
                    <5> QED
                        BY <2>1, <4>1, <5>2
                <4>2. CASE q # r
                    <5>1. PicksNew(q) /\ run'[q].tab = run[q].tab
                        BY <2>8, <2>9, <4>2
                    <5>2. run[q].tab \in Tabs /\ ~tab[run[q].tab].reg /\ \A k \in Tasks : run[q].tab \notin task[k].tabs
                        BY <1>0, <5>1 DEF Picked, PicksNew
                    <5>3. ASSUME NEW u, u = run[q].tab
                          PROVE  ~InUse(u)
                        BY <1>0, <5>1, <5>3 DEF Picked, InUse
                    <5> QED
                        BY <5>1, <5>2, <5>3
                <4> QED
                    BY <4>1, <4>2
            <3>2. ~InUse(u)'
                BY <2>5, <3>1
            <3>3. ~InUse(run[q].tab)'
                BY <3>1, <3>2 DEF InUse
            <3> QED
                BY <1>5, <3>1, <3>3
        <2>10. ASSUME NEW q \in Requests, Opens(q)', run'[q].mode # "none"
               PROVE  run'[q].tab \in Tabs /\ run'[q].task \in Tasks /\ tab'[run'[q].tab].of = run'[q].task
            <3>1. CASE q = r
                BY <1>2, <1>5, <2>1, <3>1
            <3>2. CASE q # r
                <4>1. run[q].tab \in Tabs /\ run[q].task \in Tasks /\ tab[run[q].tab].of = run[q].task /\ run'[q] = run[q]
                    BY <1>0, <2>8, <2>10, <3>2 DEF Picked
                <4> QED
                    BY <1>0, <1>5, <4>1
            <3> QED
                BY <3>1, <3>2
        <2>11. ASSUME NEW q \in Requests
               PROVE  /\ Opens(q)' /\ req'[q].op \in {"open", "openAuthorizedSite"} /\ run'[q].at > 5 => run'[q].mode # "none"
                      /\ run'[q].mode # "none" => run'[q].at > 5
            BY <1>0, <1>1, <1>5, <2>1, <2>8 DEF Picked
        <2>12. ASSUME NEW q \in Requests, NEW s \in Requests, PicksNew(q)', PicksNew(s)', run'[q].tab = run'[s].tab
               PROVE  q = s
            <3>1. ASSUME NEW p \in Requests, p # r, PicksNew(r)', PicksNew(p)'
                  PROVE  run'[p].tab # run'[r].tab
                <4>1. tab[t].of = None /\ run'[r].tab = t
                    BY <1>5, <2>1, <3>1 DEF PicksNew
                <4>2. run'[p].tab = run[p].tab /\ tab[run[p].tab].of \in Tasks
                    BY <1>0, <2>8, <3>1 DEF Picked, PicksNew
                <4> QED
                    BY <1>0, <4>1, <4>2
            <3>2. CASE q # r /\ s # r
                BY <1>0, <2>8, <2>12, <3>2 DEF Picked
            <3> QED
                BY <2>12, <3>1, <3>2
        <2>13. Picked'
            BY <2>9, <2>10, <2>11, <2>12 DEF Picked
        <2> QED
            BY <2>7, <2>13 DEF EndInv
    <1>6. CASE \E t \in Tabs, m \in {"keep", "reuse"} :
                /\ Takes(r, t, m) /\ task' = task /\ perm' = perm /\ tab' = tab
                /\ tab[t].of = run[r].task
        BY <1>5, <1>6
    <1>7. CASE \E t \in Tabs :
                /\ Takes(r, t, "new") /\ task' = task /\ perm' = perm
                /\ tab' = [tab EXCEPT ![t].of = run[r].task]
                /\ tab[t].of = None
        <2>1. PICK t \in Tabs :
                /\ Takes(r, t, "new") /\ task' = task /\ perm' = perm
                /\ tab' = [tab EXCEPT ![t].of = run[r].task]
                /\ tab[t].of = None
            BY <1>7
        <2>2. /\ \A u \in Tabs : /\ tab'[u].reg = tab[u].reg
                                 /\ tab[u].of # None => tab'[u].of = tab[u].of
              /\ tab'[t].of = run[r].task
            BY <1>0, <2>1 DEF TabShape
        <2> QED
            BY <1>5, <2>1, <2>2
    <1> QED
        BY <1>3, <1>4, <1>6, <1>7

\* Every step of an operation keeps EndInv.
LEMMA StepEnd ==
    ASSUME CoreInv, AskedInv, EndInv, NEW r \in DOMAIN req, Step(r)
    PROVE  EndInv'
    BY DriverStepsEnd, ConnectEnd, ForgetEnd, RecordEnd, ConfirmEnd, LeaveEnd, EnterEnd, AttachEnd, PickEnd
    DEF Step, Tapes

(***************************************************************************)
(* The start of an operation, and the end of a task                        *)
(***************************************************************************)
\* The task of a tab is active when an operation starts on the tab.
LEMMA TouchedTabs ==
    ASSUME TaskShape, NEW k \in Tasks,
           \/ task' = [Touched(k) EXCEPT ![k].idle = FALSE]
           \/ task' = [Touched(k) EXCEPT ![k].leases = @ + 1]
    PROVE  /\ \A j \in Tasks : task'[j].tabs = task[j].tabs
           /\ \A j \in Tasks : j # k => task'[j].state = task[j].state
           /\ task'[k].state = "active"
    <1> DEFINE f == Touched(k)
    <1>1. /\ DOMAIN f = Tasks
          /\ \A j \in Tasks : DOMAIN f[j] = {"state", "owner", "tabs", "leases", "idle"} /\ f[j].tabs = task[j].tabs
          /\ \A j \in Tasks : j # k => f[j].state = task[j].state
          /\ f[k].state = "active"
        BY DEF Touched, TaskShape
    <1>2. task' = [f EXCEPT ![k].idle = FALSE] \/ task' = [f EXCEPT ![k].leases = @ + 1]
        OBVIOUS
    <1> HIDE DEF f
    <1> QED
        BY <1>1, <1>2

\* Starting an operation keeps EndInv.
LEMMA StartEnd ==
    ASSUME CoreInv, QueueInv, EndInv, NEW r \in Requests, Start(r)
    PROVE  EndInv'
    <1>0. AskedInv /\ RunShape /\ TaskShape /\ Picked /\ TabsOwned /\ run[r].at \in Nat
        BY DEF QueueInv, CoreInv, Shapes, EndInv, RunsInside
    <1>1. /\ req' = req /\ fin' = fin /\ tab' = tab /\ perm' = perm
          /\ place[r] = "in" /\ run[r].at = 0
        BY DEF Start
    <1>2. r \in DOMAIN req /\ req[r].op \in Operations /\ run[r].mode = "none"
        BY <1>0, <1>1 DEF QueueInv, InLine, AskedInv, Asked, Picked
    <1>3. FinSame /\ TabsSame /\ PermShrinks /\ TabsKept /\ FinKept /\ PermKept
        BY <1>1 DEF FinSame, Finalizing, TabsSame, PermShrinks, TabsKept, FinKept, PermKept
    <1>4. CASE task' = task /\ \E c \in {"OPERATION_CANCELLED", "TASK_NOT_FOUND"} : Stop(r, c)
        <2>1. RunsKept
            BY <1>4, StopKeeps DEF Outcomes
        <2> QED
            BY <1>0, <1>1, <1>3, <1>4, <2>1, EndRests DEF TasksSame
    <1>5. ASSUME NEW q \in Requests, q # r, OthersRun(r)
          PROVE  RunKept(q)
        BY <1>5 DEF CoreInv, RunsInside, OthersRun, RunKept, PickKept, Running
    <1>6. CASE ~OnATab(req[r].op) /\ run' = [run EXCEPT ![r].at = 1] /\ task' = task
        <2>1. OthersRun(r) /\ run'[r].at = 1 /\ run'[r].mode = "none" /\ run'[r].tab = run[r].tab
            BY <1>0, <1>2, <1>6 DEF RunShape, OthersRun
        <2>2. RunKept(r)
            BY <1>1, <1>2, <1>6, <2>1 DEF RunKept, PickKept
        <2>3. RunsKept
            BY <1>5, <2>1, <2>2 DEF RunsKept
        <2> QED
            BY <1>0, <1>1, <1>3, <1>6, <2>3, EndRests DEF TasksSame
    <1>7. ASSUME NEW k \in TabTasks(r), OnATab(req[r].op), StartOnTab(r, k)
          PROVE  EndInv'
        <2>1. k \in Tasks /\ task[k].state \in {"active", "suspended"} /\ req[r].tab \in task[k].tabs
            BY <1>7 DEF TabTasks, TaskOfTab, Usable, Accessible, isAccessibleState
        <2>2. /\ \A j \in Tasks : task'[j].tabs = task[j].tabs
              /\ \A j \in Tasks : j # k => task'[j].state = task[j].state
              /\ task'[k].state = "active"
            BY <1>0, <1>7, <2>1, TouchedTabs DEF StartOnTab
        <2>3. TasksKept
            BY <2>1, <2>2 DEF TasksKept, Ended
        <2>4. Begins(req[r].tab)
            BY <1>1, <2>1, <2>2 DEF Begins
        <2>5. CASE \E c \in Outcomes : Stop(r, c)
            <3>1. RunsKept
                BY <2>5, StopKeeps
            <3>2. UseKept /\ \A q \in DOMAIN req : HeldKept(q)
                BY <1>0, <1>1, <3>1, UseShrinks
            <3> QED
                BY <1>0, <1>1, <1>3, <2>3, <3>1, <3>2, EndKept DEF RunsKept, RunKept
        <2>6. CASE run' = [run EXCEPT ![r].at = 1 + Cardinality(Leading(req[r].op)), ![r].task = k, ![r].held = 1]
            <3>0. 1 + Cardinality(Leading(req[r].op)) \in Nat \ {0}
                BY <1>2, LeadingIsCounted
            <3>1. /\ OthersRun(r) /\ run'[r].at \in Nat /\ run'[r].task = k
                  /\ run'[r].mode = "none" /\ run'[r].tab = run[r].tab
                BY <1>0, <1>2, <2>6, <3>0 DEF RunShape, OthersRun
            <3>2. req[r].op \notin {"open", "openAuthorizedSite"}
                BY <1>7 DEF OnATab
            <3>3. ASSUME NEW q \in Requests, q # r
                  PROVE  PickKept(q) /\ (q \in DOMAIN req => HeldKept(q)) /\ run'[q] = run[q]
                BY <1>5, <3>1, <3>3 DEF RunKept, HeldKept, OthersRun
            <3>4. HeldKept(r)
                BY <1>0, <1>1, <2>1, <3>1 DEF HeldKept, TabsOwned
            <3>5. UseKept
                BY <1>0, <1>1, <2>4, <3>3 DEF UseKept, InUse, AskedInv
            <3>6. PickKept(r)
                BY <1>0, <1>1, <1>2, <1>7, <3>1, <3>2 DEF PickKept
            <3>7. \A q \in Requests : PickKept(q)
                BY <3>3, <3>6
            <3>8. \A q \in DOMAIN req : HeldKept(q)
                BY <1>0, <3>3, <3>4 DEF AskedInv
            <3> QED
                BY <1>0, <1>1, <1>3, <2>3, <3>5, <3>7, <3>8, EndKept
        <2>7. (IF SiteRefused(r, k) THEN "SITE_ACCESS_AUTHORIZATION_REQUIRED"
               ELSE Refusal(Program(r)[Min(FailedChecks(r, k))])) \in Outcomes
            BY RefusalIsAnOutcome DEF Outcomes
        <2> QED
            BY <1>7, <2>5, <2>6, <2>7 DEF StartOnTab
    <1>8. CASE OnATab(req[r].op) /\ TabTasks(r) # {} /\ StartOnTab(r, CHOOSE k \in TabTasks(r) : TRUE)
        BY <1>7, <1>8
    <1> QED
        BY <1>4, <1>6, <1>8 DEF Start

\* A finalization that fails makes the task active again: it is not over.
LEMMA FailsEnd ==
    ASSUME CoreInv, AskedInv, EndInv, NEW a \in Finalizers, NEW code \in Outcomes, NEW d,
           FinalizationFails(a, code, d), Finalizing(a)
    PROVE  EndInv'
    <1>0. TaskShape /\ FinShape /\ fin[a].task \in Tasks
        BY DEF CoreInv, Shapes, OneFinalizer
    <1>1. req' = req /\ perm' = perm /\ tab' = tab
        BY DEF FinalizationFails
    <1>2. RunsKept
        <2>1. CASE run' = run
            BY <2>1, RunStays
        <2>2. CASE a \in Requests /\ Stop(a, code)
            BY <2>2, StopKeeps
        <2> QED
            BY <2>1, <2>2 DEF FinalizationFails, Finalizers, Stop
    <1>3. FinSame
        BY <1>0, NoFinIs DEF FinalizationFails, FinShape, FinSame, Finalizing
    <1>4. ASSUME NEW k \in Tasks
          PROVE  /\ task'[k].tabs = task[k].tabs
                 /\ task'[k].state = task[k].state \/ (task[k].state = "finishing" /\ task'[k].state = "active")
        BY <1>0 DEF FinalizationFails, TaskShape
    <1>5. TasksKept
        BY <1>4 DEF TasksKept, Ended
    <1>6. TabsKept /\ FinKept /\ PermKept
        BY <1>1, <1>3 DEF TabsKept, FinKept, FinSame, PermKept
    <1>7. UseKept /\ \A q \in DOMAIN req : HeldKept(q)
        BY <1>1, <1>2, UseShrinks
    <1> QED
        BY <1>1, <1>2, <1>5, <1>6, <1>7, EndKept DEF RunsKept, RunKept

\* A finalization begins: its task is taken away with the tabs it has.
LEMMA BeginsEnd ==
    ASSUME CoreInv, AskedInv, EndInv, NEW a \in Finalizers, NEW k \in Tasks, task[k].state \in {"active", "suspended"},
           task' = Begun(k), \A b \in Finalizers : b # a => fin'[b] = fin[b],
           Finalizing(a)' => fin'[a].task = k /\ fin'[a].all = task[k].tabs,
           req' = req, tab' = tab, perm' = perm, run' = run
    PROVE  EndInv'
    <1>1. ASSUME NEW j \in Tasks
          PROVE  /\ task'[j].tabs = task[j].tabs
                 /\ j # k => task'[j].state = task[j].state
                 /\ j = k => task'[j].state = "finishing"
        BY DEF Begun, CoreInv, Shapes, TaskShape
    <1>2. TasksKept
        BY <1>1 DEF TasksKept, Ended
    <1>3. FinKept
        BY <1>1 DEF FinKept, Finalizing
    <1>4. TabsKept /\ PermKept /\ RunsKept
        BY RunStays DEF TabsKept, PermKept
    <1>5. UseKept /\ \A q \in DOMAIN req : HeldKept(q)
        BY <1>4, UseShrinks
    <1> QED
        BY <1>2, <1>3, <1>4, <1>5, EndKept DEF RunsKept, RunKept

\* finishTask begins.
LEMMA FinishBeginsEnd ==
    ASSUME CoreInv, AskedInv, EndInv, NEW r \in DOMAIN req, FinishBegins(r)
    PROVE  EndInv'
    <1> DEFINE k == resolveScoped(r)
    <1>0. r \in Requests /\ r \in Finalizers /\ TaskShape /\ FinShape /\ PermShape
        BY DEF AskedInv, CoreInv, Shapes, Finalizers
    <1>1. req' = req /\ tab' = tab /\ At(r, "finish")
        BY DEF FinishBegins
    <1>2. CASE k = None
        <2>1. Throw(r, "TASK_NOT_FOUND") /\ fin' = fin
            BY <1>2 DEF FinishBegins
        <2>2. Throws(r) /\ TabsSame
            BY <1>1, <2>1, ThrowsOutcome DEF Outcomes, TabsSame
        <2> QED
            BY <1>1, <2>1, <2>2, SimpleEnd
    <1>3. CASE k # None
        <2>1. k \in Tasks /\ task[k].state \in {"active", "suspended", "finished"}
            BY <1>3, ResolveScopedIs
        <2>2. CASE Stop(r, "ok") /\ UNCHANGED <<task, perm, fin>>
            <3>1. RunsKept
                BY <1>0, <2>2, StopKeeps DEF Outcomes
            <3> QED
                BY <1>1, <2>2, <3>1, EndRests DEF TabsSame, TasksSame, FinSame, Finalizing, PermShrinks
        <2>3. CASE task[k].state # "finished" /\ task' = [task EXCEPT ![k] = Resolved(k, r)]
                      /\ Stop(r, "TASK_SUSPENDED") /\ UNCHANGED <<perm, fin>>
            <3>1. RunsKept
                BY <1>0, <2>3, StopKeeps DEF Outcomes
            <3>2. Resolved(k, r).state = "active" /\ Resolved(k, r).tabs = task[k].tabs
                BY <1>0, <2>1 DEF Resolved, TaskShape
            <3> HIDE DEF k
            <3>3. ASSUME NEW j \in Tasks
                  PROVE  /\ task'[j].tabs = task[j].tabs
                         /\ j # k => task'[j].state = task[j].state
                         /\ j = k => task'[j].state = "active"
                BY <1>0, <2>3, <3>2 DEF TaskShape
            <3>4. TasksKept
                BY <2>1, <2>3, <3>3 DEF TasksKept, Ended
            <3>5. TabsKept /\ PermKept /\ FinKept
                BY <1>1, <2>3 DEF TabsKept, PermKept, FinKept, Finalizing
            <3>6. UseKept /\ \A q \in DOMAIN req : HeldKept(q)
                BY <1>1, <2>3, <3>1, UseShrinks
            <3> QED
                BY <1>1, <3>1, <3>4, <3>5, <3>6, EndKept DEF RunsKept, RunKept
        <2>4. CASE /\ task[k].state # "finished" /\ task' = Begun(k) /\ UNCHANGED <<run, perm>>
                   /\ fin' = [fin EXCEPT ![r] = [NoFin EXCEPT !.pc = "drain", !.task = k,
                                                       !.all = task[k].tabs, !.todo = task[k].tabs]]
            <3> DEFINE new == [NoFin EXCEPT !.pc = "drain", !.task = k, !.all = task[k].tabs, !.todo = task[k].tabs]
            <3>1. new.task = k /\ new.all = task[k].tabs
                BY DEF NoFin
            <3>2. fin' = [fin EXCEPT ![r] = new]
                BY <2>4
            <3> HIDE DEF new, k
            <3>3. fin'[r] = new /\ \A b \in Finalizers : b # r => fin'[b] = fin[b]
                BY <1>0, <3>2 DEF FinShape
            <3> QED
                BY <1>0, <1>1, <2>1, <2>4, <3>1, <3>3, BeginsEnd
        <2> QED
            BY <1>3, <2>2, <2>3, <2>4 DEF FinishBegins, Stop
    <1> QED
        BY <1>2, <1>3

\* A finalizer closes the tabs of its task one after the other.
LEMMA ReachTabEnd ==
    ASSUME CoreInv, AskedInv, EndInv, NEW a \in Finalizers, ReachTab(a) \/ ClosePage(a) \/ CloseFails(a)
    PROVE  EndInv'
    <1>0. FinShape /\ Finalizing(a) /\ fin[a].task \in Tasks
        BY DEF CoreInv, Shapes, Finalizing, ReachTab, ClosePage, CloseFails, OneFinalizer
    <1>1. ASSUME NEW t, Discard(a, t), req' = req, perm' = perm, run' = run
          PROVE  EndInv'
        <2>1. FinSame
            BY <1>0, <1>1 DEF Discard, FinShape, FinSame, Finalizing
        <2>2. RunsKept
            BY <1>1, RunStays
        <2> QED
            BY <1>1, <2>1, <2>2, ForgettingEnd DEF Discard
    <1>2. CASE ReachTab(a)
        <2>1. PICK t \in fin[a].todo : Reaching(a, t)
            BY <1>2 DEF ReachTab
        <2>2. CASE FinalizationFails(a, "BROWSER_CONTEXT_RECOVERY_FAILED", Down) \/ FinalizationFails(a, "STALE_TAB_ID", drv)
            BY <1>0, <2>2, FailsEnd DEF Outcomes
        <2>3. CASE Reconnect(fin[a].task) /\ UNCHANGED <<req, run, fin, acts>>
            <3>1. FinSame /\ RunsKept
                BY <2>3, RunStays DEF FinSame, Finalizing
            <3> QED
                BY <1>0, <2>3, <3>1, ReconnectEnd
        <2>4. CASE Discard(a, t) /\ UNCHANGED <<req, drv, perm, run, acts>>
            BY <1>1, <2>4
        <2>5. CASE /\ UNCHANGED <<req, task, tab, perm, run>>
                   /\ \/ fin' = [fin EXCEPT ![a].todo = @ \ {t}]
                      \/ fin' = [fin EXCEPT ![a].pc = "closing", ![a].tab = t, ![a].idx = IndexOf(tab[t].page)]
            <3>1. RunsKept
                BY <2>5, RunStays
            <3>2. FinSame
                BY <1>0, <2>5 DEF FinShape, FinSame, Finalizing
            <3> QED
                BY <2>5, <3>1, <3>2, EndRests DEF TabsSame, TasksSame, PermShrinks
        <2> QED
            BY <2>1, <2>2, <2>3, <2>4, <2>5 DEF Reaching
    <1>3. CASE ClosePage(a)
        BY <1>1, <1>3 DEF ClosePage
    <1>4. CASE CloseFails(a)
        BY <1>0, <1>4, FailsEnd DEF CloseFails, Outcomes
    <1> QED
        BY <1>2, <1>3, <1>4

\* A task ends: what was in use of it, and is still registered, the finalization knew.
LEMMA TaskEndsEnd ==
    ASSUME CoreInv, AskedInv, EndInv, NEW a \in Finalizers, TaskEnds(a)
    PROVE  EndInv'
    <1>0. /\ TaskShape /\ FinShape /\ PermShape /\ TabsOwned /\ UsedAttached /\ Picked /\ OverClean
          /\ DOMAIN req \subseteq Requests
        BY DEF CoreInv, Shapes, EndInv, AskedInv
    <1>1. /\ req' = req /\ tab' = tab /\ run' = run /\ fin[a].pc = "close" /\ Finalizing(a)
          /\ perm' = Revoked(fin[a].task, fin[a].all)
          /\ fin' = [fin EXCEPT ![a].pc = IF a = Reaper THEN "look" ELSE "save", ![a].changed = TRUE]
          /\ task' = Completed(fin[a].task, IF a = Reaper THEN "expired" ELSE "finished")
        BY DEF TaskEnds, Finalizing
    <1>2. PICK k \in Tasks : k = fin[a].task /\ task[k].leases = 0
        BY <1>1 DEF CoreInv, OneFinalizer
    <1>3. PICK end \in {"finished", "expired"} : task' = Completed(k, end)
        BY <1>1, <1>2
    <1>4. /\ \A j \in Tasks : j # k => task'[j] = task[j]
          /\ task'[k].state = end /\ task'[k].tabs = {}
        BY <1>0, <1>3 DEF Completed, TaskShape
    <1>5. /\ perm'.conf = {c \in perm.conf : c.tab \notin fin[a].all}
          /\ perm'.grants = perm.grants \ {k} /\ perm'.recording = perm.recording \ (Recordings \X {k})
          /\ perm'.asks = {q \in perm.asks : q.task # k}
        BY <1>0, <1>1, <1>2 DEF Revoked, PermShape
    <1>6. \A b \in Finalizers : Finalizing(b)' => b # a /\ fin'[b] = fin[b] /\ Finalizing(b)
        BY <1>0, <1>1 DEF FinShape, Finalizing
    <1>7. ASSUME NEW t, InUse(t)'
          PROVE  InUse(t)
        BY <1>1, <1>5, <1>7 DEF InUse
    <1>8. ASSUME NEW t \in Tabs, InUse(t)', tab[t].reg
          PROVE  tab[t].of # k
        <2>1. SUFFICES ASSUME tab[t].of = k
                       PROVE  FALSE
            OBVIOUS
        <2>2. t \in fin[a].all
            BY <1>0, <1>1, <1>2, <1>7, <1>8, <2>1 DEF UsedAttached
        <2>3. PICK r \in DOMAIN req : OnATab(req[r].op) /\ run[r].held > 0 /\ req[r].tab = t
            BY <1>1, <1>5, <1>8, <2>2 DEF InUse
        <2>4. run[r].task = k /\ r \in Requests
            BY <1>0, <2>1, <2>3 DEF TabsOwned
        <2> QED
            BY <1>2, <2>3, <2>4, HolderLives
    <1>9. TabsOwned'
        BY <1>0, <1>1, <1>4, <1>5 DEF TabsOwned
    <1>10. UsedAttached'
        <2>1. ASSUME NEW t \in Tabs, InUse(t)'
              PROVE  /\ tab'[t].of # None
                     /\ tab'[t].reg => /\ tab'[t].of \in Tasks /\ task'[tab'[t].of].state \notin Ended
                                       /\ t \in task'[tab'[t].of].tabs
                                       /\ \A b \in Finalizers : Finalizing(b)' /\ fin'[b].task = tab'[t].of => t \in fin'[b].all
            <3>1. InUse(t)
                BY <1>7, <2>1
            <3>2. tab'[t].of # None
                BY <1>0, <1>1, <3>1 DEF UsedAttached
            <3>3. ASSUME tab[t].reg
                  PROVE  /\ tab[t].of \in Tasks /\ task[tab[t].of].state \notin Ended /\ t \in task[tab[t].of].tabs
                         /\ \A b \in Finalizers : Finalizing(b) /\ fin[b].task = tab[t].of => t \in fin[b].all
                         /\ task'[tab[t].of] = task[tab[t].of]
                BY <1>0, <1>4, <1>8, <2>1, <3>1, <3>3 DEF UsedAttached
            <3> QED
                BY <1>1, <1>6, <3>2, <3>3
        <2> QED
            BY <2>1 DEF UsedAttached
    <1>11. Picked'
        <2>1. ASSUME NEW r \in Requests
              PROVE  (Opens(r)' <=> Opens(r)) /\ (PicksNew(r)' <=> PicksNew(r))
            BY <1>1 DEF Opens, PicksNew, Running
        <2>2. ASSUME NEW r \in Requests, PicksNew(r)
              PROVE  /\ ~InUse(run[r].tab)'
                     /\ \A j \in Tasks : run[r].tab \notin task'[j].tabs
            <3>1. PICK t : t = run[r].tab
                OBVIOUS
            <3>2. ~InUse(t)
                BY <1>0, <2>2, <3>1 DEF Picked, InUse
            <3>3. ~InUse(t)'
                BY <1>7, <3>2
            <3>4. ~InUse(run[r].tab)'
                BY <1>1, <3>1, <3>3 DEF InUse
            <3> QED
                BY <1>0, <1>4, <2>2, <3>4 DEF Picked
        <2> QED
            BY <1>0, <1>1, <2>1, <2>2 DEF Picked
    <1>12. OverClean'
        BY <1>0, <1>4, <1>5 DEF OverClean, hasLongLivedTaskActivity
    <1> QED
        BY <1>9, <1>10, <1>11, <1>12 DEF EndInv

\* The reaper looks for idle tasks.
LEMMA ReaperEnd ==
    ASSUME CoreInv, AskedInv, EndInv, ReaperTicks \/ ReaperLooks
    PROVE  EndInv'
    <1>0. FinShape /\ TaskShape /\ Reaper \in Finalizers
        BY DEF CoreInv, Shapes, Finalizers
    <1>1. req' = req /\ tab' = tab /\ perm' = perm /\ run' = run
        BY DEF ReaperTicks, ReaperLooks
    <1>2. RunsKept
        BY <1>1, RunStays
    <1>3. ASSUME FinSame, task' = task
          PROVE  EndInv'
        BY <1>1, <1>2, <1>3, EndRests DEF TabsSame, TasksSame, PermShrinks
    <1>4. ASSUME NEW new, fin' = [fin EXCEPT ![Reaper] = new]
          PROVE  fin'[Reaper] = new /\ \A b \in Finalizers : b # Reaper => fin'[b] = fin[b]
        BY <1>0, <1>4 DEF FinShape
    <1>5. CASE ReaperTicks
        <2> DEFINE cs == {[task |-> j, tabs |-> task[j].tabs] : j \in {j \in Tasks : Expirable(j)}}
                   new == [NoFin EXCEPT !.pc = "wait", !.cands = cs]
        <2>1. fin' = [fin EXCEPT ![Reaper] = new] /\ task' = task
            BY <1>5 DEF ReaperTicks
        <2> HIDE DEF cs
        <2>4. new.pc = "wait"
            BY DEF NoFin
        <2> HIDE DEF new
        <2>2. fin'[Reaper].pc = "wait" /\ \A b \in Finalizers : b # Reaper => fin'[b] = fin[b]
            BY <1>4, <2>1, <2>4
        <2>3. FinSame
            BY <2>2 DEF FinSame, Finalizing
        <2> QED
            BY <1>3, <2>1, <2>3
    <1>6. CASE ReaperLooks
        <2>1. CASE fin' = [fin EXCEPT ![Reaper] = NoFin] /\ task' = task
            <3>1. FinSame
                BY <1>4, <2>1, NoFinIs DEF FinSame, Finalizing
            <3> QED
                BY <1>3, <2>1, <3>1
        <2>2. CASE \E c \in fin[Reaper].cands :
                      /\ fin' = [fin EXCEPT ![Reaper] = Looks(c)]
                      /\ task' = IF MayExpire(c) THEN Begun(c.task) ELSE task
            <3>1. PICK c \in fin[Reaper].cands :
                      /\ fin' = [fin EXCEPT ![Reaper] = Looks(c)]
                      /\ task' = IF MayExpire(c) THEN Begun(c.task) ELSE task
                BY <2>2
            <3>2. fin'[Reaper] = Looks(c) /\ \A b \in Finalizers : b # Reaper => fin'[b] = fin[b]
                BY <1>4, <3>1
            <3>3. c.task \in Tasks
                BY <1>0, <3>1 DEF CoreInv, OneFinalizer
            <3>4. /\ Looks(c).pc = IF MayExpire(c) THEN "close" ELSE "look"
                  /\ Looks(c).task = c.task /\ Looks(c).all = task[c.task].tabs
                BY <1>0 DEF Looks, FinShape
            <3>5. CASE MayExpire(c)
                <4>1. task[c.task].state \in {"active", "suspended"}
                    BY <3>5 DEF MayExpire, Expirable, Accessible, isAccessibleState
                <4> QED
                    BY <1>0, <1>1, <3>1, <3>2, <3>3, <3>4, <3>5, <4>1, BeginsEnd
            <3>6. CASE ~MayExpire(c)
                <4>1. FinSame
                    BY <3>2, <3>4, <3>6 DEF FinSame, Finalizing
                <4> QED
                    BY <1>3, <3>1, <3>6, <4>1
            <3> QED
                BY <3>5, <3>6
        <2> QED
            BY <1>6, <2>1, <2>2 DEF ReaperLooks
    <1> QED
        BY <1>5, <1>6

\* An operation that completes leaves the queue.
LEMMA CompleteEnd ==
    ASSUME CoreInv, AskedInv, EndInv, NEW r \in Requests, Complete(r)
    PROVE  EndInv'
    <1> DEFINE out == IF run[r].out = None THEN "ok" ELSE run[r].out
    <1>0. /\ RunShape /\ TaskShape /\ run[r].held \in 0..2 /\ (run[r].held # 0 => run[r].task \in Tasks)
        BY DEF CoreInv, Shapes, RunsInside
    <1>1. /\ req' = req /\ tab' = tab /\ perm' = perm /\ fin' = fin
          /\ task' = Unleased(run[r].task, run[r].held)
          /\ run' = [run EXCEPT ![r].out = out, ![r].held = 0]
        BY DEF Complete
    <1>2. out # None
        BY NamesAssumption DEF Outcomes
    <1> HIDE DEF out
    <1>3. /\ OthersRun(r) /\ run'[r].mode = run[r].mode /\ run'[r].tab = run[r].tab
          /\ run'[r].task = run[r].task /\ run'[r].held = 0 /\ run'[r].at = run[r].at /\ run'[r].out = out
        BY <1>0, <1>1 DEF RunShape, OthersRun
    <1>4. RunsKept
        BY <1>0, <1>2, <1>3, RunMoves
    <1>5. TasksSame
        BY <1>0, <1>1, UnleasedSame
    <1> QED
        BY <1>1, <1>4, <1>5, EndRests DEF TabsSame, FinSame, Finalizing, PermShrinks

\* Serving, arriving and aborting.
LEMMA ServeEnd ==
    ASSUME CoreInv, QueueInv, EndInv, NEW r \in Requests, Serve(r) \/ Arrive(r) \/ Abort(r)
    PROVE  EndInv'
    <1>0. AskedInv /\ FinShape /\ r \in Finalizers
        BY DEF QueueInv, CoreInv, Shapes, Finalizers
    <1>1. ASSUME req' = req, task' = task, tab' = tab, perm' = perm, FinSame,
                 run' = run \/ \E c \in Outcomes : Stop(r, c)
          PROVE  EndInv'
        <2>1. RunsKept
            BY <1>1, StopKeeps, RunStays
        <2> QED
            BY <1>0, <1>1, <2>1, EndRests DEF TabsSame, TasksSame, PermShrinks
    <1>2. ASSUME fin' = fin
          PROVE  FinSame
        BY <1>2 DEF FinSame, Finalizing
    <1>3. ASSUME NEW s, At(r, s)
          PROVE  r \in DOMAIN req
        BY <1>3 DEF At, CoreInv, RunsInside, QueueInv, InLine
    <1>4. CASE Arrive(r) \/ Turn(r) \/ Relay(r)
        BY <1>1, <1>2, <1>4 DEF Arrive, Turn, Relay, runtimeVars
    <1>5. CASE Wake(r) \/ Abort(r)
        <2>1. "OPERATION_CANCELLED" \in Outcomes
            BY DEF Outcomes
        <2> QED
            BY <1>1, <1>2, <1>5, <2>1 DEF Wake, Abort
    <1>6. CASE Start(r)
        BY <1>6, StartEnd
    <1>7. CASE Operate(r)
        <2>1. Step(r)
            BY <1>7 DEF Operate
        <2>2. r \in DOMAIN req
            BY <1>3, <2>1, StepAt
        <2> QED
            BY <1>0, <2>1, <2>2, StepEnd
    <1>8. CASE Complete(r)
        BY <1>0, <1>8, CompleteEnd
    <1>9. CASE DrainStops(r)
        <2>1. FinalizationFails(r, "TASK_SUSPENDED", drv) /\ Finalizing(r)
            BY <1>9 DEF DrainStops, DrainFails, Finalizing
        <2> QED
            BY <1>0, <2>1, FailsEnd DEF Outcomes
    <1>10. CASE FinishBegins(r)
        <2>1. r \in DOMAIN req
            BY <1>3, <1>10 DEF FinishBegins
        <2> QED
            BY <1>0, <1>10, <2>1, FinishBeginsEnd
    <1>11. CASE Drain(r)
        <2>1. FinSame
            BY <1>0, <1>11 DEF Drain, FinSame, Finalizing, FinShape
        <2> QED
            BY <1>1, <1>11, <2>1 DEF Drain
    <1>12. CASE FinishReturns(r)
        <2>1. fin' = [fin EXCEPT ![r] = NoFin]
            BY <1>12 DEF FinishReturns
        <2>2. FinSame
            BY <1>0, <2>1, NoFinIs DEF FinSame, Finalizing, FinShape
        <2>3. Stop(r, "ok") \/ Stop(r, "TAB_NOT_OWNED")
            BY <1>12 DEF FinishReturns, Stop
        <2>4. "ok" \in Outcomes /\ "TAB_NOT_OWNED" \in Outcomes
            BY DEF Outcomes
        <2> QED
            BY <1>1, <1>12, <2>2, <2>3, <2>4 DEF FinishReturns
    <1> QED
        BY <1>4, <1>5, <1>6, <1>7, <1>8, <1>9, <1>10, <1>11, <1>12 DEF Serve, Finish, FinishStep

\* What is too old is forgotten.
LEMMA AgesEnd ==
    ASSUME CoreInv, AskedInv, EndInv, Ages
    PROVE  EndInv'
    <1>0. TaskShape /\ PermShape
        BY DEF CoreInv, Shapes
    <1>1. req' = req /\ tab' = tab /\ run' = run /\ fin' = fin
        BY DEF Ages
    <1>2. RunsKept /\ TabsSame /\ FinSame
        BY <1>1, RunStays DEF TabsSame, FinSame, Finalizing
    <1>3. PermShrinks
        BY <1>0 DEF Ages, PermShrinks, PermShape
    <1>4. TasksSame
        <2>1. CASE task' = task
            BY <2>1 DEF TasksSame
        <2>2. CASE \E k \in Tasks : task' = [task EXCEPT ![k].idle = TRUE]
            BY <1>0, <2>2 DEF TasksSame, TaskShape
        <2> QED
            BY <2>1, <2>2 DEF Ages
    <1> QED
        BY <1>1, <1>2, <1>3, <1>4, EndRests

\* EndInv is inductive, given WorkerInv.
LEMMA EndStep ==
    ASSUME WorkerInv, EndInv, [Next]_vars
    PROVE  EndInv'
    <1>0. CoreInv /\ QueueInv /\ AskedInv /\ PermShape
        BY DEF WorkerInv, QueueInv, CoreInv, Shapes
    <1>1. ASSUME req' = req, task' = task, tab' = tab, perm' = perm, run' = run, fin' = fin
          PROVE  EndInv'
        <2>1. RunsKept
            BY <1>0, <1>1, RunStays
        <2> QED
            BY <1>0, <1>1, <2>1, EndRests DEF TabsSame, TasksSame, FinSame, Finalizing, PermShrinks
    <1>2. ASSUME NEW r \in Requests, Serve(r) \/ Arrive(r) \/ Abort(r)
          PROVE  EndInv'
        BY <1>0, <1>2, ServeEnd
    <1>3. ASSUME NEW a \in Finalizers, Finalize(a)
          PROVE  EndInv'
        BY <1>0, <1>3, ReachTabEnd, TaskEndsEnd DEF Finalize, FinalizerStep
    <1>4. CASE Reap
        BY <1>0, <1>4, ReaperEnd DEF Reap
    <1>5. CASE ShutDownIdle \/ Forget \/ UNCHANGED vars
        BY <1>1, <1>5 DEF ShutDownIdle, IdleShutdown, Forget, vars, runtimeVars
    <1>6. CASE Disturb
        <2>1. CASE Ages
            BY <1>0, <2>1, AgesEnd
        <2>2. CASE BrowserDies \/ PageCloses
            BY <1>1, <2>2 DEF BrowserDies, PageCloses
        <2>3. CASE DriverFails
            <3>1. PICK r \in Requests : /\ req' = req /\ tab' = tab /\ fin' = fin
                                        /\ \E p : Unmarks(p) /\ ThrowWith(r, "driver", p)
                BY <1>0, <2>3, UnrecordedIs DEF DriverFails
            <3>2. RunsKept /\ TasksSame /\ PermShrinks
                BY <1>0, <3>1, ThrowKeeps DEF Outcomes, Unmarks
            <3> QED
                BY <1>0, <3>1, <3>2, EndRests DEF TabsSame, FinSame, Finalizing
        <2>4. ASSUME NEW a \in Finalizers, CloseFails(a)
              PROVE  EndInv'
            BY <1>0, <2>4, ReachTabEnd
        <2> QED
            BY <1>6, <2>1, <2>2, <2>3, <2>4 DEF Disturb
    <1> QED
        BY <1>2, <1>3, <1>4, <1>5, <1>6 DEF Next

\* A task that is over keeps no grant, no question, no mark of a recording, and no confirmation for a tab
\* that a late request could still use, although operations on its tabs, opens of new tabs and a
\* reconnect run beside its finalization (discardTabs and revokeTaskSiteGrants).
THEOREM NothingOutlivesATask == Spec => []NothingAfterEnd
    <1>1. Init => EndInv
        <2> SUFFICES ASSUME Init
                     PROVE  EndInv
            OBVIOUS
        <2>1. PICK s \in Scenarios : req = s.req /\ task = s.task /\ tab = s.tab /\ perm = s.perm
            BY DEF Init
        <2>2. /\ perm.conf = {} /\ DOMAIN req \subseteq Requests
              /\ task \in [Tasks -> TaskRecords] /\ tab \in [Tabs -> TabRecords]
              /\ \A k \in Tasks : /\ task[k].state \in {"none", "active", "suspended"}
                                  /\ \A t \in task[k].tabs : tab[t].of = k
              /\ \A t \in Tabs : tab[t].reg => tab[t].of # None
            BY <2>1, ScenariosAssumption
        <2>3. ASSUME NEW r \in Requests
              PROVE  run[r].at = 0 /\ run[r].held = 0 /\ run[r].mode = "none"
            <3>1. run = [q \in Requests |-> [at |-> 0, task |-> None, held |-> 0, tab |-> None, mode |-> "none",
                                             idx |-> 0, mark |-> {}, out |-> None]]
                BY DEF Init
            <3> QED
                BY <3>1
        <2>4. \A k \in Tasks : task[k].tabs \subseteq Tabs
            BY <2>2 DEF TaskRecords
        <2>5. TabsOwned
            BY <2>2, <2>3, <2>4 DEF TabsOwned
        <2>6. UsedAttached
            BY <2>2, <2>3 DEF UsedAttached, InUse
        <2>7. Picked
            BY <2>3 DEF Picked, Opens, PicksNew
        <2>8. OverClean
            BY <2>2 DEF OverClean
        <2> QED
            BY <2>5, <2>6, <2>7, <2>8 DEF EndInv
    <1>2. WorkerInv /\ EndInv /\ [Next]_vars => EndInv'
        BY EndStep
    <1>3. EndInv => NothingAfterEnd
        <2> SUFFICES ASSUME EndInv, NEW k \in Tasks, task[k].state \in {"finished", "expired"},
                            NEW c \in perm.conf, tab[c.tab].of = k, tab[c.tab].reg
                     PROVE  FALSE
            BY DEF EndInv, OverClean, NothingAfterEnd
        <2>1. PICK t \in Tabs : t = c.tab
            BY DEF EndInv, TabsOwned
        <2>2. InUse(t)
            BY <2>1 DEF InUse
        <2> QED
            BY <2>1, <2>2 DEF EndInv, UsedAttached, Ended
    <1> QED
        BY <1>1, <1>2, <1>3, WorkerInvHolds, PTL DEF Spec

=============================================================================
