--------------------------- MODULE BudgetLedger_proofs ---------------------------
(* What the budget ledger guarantees for any number of services, principals,      *)
(* waiters and permits, and any sizes of reserves, slots and queues.              *)
EXTENDS LedgerRotation, SharedRoundRobin, FiniteSetTheorems, TLAPS

--------------------------------------------------------------------------------
(* Elements of a sequence at some of its positions.                             *)

UpTo(at, i) == {j \in at : j <= i}

\* The number of positions up to each one numbers the positions.
LEMMA Numbering ==
    ASSUME NEW n \in Nat, NEW at \in SUBSET (1..n)
    PROVE  /\ IsFiniteSet(at) /\ Cardinality(at) \in Nat
           /\ \A i \in at : IsFiniteSet(UpTo(at, i)) /\ Cardinality(UpTo(at, i)) \in 1..Cardinality(at)
           /\ \A i, j \in at : Cardinality(UpTo(at, i)) = Cardinality(UpTo(at, j)) => i = j
           /\ \A k \in 1..Cardinality(at) : \E i \in at : Cardinality(UpTo(at, i)) = k
  <1>1. IsFiniteSet(at) /\ Cardinality(at) \in Nat
    <2>1. IsFiniteSet(1..n)  BY FS_Interval
    <2>2. IsFiniteSet(at)  BY <2>1, FS_Subset
    <2>3. QED  BY <2>2, FS_CardinalityType
  <1>2. ASSUME NEW i \in at
        PROVE  IsFiniteSet(UpTo(at, i)) /\ Cardinality(UpTo(at, i)) \in 1..Cardinality(at)
    <2>1. UpTo(at, i) \in SUBSET at /\ i \in UpTo(at, i)  BY DEF UpTo
    <2>2. /\ IsFiniteSet(UpTo(at, i)) /\ Cardinality(UpTo(at, i)) \in Nat
          /\ Cardinality(UpTo(at, i)) <= Cardinality(at)
      BY <1>1, <2>1, FS_Subset, FS_CardinalityType
    <2>3. Cardinality(UpTo(at, i)) # 0  BY <2>1, <2>2, FS_EmptySet
    <2>4. QED  BY <1>1, <2>2, <2>3
  <1>3. ASSUME NEW i \in at, NEW j \in at, i < j
        PROVE  Cardinality(UpTo(at, i)) < Cardinality(UpTo(at, j))
    <2>1. UpTo(at, i) \in SUBSET UpTo(at, j) /\ j \in UpTo(at, j) /\ j \notin UpTo(at, i)
      <3>1. \A x \in at : x \in Int  OBVIOUS
      <3>2. i \in Int /\ j \in Int  BY <3>1
      <3>3. \A x \in UpTo(at, i) : x \in UpTo(at, j)  BY <1>3, <3>1, <3>2 DEF UpTo
      <3>4. j \in UpTo(at, j) /\ j \notin UpTo(at, i)  BY <1>3, <3>2 DEF UpTo
      <3>5. QED  BY <3>3, <3>4
    <2>2. /\ Cardinality(UpTo(at, i)) <= Cardinality(UpTo(at, j))
          /\ Cardinality(UpTo(at, i)) # Cardinality(UpTo(at, j))
      BY <1>2, <2>1, FS_Subset
    <2>3. QED  BY <1>1, <1>2, <2>2
  <1>4. ASSUME NEW i \in at, NEW j \in at, Cardinality(UpTo(at, i)) = Cardinality(UpTo(at, j))
        PROVE  i = j
    <2>1. i \in Int /\ j \in Int  OBVIOUS
    <2>2. Cardinality(UpTo(at, i)) \in Int  BY <1>1, <1>2
    <2>3. ~(i < j)  BY <1>3, <1>4, <2>2
    <2>4. ~(j < i)  BY <1>3, <1>4, <2>2
    <2>5. QED  BY <2>1, <2>3, <2>4
  <1>5. ASSUME NEW k \in 1..Cardinality(at)
        PROVE  \E i \in at : Cardinality(UpTo(at, i)) = k
    <2> DEFINE f == [i \in at |-> Cardinality(UpTo(at, i))]
               T == 1..Cardinality(at)
    <2>1. f \in [at -> T]  BY <1>2
    <2>2. \A i, j \in at : f[i] = f[j] => i = j  BY <1>4
    <2>3. f \in Injection(at, T)  BY <2>1, <2>2 DEF Injection, IsInjective
    <2>4. IsFiniteSet(T) /\ Cardinality(T) = Cardinality(at)  BY <1>1, FS_Interval
    <2>5. f \in Surjection(at, T)  BY <2>3, <2>4, FS_Injection
    <2>6. QED  BY <2>5 DEF Surjection
  <1>6. QED  BY <1>1, <1>2, <1>4, <1>5

LEMMA NthIs ==
    ASSUME NEW n \in Nat, NEW at \in SUBSET (1..n)
    PROVE  /\ \A k \in 1..Cardinality(at) : Nth(at, k) \in at /\ Cardinality(UpTo(at, Nth(at, k))) = k
           /\ \A i \in at : Nth(at, Cardinality(UpTo(at, i))) = i
  <1>0. \A k \in 1..Cardinality(at) : \E i \in at : Cardinality(UpTo(at, i)) = k
    BY Numbering
  <1>1. ASSUME NEW k \in 1..Cardinality(at)
        PROVE  Nth(at, k) \in at /\ Cardinality(UpTo(at, Nth(at, k))) = k
    <2>1. \E i \in at : Cardinality(UpTo(at, i)) = k  BY <1>0
    <2>2. Nth(at, k) = CHOOSE i \in at : Cardinality(UpTo(at, i)) = k  BY Zenon DEF Nth, UpTo
    <2>3. QED  BY <2>1, <2>2, Zenon
  <1>2. ASSUME NEW i \in at PROVE Nth(at, Cardinality(UpTo(at, i))) = i
    <2>1. Cardinality(UpTo(at, i)) \in 1..Cardinality(at)  BY Numbering
    <2>2. PICK m \in at : m = Nth(at, Cardinality(UpTo(at, i)))
                          /\ Cardinality(UpTo(at, m)) = Cardinality(UpTo(at, i))
      BY <1>1, <2>1
    <2>3. m = i  BY <2>2, Numbering
    <2>4. QED  BY <2>2, <2>3
  <1>3. QED  BY <1>1, <1>2

\* No position before the k-th one is a later one.
LEMMA NthNotSooner ==
    ASSUME NEW n \in Nat, NEW at \in SUBSET (1..n)
    PROVE  \A k \in 1..Cardinality(at) : k <= Nth(at, k)
  <1> TAKE k \in 1..Cardinality(at)
  <1> DEFINE i == Nth(at, k)
  <1>1. i \in at /\ Cardinality(UpTo(at, i)) = k  BY NthIs
  <1> HIDE DEF i
  <1>2. i \in Nat  BY <1>1
  <1>3. \A x \in UpTo(at, i) : x \in 1..i
    <2>1. \A x \in at : x \in Int /\ x >= 1  OBVIOUS
    <2>2. QED  BY <1>2, <2>1 DEF UpTo
  <1>4. UpTo(at, i) \in SUBSET (1..i)  BY <1>3
  <1>5. IsFiniteSet(1..i) /\ Cardinality(1..i) = i
    <2>1. /\ IsFiniteSet(1..i)
          /\ Cardinality(1..i) = IF 1 > i THEN 0 ELSE i - 1 + 1
      BY <1>2, FS_Interval
    <2>2. QED  BY <1>2, <2>1
  <1>6. Cardinality(UpTo(at, i)) <= i  BY <1>4, <1>5, FS_Subset, ZenonT(60)
  <1>7. QED  BY <1>1, <1>6 DEF i

LEMMA SelectedIs ==
    ASSUME NEW S, NEW seq \in Seq(S), NEW at \in SUBSET (DOMAIN seq)
    PROVE  /\ Selected(seq, at) \in Seq(S)
           /\ DOMAIN Selected(seq, at) = 1..Cardinality(at) /\ Cardinality(at) \in Nat
           /\ \A k \in 1..Cardinality(at) :
                 Nth(at, k) \in at /\ Selected(seq, at)[k] = seq[Nth(at, k)]
           /\ \A k, l \in 1..Cardinality(at) : Nth(at, k) = Nth(at, l) => k = l
           /\ \A i \in at : \E k \in 1..Cardinality(at) : Nth(at, k) = i
           /\ at # {} => Selected(seq, at) # <<>>
  <1>1. Len(seq) \in Nat /\ DOMAIN seq = 1..Len(seq)  OBVIOUS
  <1>2. /\ IsFiniteSet(at) /\ Cardinality(at) \in Nat
        /\ \A k \in 1..Cardinality(at) : Nth(at, k) \in at /\ Cardinality(UpTo(at, Nth(at, k))) = k
        /\ \A i \in at : Nth(at, Cardinality(UpTo(at, i))) = i
        /\ \A i \in at : Cardinality(UpTo(at, i)) \in 1..Cardinality(at)
    BY <1>1, NthIs, Numbering
  <1>3. Selected(seq, at) = [k \in 1..Cardinality(at) |-> seq[Nth(at, k)]]  BY DEF Selected
  <1>4. \A k \in 1..Cardinality(at) : seq[Nth(at, k)] \in S  BY <1>1, <1>2
  <1>5. Selected(seq, at) \in Seq(S)  BY <1>2, <1>3, <1>4
  <1>6. at # {} => 1 \in DOMAIN Selected(seq, at)
    <2>1. Cardinality(at) = 0 <=> at = {}  BY <1>2, FS_EmptySet
    <2>2. QED  BY <1>2, <1>3, <2>1
  <1>7. at # {} => Selected(seq, at) # <<>>  BY <1>6
  <1>8. QED  BY <1>2, <1>3, <1>5, <1>7

--------------------------------------------------------------------------------
(* The queue of a class.                                                        *)

EntriesOf(lanes) == UNION {LaneWaiters(lanes[i]) : i \in DOMAIN lanes}

LaneWell(lane, s, c) ==
    /\ lane.waiters # <<>>
    /\ \A k \in DOMAIN lane.waiters :
          /\ lane.waiters[k].claim.principal = lane.principal
          /\ lane.waiters[k].claim.service = s
          /\ lane.waiters[k].claim.class = c
    /\ \A k, l \in DOMAIN lane.waiters :
          lane.waiters[k].id = lane.waiters[l].id => k = l

OneLaneEach(lanes) == \A i, j \in DOMAIN lanes : lanes[i].principal = lanes[j].principal => i = j

WellQueue(lanes, s, c) ==
    /\ lanes \in Seq(Lane)
    /\ OneLaneEach(lanes)
    /\ \A i \in DOMAIN lanes : LaneWell(lanes[i], s, c)

LEMMA EntriesAre ==
    ASSUME NEW lanes
    PROVE  /\ \A i \in DOMAIN lanes : \A k \in DOMAIN lanes[i].waiters :
                 lanes[i].waiters[k] \in EntriesOf(lanes)
           /\ \A e \in EntriesOf(lanes) :
                 \E i \in DOMAIN lanes : \E k \in DOMAIN lanes[i].waiters : e = lanes[i].waiters[k]
  BY DEF EntriesOf, LaneWaiters

\* The waiters of a queue carry its service and class.
LEMMA EntriesBelong ==
    ASSUME NEW s, NEW c, NEW lanes, WellQueue(lanes, s, c)
    PROVE  \A e \in EntriesOf(lanes) : e \in Entry /\ e.claim.service = s /\ e.claim.class = c
  <1> TAKE e \in EntriesOf(lanes)
  <1>0. PICK i \in DOMAIN lanes : \E k \in DOMAIN lanes[i].waiters : e = lanes[i].waiters[k]
    BY EntriesAre
  <1>1. PICK k \in DOMAIN lanes[i].waiters : e = lanes[i].waiters[k]
    BY <1>0
  <1>2. lanes[i] \in Lane /\ LaneWell(lanes[i], s, c)  BY DEF WellQueue
  <1>3. lanes[i].waiters \in Seq(Entry)  BY <1>2 DEF Lane
  <1>4. QED  BY <1>1, <1>2, <1>3 DEF LaneWell

\* What is left of a lane is a part of it, and is nothing when nobody stays.
LEMMA RestIs ==
    ASSUME NEW s, NEW c, NEW lane \in Lane, LaneWell(lane, s, c), NEW gone
    PROVE  /\ Rest(lane, gone) \in Lane
           /\ Rest(lane, gone).principal = lane.principal
           /\ Staying(lane, gone) # {} => LaneWell(Rest(lane, gone), s, c)
           /\ LaneWaiters(Rest(lane, gone)) \subseteq LaneWaiters(lane)
  <1> DEFINE at == Staying(lane, gone)
             w == lane.waiters
             left == Selected(w, at)
  <1>1. w \in Seq(Entry) /\ lane.principal \in Principal  BY DEF Lane
  <1>2. at \in SUBSET (DOMAIN w)  BY DEF Staying
  <1>3. /\ left \in Seq(Entry)
        /\ DOMAIN left = 1..Cardinality(at)
        /\ \A k \in DOMAIN left : Nth(at, k) \in at /\ left[k] = w[Nth(at, k)]
        /\ \A k, l \in DOMAIN left : Nth(at, k) = Nth(at, l) => k = l
        /\ at # {} => left # <<>>
    <2> HIDE DEF w, at
    <2>1. QED  BY <1>1, <1>2, SelectedIs DEF left
  <1>4. /\ Rest(lane, gone) \in Lane
        /\ Rest(lane, gone).principal = lane.principal
        /\ Rest(lane, gone).waiters = left
    BY <1>1, <1>3 DEF Rest, Lane
  <1>5. \A k \in DOMAIN left : Nth(at, k) \in DOMAIN w /\ left[k] = w[Nth(at, k)]  BY <1>2, <1>3
  <1>6. ASSUME at # {} PROVE LaneWell(Rest(lane, gone), s, c)
    <2>1. left # <<>>  BY <1>3, <1>6
    <2>2. \A k \in DOMAIN left : /\ left[k].claim.principal = lane.principal
                                 /\ left[k].claim.service = s
                                 /\ left[k].claim.class = c
      <3> HIDE DEF left, at
      <3>1. QED  BY <1>5 DEF LaneWell
    <2>3. \A k, l \in DOMAIN left : left[k].id = left[l].id => k = l
      <3> HIDE DEF left, at
      <3>1. QED  BY <1>3, <1>5 DEF LaneWell
    <2>4. QED
      <3> HIDE DEF left, at
      <3>1. QED  BY <1>4, <2>1, <2>2, <2>3 DEF LaneWell
  <1>7. LaneWaiters(Rest(lane, gone)) \subseteq LaneWaiters(lane)
    <2> HIDE DEF left, at
    <2>1. QED  BY <1>4, <1>5 DEF LaneWaiters
  <1>8. QED  BY <1>4, <1>6, <1>7

LEMMA WithoutIs ==
    ASSUME NEW s, NEW c, NEW lanes, WellQueue(lanes, s, c), NEW gone
    PROVE  /\ WellQueue(Without(lanes, gone), s, c)
           /\ EntriesOf(Without(lanes, gone)) \subseteq EntriesOf(lanes)
  <1> DEFINE rests == [i \in DOMAIN lanes |-> Rest(lanes[i], gone)]
             at == {i \in DOMAIN lanes : Staying(lanes[i], gone) # {}}
             left == Selected(rests, at)
  <1>1. Without(lanes, gone) = left  BY DEF Without
  <1>2. /\ lanes \in Seq(Lane)
        /\ \A i \in DOMAIN lanes : lanes[i] \in Lane /\ LaneWell(lanes[i], s, c)
        /\ \A i, j \in DOMAIN lanes : lanes[i].principal = lanes[j].principal => i = j
    BY DEF WellQueue, OneLaneEach
  <1>3. \A i \in DOMAIN lanes :
           /\ Rest(lanes[i], gone) \in Lane
           /\ Rest(lanes[i], gone).principal = lanes[i].principal
           /\ LaneWaiters(Rest(lanes[i], gone)) \subseteq LaneWaiters(lanes[i])
           /\ Staying(lanes[i], gone) # {} => LaneWell(Rest(lanes[i], gone), s, c)
    BY <1>2, RestIs
  <1>4. rests \in Seq(Lane) /\ DOMAIN rests = DOMAIN lanes
    <2>1. Len(lanes) \in Nat /\ DOMAIN lanes = 1..Len(lanes)  BY <1>2
    <2>2. QED  BY <1>3, <2>1
  <1>5. at \in SUBSET (DOMAIN rests)  BY <1>4
  <1>6. /\ left \in Seq(Lane)
        /\ DOMAIN left = 1..Cardinality(at)
        /\ \A k \in DOMAIN left : Nth(at, k) \in at /\ left[k] = rests[Nth(at, k)]
        /\ \A k, l \in DOMAIN left : Nth(at, k) = Nth(at, l) => k = l
    <2> HIDE DEF rests, at
    <2>1. /\ Selected(rests, at) \in Seq(Lane)
          /\ DOMAIN Selected(rests, at) = 1..Cardinality(at)
          /\ \A k \in 1..Cardinality(at) :
                Nth(at, k) \in at /\ Selected(rests, at)[k] = rests[Nth(at, k)]
          /\ \A k, l \in 1..Cardinality(at) : Nth(at, k) = Nth(at, l) => k = l
      BY <1>4, <1>5, SelectedIs
    <2>2. QED  BY <2>1 DEF left
  <1>7. \A k \in DOMAIN left : /\ Nth(at, k) \in DOMAIN lanes
                               /\ Staying(lanes[Nth(at, k)], gone) # {}
                               /\ left[k] = Rest(lanes[Nth(at, k)], gone)
    <2> HIDE DEF left
    <2>1. QED  BY <1>6
  <1> HIDE DEF left, at, rests
  <1>8. OneLaneEach(left)  BY <1>2, <1>3, <1>6, <1>7 DEF OneLaneEach
  <1>9. \A k \in DOMAIN left : LaneWell(left[k], s, c)  BY <1>3, <1>7
  <1>10. EntriesOf(left) \subseteq EntriesOf(lanes)
    <2>1. \A k \in DOMAIN left : LaneWaiters(left[k]) \subseteq LaneWaiters(lanes[Nth(at, k)])
      BY <1>3, <1>7
    <2>2. QED  BY <1>7, <2>1 DEF EntriesOf
  <1>11. QED  BY <1>1, <1>6, <1>8, <1>9, <1>10 DEF WellQueue

LEMMA PushedIs ==
    ASSUME NEW s, NEW c, NEW lanes, WellQueue(lanes, s, c),
           NEW e \in Entry, e.claim.service = s, e.claim.class = c,
           \A f \in EntriesOf(lanes) : f.id # e.id
    PROVE  /\ WellQueue(Pushed(lanes, e), s, c)
           /\ EntriesOf(Pushed(lanes, e)) = EntriesOf(lanes) \cup {e}
  <1> DEFINE u == e.claim.principal
             longer(lane) == [lane EXCEPT !.waiters = Append(@, e)]
  <1>1. /\ lanes \in Seq(Lane) /\ Len(lanes) \in Nat /\ DOMAIN lanes = 1..Len(lanes)
        /\ \A i \in DOMAIN lanes : lanes[i] \in Lane /\ LaneWell(lanes[i], s, c)
        /\ \A i, j \in DOMAIN lanes : lanes[i].principal = lanes[j].principal => i = j
    BY DEF WellQueue, OneLaneEach
  <1>2. u \in Principal /\ e.claim \in ClaimType  BY DEF Entry, ClaimType
  <1>3. CASE \E i \in DOMAIN lanes : lanes[i].principal = u
    <2> PICK m \in DOMAIN lanes : lanes[m].principal = u  BY <1>3
    <2> DEFINE out == [i \in DOMAIN lanes |->
                         IF lanes[i].principal = u THEN longer(lanes[i]) ELSE lanes[i]]
    <2>1. Pushed(lanes, e) = out  BY <1>3 DEF Pushed
    <2>2. \A i \in DOMAIN lanes : out[i] = IF i = m THEN longer(lanes[m]) ELSE lanes[i]  BY <1>1
    <2>3. lanes[m].waiters \in Seq(Entry) /\ lanes[m].principal \in Principal  BY <1>1 DEF Lane
    <2>4. /\ longer(lanes[m]) \in Lane
          /\ longer(lanes[m]).principal = u
          /\ longer(lanes[m]).waiters = Append(lanes[m].waiters, e)
      <3>1. e \in Entry /\ Append(lanes[m].waiters, e) \in Seq(Entry)  BY <2>3
      <3>2. lanes[m] = [principal |-> lanes[m].principal, waiters |-> lanes[m].waiters]
        BY <1>1 DEF Lane
      <3>3. longer(lanes[m]) = [principal |-> lanes[m].principal,
                                waiters |-> Append(lanes[m].waiters, e)]
        <4>1. ASSUME NEW t PROVE [lanes[m] EXCEPT !.waiters = t]
                                    = [principal |-> lanes[m].principal, waiters |-> t]
          BY <3>2
        <4>2. QED  BY <4>1, Zenon
      <3>4. QED  BY <2>3, <3>1, <3>3 DEF Lane
    <2>5. LaneWell(longer(lanes[m]), s, c) /\ LaneWaiters(longer(lanes[m])) = LaneWaiters(lanes[m]) \cup {e}
      <3> DEFINE w == lanes[m].waiters
                 v == Append(w, e)
      <3>1. /\ Len(w) \in Nat /\ DOMAIN w = 1..Len(w) /\ DOMAIN v = 1..(Len(w) + 1)
            /\ v[Len(w) + 1] = e /\ \A k \in DOMAIN w : v[k] = w[k]
        BY <2>3
      <3>2. \A k \in DOMAIN w : w[k].id # e.id  BY EntriesAre
      <3>3. \A k \in DOMAIN v : k \in DOMAIN w \/ k = Len(w) + 1  BY <3>1
      <3>4. LaneWell(lanes[m], s, c)  BY <1>1
      <3> HIDE DEF v
      <3>5. v # <<>>  BY <3>1
      <3>6. LaneWell(longer(lanes[m]), s, c)
        <4>1. \A k \in DOMAIN v : /\ v[k].claim.principal = u
                                  /\ v[k].claim.service = s /\ v[k].claim.class = c
          BY <3>1, <3>3, <3>4 DEF LaneWell
        <4>2. \A k, l \in DOMAIN v : v[k].id = v[l].id => k = l
          BY <3>1, <3>2, <3>3, <3>4 DEF LaneWell
        <4>3. longer(lanes[m]).waiters = v /\ longer(lanes[m]).principal = u  BY <2>4 DEF v
        <4> HIDE DEF longer
        <4>4. QED  BY <3>5, <4>1, <4>2, <4>3 DEF LaneWell
      <3>7. LaneWaiters(longer(lanes[m])) = LaneWaiters(lanes[m]) \cup {e}
        <4>1. longer(lanes[m]).waiters = v  BY <2>4 DEF v
        <4> HIDE DEF longer
        <4>2. QED  BY <3>1, <3>3, <4>1 DEF LaneWaiters
      <3>8. QED  BY <3>6, <3>7
    <2> HIDE DEF longer
    <2>6. DOMAIN out = DOMAIN lanes  OBVIOUS
    <2>7. out \in Seq(Lane)  BY <1>1, <2>2, <2>4
    <2> HIDE DEF out
    <2>8. OneLaneEach(out)  BY <1>1, <2>2, <2>4, <2>6 DEF OneLaneEach
    <2>9. \A i \in DOMAIN out : LaneWell(out[i], s, c)  BY <1>1, <2>2, <2>5, <2>6
    <2>10. EntriesOf(out) = EntriesOf(lanes) \cup {e}
      <3>1. \A i \in DOMAIN lanes : LaneWaiters(out[i]) =
                IF i = m THEN LaneWaiters(lanes[m]) \cup {e} ELSE LaneWaiters(lanes[i])
        BY <2>2, <2>5
      <3>2. QED  BY <2>6, <3>1 DEF EntriesOf
    <2>11. QED  BY <2>1, <2>7, <2>8, <2>9, <2>10 DEF WellQueue
  <1>4. CASE ~ \E i \in DOMAIN lanes : lanes[i].principal = u
    <2> DEFINE new == [principal |-> u, waiters |-> <<e>>]
               out == Append(lanes, new)
    <2>1. Pushed(lanes, e) = out  BY <1>4 DEF Pushed
    <2>2. new \in Lane  BY <1>2 DEF Lane
    <2>3. LaneWell(new, s, c) /\ LaneWaiters(new) = {e} /\ new.principal = u
      BY DEF LaneWell, LaneWaiters
    <2> HIDE DEF new
    <2>4. /\ out \in Seq(Lane) /\ DOMAIN out = 1..(Len(lanes) + 1)
          /\ out[Len(lanes) + 1] = new /\ \A i \in DOMAIN lanes : out[i] = lanes[i]
      BY <1>1, <2>2
    <2>5. \A i \in DOMAIN out : i \in DOMAIN lanes \/ i = Len(lanes) + 1  BY <1>1, <2>4
    <2> HIDE DEF out
    <2>6. OneLaneEach(out)  BY <1>1, <1>4, <2>3, <2>4, <2>5 DEF OneLaneEach
    <2>7. \A i \in DOMAIN out : LaneWell(out[i], s, c)  BY <1>1, <2>3, <2>4, <2>5
    <2>8. EntriesOf(out) = EntriesOf(lanes) \cup {e}
      <3>1. \A i \in DOMAIN lanes : i \in DOMAIN out  BY <1>1, <2>4
      <3>2. Len(lanes) + 1 \in DOMAIN out  BY <1>1, <2>4
      <3>3. QED  BY <2>3, <2>4, <2>5, <3>1, <3>2 DEF EntriesOf
    <2>9. QED  BY <2>1, <2>4, <2>6, <2>7, <2>8 DEF WellQueue
  <1>5. QED  BY <1>3, <1>4

\* Who is served next, and what is left of the queue.
LEMMA PoppedIs ==
    ASSUME NEW s, NEW c, NEW lanes, WellQueue(lanes, s, c), lanes # <<>>,
           NEW e, e = Head(Head(lanes).waiters)
    PROVE  /\ e \in EntriesOf(lanes)
           /\ WellQueue(Popped(lanes), s, c)
           /\ \A f \in EntriesOf(Popped(lanes)) : f \in EntriesOf(lanes) /\ f # e
  <1> DEFINE w == lanes[1].waiters
             rest == Tail(w)
             others == Tail(lanes)
             lane == [principal |-> lanes[1].principal, waiters |-> rest]
  <1>1. /\ lanes \in Seq(Lane) /\ Len(lanes) \in Nat \ {0} /\ DOMAIN lanes = 1..Len(lanes)
        /\ \A i \in DOMAIN lanes : lanes[i] \in Lane /\ LaneWell(lanes[i], s, c)
        /\ \A i, j \in DOMAIN lanes : lanes[i].principal = lanes[j].principal => i = j
    BY DEF WellQueue, OneLaneEach
  <1>2. 1 \in DOMAIN lanes /\ Head(lanes) = lanes[1] /\ LaneWell(lanes[1], s, c)  BY <1>1
  <1>3. /\ w \in Seq(Entry) /\ w # <<>> /\ lanes[1].principal \in Principal
        /\ Len(w) \in Nat \ {0} /\ DOMAIN w = 1..Len(w)
    <2>1. lanes[1] \in Lane  BY <1>1, <1>2
    <2>2. w \in Seq(Entry) /\ lanes[1].principal \in Principal  BY <2>1 DEF Lane
    <2>3. w # <<>>  BY <1>2 DEF LaneWell
    <2> HIDE DEF w
    <2>4. QED  BY <2>2, <2>3
  <1>4. 1 \in DOMAIN w /\ e = w[1]  BY <1>2, <1>3
  <1>5. e \in EntriesOf(lanes)  BY <1>2, <1>4, EntriesAre
  <1>6. /\ rest \in Seq(Entry) /\ Len(rest) = Len(w) - 1 /\ DOMAIN rest = 1..(Len(w) - 1)
        /\ \A k \in DOMAIN rest : rest[k] = w[k + 1] /\ k + 1 \in DOMAIN w
    BY <1>3
  <1>7. /\ others \in Seq(Lane) /\ Len(others) = Len(lanes) - 1
        /\ DOMAIN others = 1..(Len(lanes) - 1)
        /\ \A i \in DOMAIN others : others[i] = lanes[i + 1] /\ i + 1 \in DOMAIN lanes
    BY <1>1
  <1>8. Popped(lanes) = IF rest = <<>> THEN others ELSE Append(others, lane)
    <2>1. lanes[1] = [principal |-> lanes[1].principal, waiters |-> w]  BY <1>1, <1>2 DEF Lane
    <2>2. [Head(lanes) EXCEPT !.waiters = Tail(@)] = lane
      <3>1. ASSUME NEW t PROVE [lanes[1] EXCEPT !.waiters = t]
                                  = [principal |-> lanes[1].principal, waiters |-> t]
        BY <2>1
      <3>2. QED  BY <1>2, <3>1, Zenon
    <2>3. lane.waiters = rest  OBVIOUS
    <2> HIDE DEF rest
    <2>4. QED  BY <2>2, <2>3 DEF Popped
  <1> HIDE DEF rest, others, w
  <1>9. OneLaneEach(others) /\ \A i \in DOMAIN others : LaneWell(others[i], s, c)
    BY <1>1, <1>7, SMTT(60) DEF OneLaneEach
  <1>10. \A i \in DOMAIN others : others[i].principal # lanes[1].principal  BY <1>1, <1>2, <1>7
  <1>11. e.claim.principal = lanes[1].principal  BY <1>2, <1>4 DEF LaneWell, w
  <1>12. \A f \in EntriesOf(others) : f \in EntriesOf(lanes) /\ f # e
    <2> TAKE f \in EntriesOf(others)
    <2>1. PICK i \in DOMAIN others : \E k \in DOMAIN others[i].waiters : f = others[i].waiters[k]
      BY EntriesAre
    <2>2. PICK k \in DOMAIN others[i].waiters : f = others[i].waiters[k]  BY <2>1
    <2>3. f \in EntriesOf(lanes)  BY <1>7, <2>2, EntriesAre, ZenonT(60)
    <2>4. f.claim.principal = others[i].principal  BY <1>9, <2>2 DEF LaneWell
    <2>5. QED  BY <1>10, <1>11, <2>3, <2>4
  <1>13. CASE rest = <<>>
    <2>1. Popped(lanes) = others  BY <1>8, <1>13
    <2>2. QED  BY <1>5, <1>7, <1>9, <1>12, <2>1 DEF WellQueue
  <1>14. CASE rest # <<>>
    <2>1. lane \in Lane  BY <1>3, <1>6 DEF Lane
    <2>2. lane.principal = lanes[1].principal /\ lane.waiters = rest  OBVIOUS
    <2>3. \A k \in DOMAIN rest : rest[k].id # e.id
      <3>1. \A k, l \in DOMAIN w : w[k].id = w[l].id => k = l  BY <1>2 DEF LaneWell, w
      <3> TAKE k \in DOMAIN rest
      <3>2. rest[k] = w[k + 1] /\ k + 1 \in DOMAIN w  BY <1>6
      <3>3. k \in 1..(Len(w) - 1)  BY <1>6
      <3>4. k + 1 # 1  BY <1>3, <3>3
      <3>5. QED  BY <1>4, <3>1, <3>2, <3>4
    <2>4. LaneWell(lane, s, c)
      <3>1. \A k \in DOMAIN rest : /\ rest[k].claim.principal = lanes[1].principal
                                   /\ rest[k].claim.service = s /\ rest[k].claim.class = c
        BY <1>2, <1>6 DEF LaneWell, w
      <3>2. \A k, l \in DOMAIN rest : rest[k].id = rest[l].id => k = l
        <4>1. \A k, l \in DOMAIN w : w[k].id = w[l].id => k = l  BY <1>2 DEF LaneWell, w
        <4>2. \A k, l \in DOMAIN rest : k + 1 = l + 1 => k = l  BY <1>3, <1>6
        <4>3. QED  BY <1>6, <4>1, <4>2
      <3> HIDE DEF lane
      <3>3. QED  BY <1>14, <2>2, <3>1, <3>2 DEF LaneWell
    <2> DEFINE out == Append(others, lane)
    <2> HIDE DEF lane
    <2>5. Popped(lanes) = out  BY <1>8, <1>14 DEF lane
    <2>6. /\ out \in Seq(Lane) /\ DOMAIN out = 1..(Len(others) + 1)
          /\ out[Len(others) + 1] = lane /\ \A i \in DOMAIN others : out[i] = others[i]
          /\ \A i \in DOMAIN out : i \in DOMAIN others \/ i = Len(others) + 1
      <3>1. /\ out \in Seq(Lane) /\ DOMAIN out = 1..(Len(others) + 1)
            /\ out[Len(others) + 1] = lane /\ \A i \in 1..Len(others) : out[i] = others[i]
        BY <1>7, <2>1
      <3>2. Len(others) \in Nat /\ DOMAIN others = 1..Len(others)  BY <1>7
      <3> HIDE DEF out
      <3>3. QED  BY <3>1, <3>2
    <2> HIDE DEF out
    <2>7. OneLaneEach(out)  BY <1>9, <1>10, <2>2, <2>6 DEF OneLaneEach
    <2>8. \A i \in DOMAIN out : LaneWell(out[i], s, c)  BY <1>9, <2>4, <2>6
    <2>9. \A f \in EntriesOf(out) : f \in EntriesOf(lanes) /\ f # e
      <3> TAKE f \in EntriesOf(out)
      <3>1. PICK i \in DOMAIN out : \E k \in DOMAIN out[i].waiters : f = out[i].waiters[k]
        BY EntriesAre
      <3>2. PICK k \in DOMAIN out[i].waiters : f = out[i].waiters[k]  BY <3>1
      <3>3. CASE i \in DOMAIN others
        <4>1. f \in EntriesOf(others)  BY <2>6, <3>2, <3>3, EntriesAre
        <4>2. QED  BY <1>12, <4>1
      <3>4. CASE i = Len(others) + 1
        <4>1. k \in DOMAIN rest /\ f = rest[k]  BY <2>2, <2>6, <3>2, <3>4
        <4>2. k + 1 \in DOMAIN w /\ f = w[k + 1]  BY <1>6, <4>1
        <4>3. f \in EntriesOf(lanes)  BY <1>2, <4>2, EntriesAre DEF w
        <4>4. QED  BY <2>3, <4>1, <4>3
      <3>5. QED  BY <2>6, <3>3, <3>4
    <2>10. QED  BY <1>5, <2>5, <2>6, <2>7, <2>8, <2>9 DEF WellQueue
  <1>15. QED  BY <1>13, <1>14

--------------------------------------------------------------------------------
(* The steps of the ledger, by what they do to its accounts and queues.         *)

LEMMA ChosenIs ==
    ASSUME NEW active \in SUBSET SharedMembers, active # {},
           NEW cr \in [SharedMembers -> Int]
    PROVE  /\ Chosen(cr, active) \in active
           /\ \A d \in active :
                 \/ Earned(cr, active)[Chosen(cr, active)] > Earned(cr, active)[d]
                 \/ /\ Earned(cr, active)[Chosen(cr, active)] = Earned(cr, active)[d]
                    /\ Rank[Chosen(cr, active)] <= Rank[d]
  <1> DEFINE earned == Earned(cr, active)
             wins(c, d) == \/ earned[c] > earned[d]
                           \/ earned[c] = earned[d] /\ Rank[c] <= Rank[d]
  <1>1. \A c \in SharedMembers : earned[c] \in Int
    BY DEF Earned, Share, SharedMembers, Weight
  <1>2. \A c \in SharedMembers : Rank[c] \in Int  BY DEF SharedMembers, Rank
  <1> HIDE DEF earned
  <1>3. \E c \in active : \A d \in active : wins(c, d)
    <2>1. \A c, d \in SharedMembers : wins(c, d) \/ wins(d, c)  BY <1>1, <1>2
    <2>2. \A a, c, d \in SharedMembers : wins(a, c) /\ wins(c, d) => wins(a, d)  BY <1>1, <1>2
    <2>3. \A c \in SharedMembers : wins(c, c)  BY <2>1
    <2> HIDE DEF wins
    <2>4. QED  BY <2>1, <2>2, <2>3, ZenonT(60) DEF SharedMembers
  <1>4. Chosen(cr, active) = CHOOSE c \in active : \A d \in active : wins(c, d)
    BY Zenon DEF Chosen, earned
  <1> HIDE DEF wins
  <1>5. Chosen(cr, active) \in active /\ \A d \in active : wins(Chosen(cr, active), d)
    BY <1>3, <1>4, Zenon
  <1>6. QED  BY <1>5, Zenon DEF wins, earned

AccountTypes ==
    /\ permits \in [Permit -> Grant \cup {NoPermit}]
    /\ reservedUse \in [Service -> [Class -> Nat]]
    /\ sharedUse \in [Service -> [Class -> Nat]]
    /\ sharedUsed \in [Service -> Nat]
    /\ attached \in [Service -> Nat]

QueuesInOrder ==
    /\ queue \in [Service -> [Class -> Seq(Lane)]]
    /\ \A s \in Service, c \in Class : WellQueue(queue[s][c], s, c)

Here(g, s) == {p \in DOMAIN g : g[p].claim.service = s}
Taken(g, s, c, slot) == {p \in Here(g, s) : g[p].claim.class = c /\ g[p].slot = slot}
Pooled(g, s) == {p \in Here(g, s) : g[p].slot = "Shared"}

\* The grants of g go to permits nobody holds, and there is room for them.
Grants(g) ==
    /\ DOMAIN g \subseteq Permit
    /\ \A p \in DOMAIN g : /\ permits[p] = NoPermit /\ g[p] \in Grant
                           /\ g[p].claim.service \notin draining
    /\ \A s \in Service :
          /\ Here(g, s) # {} => Physical(s) + Cardinality(Here(g, s)) <= PhysicalCap
          /\ Pooled(g, s) # {} => sharedUsed[s] + Cardinality(Pooled(g, s)) <= Shared
          /\ \A c \in Class : Taken(g, s, c, "Reserved") # {} =>
                reservedUse[s][c] + Cardinality(Taken(g, s, c, "Reserved")) <= Reserved[c]
          /\ Taken(g, s, "Control", "Shared") = {}
    /\ Commit(g)
    /\ attached' = attached

Pops(s, c) == queue' = [queue EXCEPT ![s][c] = Popped(@)]

RestStep == UNCHANGED <<permits, reservedUse, sharedUse, sharedUsed, attached, queue>>
AttachStep == \E s \in Service : Attach(s) \/ Detach(s)
AdmitStep == /\ \E g : Grants(g) /\ \A p \in DOMAIN g : g[p].waiter = NoWaiter
             /\ queue' = queue
ServeStep ==
    \E s \in Service, c \in Class, p \in Permit, slot \in {"Reserved", "Shared"} :
       LET e == Head(Head(queue[s][c]).waiters)
       IN /\ queue[s][c] # <<>>
          /\ Grants([q \in {p} |-> [claim |-> ClaimOf(e.claim), slot |-> slot, waiter |-> e.id]])
          /\ Pops(s, c)
EnqueueStep == \E claim \in Claim, w \in Waiter : Enqueue(claim, w)
LeaveStep == /\ UNCHANGED <<permits, reservedUse, sharedUse, sharedUsed, attached>>
             /\ \E gone : Leave(gone)
ReleaseStep == \E p \in Permit : Release(p)

LEMMA OneGrant ==
    ASSUME AccountTypes, NEW p \in Permit, permits[p] = NoPermit,
           NEW x \in Grant, NEW g, g = [q \in {p} |-> x],
           x.claim.service \notin draining,
           Physical(x.claim.service) < PhysicalCap,
           x.slot = "Shared" => /\ sharedUsed[x.claim.service] < Shared
                                /\ x.claim.class \in SharedMembers,
           x.slot = "Reserved" => Headroom(x.claim.service, x.claim.class) > 0,
           Commit(g), attached' = attached
    PROVE  Grants(g)
  <1>1. /\ DOMAIN g = {p} /\ g[p] = x
        /\ x.claim \in ClaimType /\ x.slot \in {"Reserved", "Shared"}
    BY DEF Grant
  <1>2. x.claim.service \in Service /\ x.claim.class \in Class  BY <1>1 DEF ClaimType
  <1>3. \A s : Here(g, s) = IF x.claim.service = s THEN {p} ELSE {}  BY <1>1 DEF Here
  <1>4. \A s : Pooled(g, s) = IF x.claim.service = s /\ x.slot = "Shared" THEN {p} ELSE {}
    BY <1>1, <1>3 DEF Pooled
  <1>5. \A s, c, slot : Taken(g, s, c, slot) =
           IF x.claim.service = s /\ x.claim.class = c /\ x.slot = slot THEN {p} ELSE {}
    BY <1>1, <1>3 DEF Taken
  <1>6. Cardinality({p}) = 1  BY FS_Singleton
  <1>7. /\ IsFiniteSet(Permit) /\ Reserved \in [Class -> Nat] /\ Shared \in Nat /\ PhysicalCap \in Nat
    BY BudgetAssumption
  <1>8. \A s \in Service : Physical(s) \in Nat
    <2> TAKE s \in Service
    <2>1. PermitsOf(s) \in SUBSET Permit  BY DEF PermitsOf, InHand
    <2>2. Cardinality(PermitsOf(s)) \in Nat  BY <1>7, <2>1, FS_Subset, FS_CardinalityType
    <2>3. QED  BY <2>2 DEF Physical, AccountTypes
  <1>9. \A s \in Service :
          /\ Here(g, s) # {} => Physical(s) + Cardinality(Here(g, s)) <= PhysicalCap
          /\ Pooled(g, s) # {} => sharedUsed[s] + Cardinality(Pooled(g, s)) <= Shared
    <2> TAKE s \in Service
    <2>1. sharedUsed[s] \in Nat /\ Physical(s) \in Nat  BY <1>8 DEF AccountTypes
    <2>2. ASSUME Here(g, s) # {} PROVE Physical(s) + Cardinality(Here(g, s)) <= PhysicalCap
      <3>1. s = x.claim.service /\ Here(g, s) = {p}  BY <1>3, <2>2
      <3>2. Physical(s) < PhysicalCap /\ Cardinality(Here(g, s)) = 1  BY <1>6, <3>1
      <3>3. QED  BY <1>7, <2>1, <3>2
    <2>3. ASSUME Pooled(g, s) # {} PROVE sharedUsed[s] + Cardinality(Pooled(g, s)) <= Shared
      <3>1. s = x.claim.service /\ x.slot = "Shared" /\ Pooled(g, s) = {p}  BY <1>4, <2>3
      <3>2. sharedUsed[s] < Shared /\ Cardinality(Pooled(g, s)) = 1  BY <1>6, <3>1
      <3>3. QED  BY <1>7, <2>1, <3>2
    <2>4. QED  BY <2>2, <2>3
  <1>10. \A s \in Service, c \in Class : Taken(g, s, c, "Reserved") # {} =>
            reservedUse[s][c] + Cardinality(Taken(g, s, c, "Reserved")) <= Reserved[c]
    <2> TAKE s \in Service, c \in Class
    <2>1. reservedUse[s][c] \in Nat /\ Reserved[c] \in Nat  BY <1>7 DEF AccountTypes
    <2>2. ASSUME Taken(g, s, c, "Reserved") # {}
          PROVE  reservedUse[s][c] + Cardinality(Taken(g, s, c, "Reserved")) <= Reserved[c]
      <3>1. /\ s = x.claim.service /\ c = x.claim.class /\ x.slot = "Reserved"
            /\ Taken(g, s, c, "Reserved") = {p}
        BY <1>5, <2>2
      <3>2. Headroom(s, c) > 0 /\ Cardinality(Taken(g, s, c, "Reserved")) = 1  BY <1>6, <3>1
      <3>3. QED  BY <2>1, <3>2 DEF Headroom
    <2>3. QED  BY <2>2
  <1>11. \A s \in Service : Taken(g, s, "Control", "Shared") = {}  BY <1>5 DEF SharedMembers
  <1>12. QED  BY <1>1, <1>9, <1>10, <1>11 DEF Grants

LEMMA NotInHand == \A p \in Permit : p \in InHand <=> permits[p] # NoPermit
  BY DEF InHand

LEMMA AdmitTakes ==
    ASSUME AccountTypes, NEW claim \in Claim, NEW p \in Permit, Admit(claim, p)
    PROVE  AdmitStep
  <1>1. PICK slot \in Slots(claim.service, claim.class) :
           Commit([q \in {p} |-> [claim |-> claim, slot |-> slot, waiter |-> NoWaiter]])
    BY DEF Admit
  <1> DEFINE x == [claim |-> claim, slot |-> slot, waiter |-> NoWaiter]
             g == [q \in {p} |-> x]
  <1>2. /\ slot \in {"Reserved", "Shared"}
        /\ slot = "Reserved" => Headroom(claim.service, claim.class) > 0
        /\ slot = "Shared" => /\ claim.class \in SharedMembers
                              /\ sharedUsed[claim.service] < Shared
    BY DEF Slots
  <1>3. claim \in ClaimType  BY BudgetAssumption
  <1>4. x \in Grant  BY <1>2, <1>3 DEF Grant
  <1>5. /\ permits[p] = NoPermit /\ claim.service \notin draining
        /\ Physical(claim.service) < PhysicalCap /\ attached' = attached /\ queue' = queue
    BY DEF Admit, Admissible
  <1>6. x.claim = claim /\ x.slot = slot /\ x.waiter = NoWaiter  OBVIOUS
  <1>7. Commit(g)  BY <1>1
  <1> HIDE DEF x
  <1>8. Grants(g)
    <2>1. x.slot = "Shared" => /\ sharedUsed[x.claim.service] < Shared
                               /\ x.claim.class \in SharedMembers
      BY <1>2, <1>6
    <2>2. x.slot = "Reserved" => Headroom(x.claim.service, x.claim.class) > 0  BY <1>2, <1>6
    <2>3. x.claim.service \notin draining /\ Physical(x.claim.service) < PhysicalCap
      BY <1>5, <1>6
    <2> DEFINE h == g
    <2> HIDE DEF g
    <2>4. g = [q \in {p} |-> x]  BY DEF g
    <2>5. QED  BY <1>4, <1>5, <1>7, <2>1, <2>2, <2>3, <2>4, OneGrant
  <1>9. \A q \in DOMAIN g : g[q].waiter = NoWaiter  BY <1>6
  <1> HIDE DEF g
  <1>10. QED  BY <1>5, <1>8, <1>9 DEF AdmitStep

LEMMA AdmitManyTakes ==
    ASSUME AccountTypes, NEW ids \in SUBSET Permit, NEW claims \in [ids -> Claim], AdmitMany(claims)
    PROVE  AdmitStep
  <1>1. PICK slots \in BatchSlots(claims) :
           Commit([p \in DOMAIN claims |->
                     [claim |-> claims[p], slot |-> slots[p], waiter |-> NoWaiter]])
    BY DEF AdmitMany
  <1> DEFINE g == [p \in DOMAIN claims |->
                     [claim |-> claims[p], slot |-> slots[p], waiter |-> NoWaiter]]
  <1>2. DOMAIN claims = ids /\ \A p \in ids : claims[p] \in Claim /\ claims[p] \in ClaimType
    BY BudgetAssumption
  <1>3. slots \in [ids -> {"Reserved", "Shared"}]  BY <1>2 DEF BatchSlots
  <1>4. DOMAIN g = ids /\ \A p \in ids : /\ g[p] \in Grant
                                         /\ g[p].claim = claims[p] /\ g[p].slot = slots[p]
                                         /\ g[p].waiter = NoWaiter
    BY <1>2, <1>3 DEF Grant
  <1>5. /\ \A p \in ids : permits[p] = NoPermit /\ claims[p].service \notin draining
        /\ \A s \in Service :
              LET here == {p \in ids : claims[p].service = s}
              IN here # {} => Physical(s) + Cardinality(here) <= PhysicalCap
        /\ queue' = queue /\ attached' = attached
    BY <1>2 DEF AdmitMany, Admissible
  <1> DEFINE shared == {p \in ids : slots[p] = "Shared"}
             of(s, c) == {p \in ids : claims[p].service = s /\ claims[p].class = c}
             inService(s) == {p \in ids : claims[p].service = s}
  <1>6. \A s \in Service :
           /\ sharedUsed[s] + Cardinality(inService(s) \cap shared) <= Shared \/ inService(s) = {}
           /\ \A c \in Class :
                 \/ of(s, c) \cap shared = {} /\ Cardinality(of(s, c) \ shared) <= Headroom(s, c)
                 \/ c \in SharedMembers /\ Cardinality(of(s, c) \ shared) = Headroom(s, c)
    BY <1>2 DEF BatchSlots
  <1>7. Commit(g)  BY <1>1
  <1> HIDE DEF g
  <1>8. ASSUME NEW s \in Service
        PROVE  /\ Here(g, s) = inService(s)
               /\ Pooled(g, s) = inService(s) \cap shared
               /\ \A c : Taken(g, s, c, "Reserved") = of(s, c) \ shared
               /\ \A c : Taken(g, s, c, "Shared") = of(s, c) \cap shared
    <2>1. Here(g, s) = inService(s)  BY <1>4 DEF Here
    <2>2. Pooled(g, s) = inService(s) \cap shared  BY <1>4, <2>1 DEF Pooled
    <2>3. \A c : Taken(g, s, c, "Shared") = of(s, c) \cap shared  BY <1>4, <2>1 DEF Taken
    <2>4. ASSUME NEW c PROVE Taken(g, s, c, "Reserved") = of(s, c) \ shared
      <3>1. \A p \in ids : slots[p] = "Reserved" <=> slots[p] # "Shared"  BY <1>3
      <3>2. QED  BY <1>4, <2>1, <3>1 DEF Taken
    <2>5. QED  BY <2>1, <2>2, <2>3, <2>4
  <1>9. \A s \in Service :
          /\ Here(g, s) # {} => Physical(s) + Cardinality(Here(g, s)) <= PhysicalCap
          /\ Pooled(g, s) # {} => sharedUsed[s] + Cardinality(Pooled(g, s)) <= Shared
          /\ Taken(g, s, "Control", "Shared") = {}
    <2> TAKE s \in Service
    <2>1. Here(g, s) # {} => Physical(s) + Cardinality(Here(g, s)) <= PhysicalCap
      BY <1>5, <1>8
    <2>2. Pooled(g, s) # {} => sharedUsed[s] + Cardinality(Pooled(g, s)) <= Shared
      BY <1>6, <1>8
    <2>3. "Control" \in Class /\ "Control" \notin SharedMembers  BY DEF Class, SharedMembers
    <2> HIDE DEF shared, of
    <2>4. Taken(g, s, "Control", "Shared") = {}  BY <1>6, <1>8, <2>3
    <2>5. QED  BY <2>1, <2>2, <2>4
  <1>10. \A s \in Service, c \in Class : Taken(g, s, c, "Reserved") # {} =>
            reservedUse[s][c] + Cardinality(Taken(g, s, c, "Reserved")) <= Reserved[c]
    <2> TAKE s \in Service, c \in Class
    <2>1. reservedUse[s][c] \in Nat /\ Reserved[c] \in Nat  BY BudgetAssumption DEF AccountTypes
    <2> HIDE DEF shared, of
    <2>2. \/ Cardinality(Taken(g, s, c, "Reserved")) <= Headroom(s, c)
          \/ Cardinality(Taken(g, s, c, "Reserved")) = Headroom(s, c)
      BY <1>6, <1>8
    <2>3. of(s, c) \ shared \in SUBSET Permit  BY DEF of
    <2>4. Cardinality(Taken(g, s, c, "Reserved")) \in Nat
      BY <1>8, <2>3, BudgetAssumption, FS_Subset, FS_CardinalityType
    <2>5. QED  BY <2>1, <2>2, <2>4 DEF Headroom
  <1>11. Grants(g)  BY <1>4, <1>5, <1>7, <1>9, <1>10, SMTT(60) DEF Grants
  <1>12. QED  BY <1>4, <1>5, <1>11 DEF AdmitStep

\* The waiter at the head of a queue that is served, and the grant it gets.
LEMMA HeadServed ==
    ASSUME AccountTypes, QueuesInOrder, NEW s \in Service, NEW c \in Class,
           NEW slot \in {"Reserved", "Shared"}, queue[s][c] # <<>>,
           Serves(s), GrantHead(s, c, slot), attached' = attached,
           slot = "Shared" => sharedUsed[s] < Shared /\ c \in SharedMembers,
           slot = "Reserved" => Headroom(s, c) > 0
    PROVE  ServeStep
  <1> DEFINE e == Head(Head(queue[s][c]).waiters)
             x == [claim |-> ClaimOf(e.claim), slot |-> slot, waiter |-> e.id]
  <1>1. /\ e \in Entry /\ e.claim.service = s /\ e.claim.class = c
    <2>1. WellQueue(queue[s][c], s, c)  BY DEF QueuesInOrder
    <2>2. e \in EntriesOf(queue[s][c])  BY <2>1, PoppedIs
    <2>3. QED  BY <2>1, <2>2, EntriesBelong
  <1>2. PICK p \in Permit \ InHand : Commit([q \in {p} |-> x])  BY DEF GrantHead
  <1>3. Pops(s, c)  BY DEF GrantHead, Pops
  <1>4. permits[p] = NoPermit  BY NotInHand
  <1> HIDE DEF e
  <1>5. /\ ClaimOf(e.claim) \in ClaimType
        /\ ClaimOf(e.claim).service = s /\ ClaimOf(e.claim).class = c
    BY <1>1 DEF ClaimOf, Entry, ClaimType
  <1>6. x \in Grant /\ x.claim.service = s /\ x.claim.class = c /\ x.slot = slot
    BY <1>1, <1>5 DEF Grant, Entry
  <1> DEFINE g == [q \in {p} |-> x]
  <1>7. Commit(g)  BY <1>2
  <1> HIDE DEF x
  <1>8. g = [q \in {p} |-> x]  OBVIOUS
  <1> HIDE DEF g
  <1>9. s \notin draining /\ Physical(s) < PhysicalCap  BY DEF Serves
  <1>10. Grants(g)  BY <1>4, <1>6, <1>7, <1>8, <1>9, OneGrant
  <1>11. QED  BY <1>3, <1>10 DEF ServeStep, g, x, e

LEMMA PumpServes ==
    ASSUME AccountTypes, QueuesInOrder, credit \in [Service -> [SharedMembers -> Int]], PumpGrant
    PROVE  ServeStep
  <1> PICK s \in Service : PumpReserved(s) \/ PumpShared(s)  BY DEF PumpGrant
  <1>1. CASE PumpReserved(s)
    <2>1. PICK i \in 1..4 : /\ ClassOrder[i] \in Grantable(s)
                            /\ GrantHead(s, ClassOrder[i], "Reserved")
      BY <1>1 DEF PumpReserved
    <2>2. Serves(s) /\ attached' = attached  BY <1>1 DEF PumpReserved
    <2>3. /\ ClassOrder[i] \in Class /\ queue[s][ClassOrder[i]] # <<>>
          /\ Headroom(s, ClassOrder[i]) > 0
      BY <2>1 DEF Grantable
    <2>4. PICK c \in Class : c = ClassOrder[i]  BY <2>3
    <2>5. QED  BY <2>1, <2>2, <2>3, <2>4, HeadServed
  <1>2. CASE PumpShared(s)
    <2>1. PICK c : c = Chosen(credit[s], Active(s))  OBVIOUS
    <2>2. Active(s) \in SUBSET SharedMembers /\ Active(s) # {}  BY <1>2 DEF PumpShared, Active
    <2>3. c \in Active(s)
      <3>1. credit[s] \in [SharedMembers -> Int]  OBVIOUS
      <3>2. QED  BY <2>1, <2>2, <3>1, ChosenIs
    <2>4. c \in Class /\ c \in SharedMembers /\ queue[s][c] # <<>>
      BY <2>3 DEF Active, Class, SharedMembers
    <2>5. Serves(s) /\ attached' = attached /\ sharedUsed[s] < Shared /\ GrantHead(s, c, "Shared")
      BY <1>2, <2>1 DEF PumpShared
    <2>6. QED  BY <2>4, <2>5, HeadServed
  <1>3. QED  BY <1>1, <1>2

LEMMA StepKinds ==
    ASSUME AccountTypes, QueuesInOrder, credit \in [Service -> [SharedMembers -> Int]], LedgerNext
    PROVE  \/ RestStep \/ AttachStep \/ AdmitStep \/ ServeStep
           \/ EnqueueStep \/ LeaveStep \/ ReleaseStep
  <1>1. CASE \E s \in Service : Ensure(s) \/ Attach(s) \/ Detach(s) \/ DrainConnection(s)
    <2> PICK s \in Service : Ensure(s) \/ Attach(s) \/ Detach(s) \/ DrainConnection(s)  BY <1>1
    <2>1. Ensure(s) \/ DrainConnection(s) => RestStep
      BY DEF Ensure, DrainConnection, RestStep, accounts
    <2>2. Attach(s) \/ Detach(s) => AttachStep  BY DEF AttachStep
    <2>3. QED  BY <2>1, <2>2
  <1>2. CASE \E claim \in Claim : \/ \E p \in Permit : Admit(claim, p)
                                  \/ \E w \in Waiter : Enqueue(claim, w)
    BY <1>2, AdmitTakes DEF EnqueueStep
  <1>3. CASE \E ids \in SUBSET Permit : ids # {} /\ \E claims \in [ids -> Claim] : AdmitMany(claims)
    <2> PICK ids \in SUBSET Permit : \E claims \in [ids -> Claim] : AdmitMany(claims)  BY <1>3
    <2> PICK claims \in [ids -> Claim] : AdmitMany(claims)  OBVIOUS
    <2>1. QED  BY AdmitManyTakes
  <1>4. CASE \E w \in Waiter : Cancel(w) \/ Elapse(w)
    <2> PICK w \in Waiter : Cancel(w) \/ Elapse(w)  BY <1>4
    <2>1. Cancel(w) => LeaveStep  BY DEF Cancel, LeaveStep, accounts
    <2>2. Elapse(w) => RestStep  BY DEF Elapse, RestStep, accounts
    <2>3. QED  BY <2>1, <2>2
  <1>5. CASE \E p \in Permit : Release(p)  BY <1>5 DEF ReleaseStep
  <1>6. CASE \/ \E o \in Org : DrainOrganization(o)
             \/ \E n \in Worker : DrainNode(n)
             \/ \E s \in Service : PumpNext(s)
    BY <1>6 DEF DrainOrganization, DrainNode, PumpNext, RestStep, accounts
  <1>7. CASE \E gone \in SUBSET (late \cap Queued) : PumpStart(gone)
    BY <1>7 DEF PumpStart, LeaveStep, accounts
  <1>8. CASE PumpGrant  BY <1>8, PumpServes
  <1>9. QED  BY <1>1, <1>2, <1>3, <1>4, <1>5, <1>6, <1>7, <1>8 DEF LedgerNext

--------------------------------------------------------------------------------
(* The accounts.                                                                *)

LEMMA Disjoint ==
    ASSUME NEW A, NEW B, IsFiniteSet(A), IsFiniteSet(B), A \cap B = {}
    PROVE  /\ Cardinality(A \cup B) = Cardinality(A) + Cardinality(B)
           /\ Cardinality(A) \in Nat /\ Cardinality(B) \in Nat
  <1>1. Cardinality(A) \in Nat /\ Cardinality(B) \in Nat  BY FS_CardinalityType
  <1>2. Cardinality(A \cup B) = Cardinality(A) + Cardinality(B) - Cardinality(A \cap B)
    BY FS_Union
  <1>3. Cardinality(A \cap B) = 0  BY FS_EmptySet
  <1>4. QED  BY <1>1, <1>2, <1>3

LEMMA PermitSetsFinite ==
    ASSUME NEW S \in SUBSET Permit
    PROVE  IsFiniteSet(S) /\ Cardinality(S) \in Nat
  BY BudgetAssumption, FS_Subset, FS_CardinalityType

\* What is held, before and after grants.
LEMMA GrantsAdd ==
    ASSUME AccountTypes, NEW g, Grants(g)
    PROVE  /\ AccountTypes'
           /\ InHand' = InHand \cup DOMAIN g
           /\ \A p \in DOMAIN g : permits'[p] = g[p]
           /\ \A p \in InHand : permits'[p] = permits[p]
           /\ \A s \in Service :
                 /\ PermitsOf(s)' = PermitsOf(s) \cup Here(g, s)
                 /\ PermitsOf(s) \cap Here(g, s) = {}
                 /\ sharedUsed'[s] = sharedUsed[s] + Cardinality(Pooled(g, s))
                 /\ \A c \in Class :
                    /\ reservedUse'[s][c] = reservedUse[s][c] + Cardinality(Taken(g, s, c, "Reserved"))
                    /\ sharedUse'[s][c] = sharedUse[s][c] + Cardinality(Taken(g, s, c, "Shared"))
  <1>1. /\ DOMAIN g \subseteq Permit
        /\ \A p \in DOMAIN g : permits[p] = NoPermit /\ g[p] \in Grant
        /\ attached' = attached
    BY DEF Grants
  <1>2. permits' = [p \in Permit |-> IF p \in DOMAIN g THEN g[p] ELSE permits[p]]
    BY DEF Grants, Commit
  <1>3. /\ permits' \in [Permit -> Grant \cup {NoPermit}]
        /\ \A p \in DOMAIN g : permits'[p] = g[p]
        /\ \A p \in Permit : p \notin DOMAIN g => permits'[p] = permits[p]
    BY <1>1, <1>2 DEF AccountTypes
  <1>4. NoPermit \notin Grant  BY BudgetAssumption DEF Grant
  <1>5. \A p \in DOMAIN g : permits'[p] # NoPermit /\ permits[p] = NoPermit  BY <1>1, <1>3, <1>4
  <1>6. InHand' = InHand \cup DOMAIN g /\ InHand \cap DOMAIN g = {}
    BY <1>1, <1>3, <1>5 DEF InHand
  <1>7. \A p \in InHand : permits'[p] = permits[p]  BY <1>3, <1>6 DEF InHand
  <1>8. ASSUME NEW s \in Service
        PROVE  PermitsOf(s)' = PermitsOf(s) \cup Here(g, s) /\ PermitsOf(s) \cap Here(g, s) = {}
    BY <1>3, <1>6, <1>7 DEF PermitsOf, Here
  <1>9. \A s \in Service :
           /\ Pooled(g, s) \in SUBSET Permit
           /\ \A c, slot : Taken(g, s, c, slot) \in SUBSET Permit
    BY <1>1 DEF Pooled, Taken, Here
  <1>10. \A s \in Service :
            /\ Cardinality(Pooled(g, s)) \in Nat
            /\ \A c, slot : Cardinality(Taken(g, s, c, slot)) \in Nat
    BY <1>9, PermitSetsFinite
  <1> DEFINE taken(s, c, slot) == {p \in DOMAIN g : /\ g[p].claim.service = s
                                                     /\ g[p].claim.class = c
                                                     /\ g[p].slot = slot}
             pooled(s) == {p \in DOMAIN g : g[p].claim.service = s /\ g[p].slot = "Shared"}
  <1>11. /\ reservedUse' = [s \in Service |-> [c \in Class |->
               reservedUse[s][c] + Cardinality(taken(s, c, "Reserved"))]]
         /\ sharedUse' = [s \in Service |-> [c \in Class |->
               sharedUse[s][c] + Cardinality(taken(s, c, "Shared"))]]
         /\ sharedUsed' = [s \in Service |-> sharedUsed[s] + Cardinality(pooled(s))]
    BY Zenon DEF Grants, Commit
  <1>12. /\ \A s : pooled(s) = Pooled(g, s)
         /\ \A s, c, slot : taken(s, c, slot) = Taken(g, s, c, slot)
    BY DEF Pooled, Taken, Here
  <1> HIDE DEF taken, pooled
  <1>13. /\ reservedUse' \in [Service -> [Class -> Nat]]
         /\ sharedUse' \in [Service -> [Class -> Nat]]
         /\ sharedUsed' \in [Service -> Nat]
    BY <1>10, <1>11, <1>12 DEF AccountTypes
  <1>14. AccountTypes'  BY <1>1, <1>3, <1>13 DEF AccountTypes
  <1>15. \A s \in Service :
           /\ sharedUsed'[s] = sharedUsed[s] + Cardinality(Pooled(g, s))
           /\ \A c \in Class :
              /\ reservedUse'[s][c] = reservedUse[s][c] + Cardinality(Taken(g, s, c, "Reserved"))
              /\ sharedUse'[s][c] = sharedUse[s][c] + Cardinality(Taken(g, s, c, "Shared"))
    BY <1>11, <1>12
  <1>16. QED  BY <1>3, <1>6, <1>7, <1>8, <1>14, <1>15

LEMMA GrantsBalance ==
    ASSUME AccountTypes, AccountsMatchPermits, NEW g, Grants(g)
    PROVE  AccountsMatchPermits'
  <1>1. /\ InHand' = InHand \cup DOMAIN g
        /\ \A p \in DOMAIN g : permits'[p] = g[p]
        /\ \A p \in InHand : permits'[p] = permits[p]
        /\ \A s \in Service :
              /\ PermitsOf(s)' = PermitsOf(s) \cup Here(g, s)
              /\ PermitsOf(s) \cap Here(g, s) = {}
    BY GrantsAdd
  <1>2. \A s \in Service :
           /\ sharedUsed'[s] = sharedUsed[s] + Cardinality(Pooled(g, s))
           /\ \A c \in Class :
              /\ reservedUse'[s][c] = reservedUse[s][c] + Cardinality(Taken(g, s, c, "Reserved"))
              /\ sharedUse'[s][c] = sharedUse[s][c] + Cardinality(Taken(g, s, c, "Shared"))
    BY GrantsAdd
  <1>3. \A s : Here(g, s) \subseteq DOMAIN g /\ PermitsOf(s) \subseteq InHand
    BY DEF Here, PermitsOf
  <1>4. DOMAIN g \subseteq Permit /\ InHand \subseteq Permit  BY DEF Grants, InHand
  <1>5. ASSUME NEW s \in Service
        PROVE  /\ HeldShared(s)' = HeldShared(s) \cup Pooled(g, s)
               /\ HeldShared(s) \cap Pooled(g, s) = {}
               /\ HeldShared(s) \in SUBSET Permit /\ Pooled(g, s) \in SUBSET Permit
    BY <1>1, <1>3, <1>4 DEF HeldShared, Pooled
  <1>6. ASSUME NEW s \in Service, NEW c \in Class, NEW slot
        PROVE  /\ Held(s, c, slot)' = Held(s, c, slot) \cup Taken(g, s, c, slot)
               /\ Held(s, c, slot) \cap Taken(g, s, c, slot) = {}
               /\ Held(s, c, slot) \in SUBSET Permit /\ Taken(g, s, c, slot) \in SUBSET Permit
    BY <1>1, <1>3, <1>4 DEF Held, Taken
  <1>7. ASSUME NEW s \in Service
        PROVE  sharedUsed'[s] = Cardinality(HeldShared(s)')
    <2>1. Cardinality(HeldShared(s)') = Cardinality(HeldShared(s)) + Cardinality(Pooled(g, s))
      BY <1>5, PermitSetsFinite, Disjoint
    <2>2. QED  BY <1>2, <2>1 DEF AccountsMatchPermits
  <1>8. ASSUME NEW s \in Service, NEW c \in Class, NEW slot
        PROVE  Cardinality(Held(s, c, slot)')
                  = Cardinality(Held(s, c, slot)) + Cardinality(Taken(g, s, c, slot))
    BY <1>6, PermitSetsFinite, Disjoint
  <1>9. ASSUME NEW s \in Service, NEW c \in Class
        PROVE  /\ reservedUse'[s][c] = Cardinality(Held(s, c, "Reserved")')
               /\ sharedUse'[s][c] = Cardinality(Held(s, c, "Shared")')
    BY <1>2, <1>8 DEF AccountsMatchPermits
  <1>10. QED  BY <1>7, <1>9 DEF AccountsMatchPermits

\* A permit that goes back leaves the accounts as if it had never been granted.
LEMMA ReleaseTakesBack ==
    ASSUME AccountTypes, AccountsMatchPermits, NEW p \in InHand, Free(p), attached' = attached
    PROVE  /\ AccountTypes'
           /\ AccountsMatchPermits'
           /\ InHand' = InHand \ {p}
           /\ \A q \in InHand' : permits'[q] = permits[q]
           /\ \A s \in Service : /\ PermitsOf(s)' \subseteq PermitsOf(s)
                                 /\ sharedUsed'[s] <= sharedUsed[s]
                                 /\ \A c \in Class : /\ reservedUse'[s][c] <= reservedUse[s][c]
                                                     /\ sharedUse'[s][c] <= sharedUse[s][c]
  <1> DEFINE t == permits[p].claim.service
             d == permits[p].claim.class
             slot == permits[p].slot
             common == slot = "Shared"
             less(n, gives) == IF gives /\ n > 0 THEN n - 1 ELSE n
  <1>1. p \in Permit /\ permits[p] # NoPermit /\ permits[p] \in Grant
    BY DEF InHand, AccountTypes
  <1>2. t \in Service /\ d \in Class /\ slot \in {"Reserved", "Shared"}
    BY <1>1, SMTT(60) DEF Grant, ClaimType
  <1>3. /\ permits' = [permits EXCEPT ![p] = NoPermit]
        /\ reservedUse' = [reservedUse EXCEPT ![t][d] = less(@, ~common)]
        /\ sharedUse' = [sharedUse EXCEPT ![t][d] = less(@, common)]
        /\ sharedUsed' = [sharedUsed EXCEPT ![t] = less(@, common)]
    BY DEF Free, Return
  <1>4. /\ permits' \in [Permit -> Grant \cup {NoPermit}]
        /\ permits'[p] = NoPermit
        /\ \A q \in Permit : q # p => permits'[q] = permits[q]
    BY <1>1, <1>3 DEF AccountTypes
  <1>5. InHand' = InHand \ {p} /\ \A q \in InHand' : permits'[q] = permits[q]
    BY <1>1, <1>4 DEF InHand
  <1>6. \A s \in Service : PermitsOf(s)' = PermitsOf(s) \ {p}  BY <1>4, <1>5 DEF PermitsOf
  <1>7. \A s \in Service : PermitsOf(s) \in SUBSET Permit  BY DEF PermitsOf, InHand
  <1>8. ASSUME NEW s \in Service
        PROVE  /\ HeldShared(s)' = HeldShared(s) \ {p}
               /\ p \in HeldShared(s) <=> s = t /\ common
               /\ HeldShared(s) \in SUBSET Permit
    BY <1>5, <1>6, <1>7 DEF HeldShared, PermitsOf
  <1>9. ASSUME NEW s \in Service, NEW c \in Class, NEW z
        PROVE  /\ Held(s, c, z)' = Held(s, c, z) \ {p}
               /\ p \in Held(s, c, z) <=> s = t /\ c = d /\ slot = z
               /\ Held(s, c, z) \in SUBSET Permit
    BY <1>5, <1>6, <1>7 DEF Held, PermitsOf
  <1>10. ASSUME NEW S \in SUBSET Permit
         PROVE  /\ Cardinality(S) \in Nat
                /\ p \in S => Cardinality(S) > 0 /\ Cardinality(S \ {p}) = Cardinality(S) - 1
                /\ p \notin S => S \ {p} = S
    <2>1. IsFiniteSet(S) /\ Cardinality(S) \in Nat  BY PermitSetsFinite
    <2>2. p \in S => Cardinality(S \ {p}) = Cardinality(S) - 1  BY <2>1, FS_RemoveElement
    <2>3. p \in S => Cardinality(S) # 0  BY <2>1, FS_EmptySet
    <2>4. QED  BY <2>1, <2>2, <2>3
  <1> HIDE DEF t, d, slot
  <1>11. ASSUME NEW s \in Service
         PROVE  /\ sharedUsed'[s] = Cardinality(HeldShared(s)')
                /\ sharedUsed'[s] \in Nat /\ sharedUsed'[s] <= sharedUsed[s]
    <2>1. sharedUsed[s] = Cardinality(HeldShared(s)) /\ sharedUsed[s] \in Nat
      BY DEF AccountsMatchPermits, AccountTypes
    <2>2. sharedUsed'[s] = IF s = t THEN less(sharedUsed[s], common) ELSE sharedUsed[s]
      BY <1>3 DEF AccountTypes
    <2>3. CASE s = t /\ common
      <3>1. p \in HeldShared(s) /\ sharedUsed[s] > 0  BY <1>8, <1>10, <2>1, <2>3
      <3>2. sharedUsed'[s] = sharedUsed[s] - 1  BY <2>2, <2>3, <3>1
      <3>3. QED  BY <1>8, <1>10, <2>1, <3>1, <3>2
    <2>4. CASE ~(s = t /\ common)
      <3>1. sharedUsed'[s] = sharedUsed[s]  BY <2>2, <2>4
      <3>2. HeldShared(s)' = HeldShared(s)  BY <1>8, <1>10, <2>4
      <3>3. QED  BY <2>1, <3>1, <3>2
    <2>5. QED  BY <2>3, <2>4
  <1>12. ASSUME NEW s \in Service, NEW c \in Class
         PROVE  /\ reservedUse'[s][c] = Cardinality(Held(s, c, "Reserved")')
                /\ reservedUse'[s][c] \in Nat /\ reservedUse'[s][c] <= reservedUse[s][c]
                /\ sharedUse'[s][c] = Cardinality(Held(s, c, "Shared")')
                /\ sharedUse'[s][c] \in Nat /\ sharedUse'[s][c] <= sharedUse[s][c]
    <2>1. /\ reservedUse[s][c] = Cardinality(Held(s, c, "Reserved")) /\ reservedUse[s][c] \in Nat
          /\ sharedUse[s][c] = Cardinality(Held(s, c, "Shared")) /\ sharedUse[s][c] \in Nat
      BY DEF AccountsMatchPermits, AccountTypes
    <2>2. reservedUse'[s][c] =
             IF s = t /\ c = d THEN less(reservedUse[s][c], ~common) ELSE reservedUse[s][c]
      BY <1>2, <1>3 DEF AccountTypes
    <2>3. sharedUse'[s][c] =
             IF s = t /\ c = d THEN less(sharedUse[s][c], common) ELSE sharedUse[s][c]
      BY <1>2, <1>3 DEF AccountTypes
    <2>4. p \in Held(s, c, "Reserved") <=> s = t /\ c = d /\ ~common  BY <1>2, <1>9
    <2>5. p \in Held(s, c, "Shared") <=> s = t /\ c = d /\ common  BY <1>9
    <2>6. reservedUse'[s][c] = Cardinality(Held(s, c, "Reserved")')
             /\ reservedUse'[s][c] \in Nat /\ reservedUse'[s][c] <= reservedUse[s][c]
      <3>1. CASE s = t /\ c = d /\ ~common
        <4>1. p \in Held(s, c, "Reserved") /\ reservedUse[s][c] > 0
          <5>1. p \in Held(s, c, "Reserved")  BY <2>4, <3>1
          <5>2. Held(s, c, "Reserved") \in SUBSET Permit  BY <1>9
          <5>3. Cardinality(Held(s, c, "Reserved")) > 0  BY <1>10, <5>1, <5>2
          <5>4. QED  BY <2>1, <5>1, <5>3
        <4>2. reservedUse'[s][c] = reservedUse[s][c] - 1  BY <2>2, <3>1, <4>1
        <4>3. QED  BY <1>9, <1>10, <2>1, <4>1, <4>2
      <3>2. CASE ~(s = t /\ c = d /\ ~common)
        <4>1. reservedUse'[s][c] = reservedUse[s][c]  BY <2>2, <3>2
        <4>2. Held(s, c, "Reserved")' = Held(s, c, "Reserved")  BY <1>9, <1>10, <2>4, <3>2
        <4>3. QED  BY <2>1, <4>1, <4>2
      <3>3. QED  BY <3>1, <3>2
    <2>7. sharedUse'[s][c] = Cardinality(Held(s, c, "Shared")')
             /\ sharedUse'[s][c] \in Nat /\ sharedUse'[s][c] <= sharedUse[s][c]
      <3>1. CASE s = t /\ c = d /\ common
        <4>1. p \in Held(s, c, "Shared") /\ sharedUse[s][c] > 0  BY <1>9, <1>10, <2>1, <2>5, <3>1
        <4>2. sharedUse'[s][c] = sharedUse[s][c] - 1  BY <2>3, <3>1, <4>1
        <4>3. QED  BY <1>9, <1>10, <2>1, <4>1, <4>2
      <3>2. CASE ~(s = t /\ c = d /\ common)
        <4>1. sharedUse'[s][c] = sharedUse[s][c]  BY <2>3, <3>2
        <4>2. Held(s, c, "Shared")' = Held(s, c, "Shared")  BY <1>9, <1>10, <2>5, <3>2
        <4>3. QED  BY <2>1, <4>1, <4>2
      <3>3. QED  BY <3>1, <3>2
    <2>8. QED  BY <2>6, <2>7
  <1>13. /\ sharedUsed' = [s \in Service |-> sharedUsed'[s]]
         /\ reservedUse' = [s \in Service |-> [c \in Class |-> reservedUse'[s][c]]]
         /\ sharedUse' = [s \in Service |-> [c \in Class |-> sharedUse'[s][c]]]
    BY <1>2, <1>3 DEF AccountTypes
  <1>14. AccountTypes'  BY <1>4, <1>11, <1>12, <1>13 DEF AccountTypes
  <1>15. AccountsMatchPermits'  BY <1>11, <1>12 DEF AccountsMatchPermits
  <1>16. QED  BY <1>5, <1>6, <1>11, <1>12, <1>14, <1>15

LEMMA PhysicalIs ==
    ASSUME AccountTypes, NEW s \in Service
    PROVE  Physical(s) = attached[s] + Cardinality(PermitsOf(s)) /\ Physical(s) \in Nat
  <1>1. PermitsOf(s) \in SUBSET Permit  BY DEF PermitsOf, InHand
  <1>2. QED  BY <1>1, PermitSetsFinite DEF Physical, AccountTypes

LEMMA GrantsWithinQuota ==
    ASSUME AccountTypes, WithinQuota, NEW g, Grants(g)
    PROVE  WithinQuota'
  <1>1. /\ DOMAIN g \subseteq Permit
        /\ \A s \in Service :
              /\ Here(g, s) # {} => Physical(s) + Cardinality(Here(g, s)) <= PhysicalCap
              /\ Pooled(g, s) # {} => sharedUsed[s] + Cardinality(Pooled(g, s)) <= Shared
              /\ \A c \in Class : Taken(g, s, c, "Reserved") # {} =>
                    reservedUse[s][c] + Cardinality(Taken(g, s, c, "Reserved")) <= Reserved[c]
              /\ Taken(g, s, "Control", "Shared") = {}
        /\ attached' = attached
    BY DEF Grants
  <1>2. AccountTypes'  BY GrantsAdd
  <1>3. \A s \in Service :
           /\ PermitsOf(s)' = PermitsOf(s) \cup Here(g, s)
           /\ PermitsOf(s) \cap Here(g, s) = {}
           /\ sharedUsed'[s] = sharedUsed[s] + Cardinality(Pooled(g, s))
           /\ \A c \in Class :
              /\ reservedUse'[s][c] = reservedUse[s][c] + Cardinality(Taken(g, s, c, "Reserved"))
              /\ sharedUse'[s][c] = sharedUse[s][c] + Cardinality(Taken(g, s, c, "Shared"))
    BY GrantsAdd
  <1>4. Cardinality({}) = 0  BY FS_EmptySet
  <1>5. ASSUME NEW s \in Service, NEW c \in Class
        PROVE  reservedUse'[s][c] <= Reserved[c]
    <2>1. reservedUse[s][c] \in Nat /\ reservedUse[s][c] <= Reserved[c]
      BY DEF AccountTypes, WithinQuota
    <2>2. reservedUse'[s][c] = reservedUse[s][c] + Cardinality(Taken(g, s, c, "Reserved"))
      BY <1>3
    <2>3. CASE Taken(g, s, c, "Reserved") = {}
      <3>1. Cardinality(Taken(g, s, c, "Reserved")) = 0  BY <1>4, <2>3
      <3>2. QED  BY <2>1, <2>2, <3>1
    <2>4. CASE Taken(g, s, c, "Reserved") # {}  BY <1>1, <2>2, <2>4
    <2>5. QED  BY <2>3, <2>4
  <1>6. ASSUME NEW s \in Service
        PROVE  sharedUse'[s]["Control"] = 0 /\ sharedUsed'[s] <= Shared
    <2>1. sharedUse[s]["Control"] = 0 /\ sharedUsed[s] \in Nat /\ sharedUsed[s] <= Shared
      BY DEF AccountTypes, WithinQuota
    <2>2. "Control" \in Class  BY DEF Class
    <2>3. Cardinality(Taken(g, s, "Control", "Shared")) = 0  BY <1>1, <1>4
    <2>4. sharedUse'[s]["Control"] = 0
      <3>1. sharedUse'[s]["Control"]
               = sharedUse[s]["Control"] + Cardinality(Taken(g, s, "Control", "Shared"))
        BY <1>3, <2>2
      <3>2. QED  BY <2>1, <2>3, <3>1
    <2>5. sharedUsed'[s] = sharedUsed[s] + Cardinality(Pooled(g, s))  BY <1>3
    <2>6. CASE Pooled(g, s) = {}
      <3>1. Cardinality(Pooled(g, s)) = 0  BY <1>4, <2>6
      <3>2. QED  BY <2>1, <2>4, <2>5, <3>1
    <2>7. CASE Pooled(g, s) # {}  BY <1>1, <2>4, <2>5, <2>7
    <2>8. QED  BY <2>6, <2>7
  <1>7. ASSUME NEW s \in Service
        PROVE  Physical(s)' <= PhysicalCap
    <2>1. Here(g, s) \in SUBSET Permit /\ PermitsOf(s) \in SUBSET Permit
      BY <1>1 DEF Here, PermitsOf, InHand
    <2>2. Cardinality(PermitsOf(s)') = Cardinality(PermitsOf(s)) + Cardinality(Here(g, s))
      BY <1>3, <2>1, PermitSetsFinite, Disjoint
    <2>3. Physical(s)' = Physical(s) + Cardinality(Here(g, s))
      <3>1. /\ attached[s] \in Nat /\ attached'[s] = attached[s]
            /\ Cardinality(PermitsOf(s)) \in Nat /\ Cardinality(Here(g, s)) \in Nat
        BY <1>1, <2>1, PermitSetsFinite DEF AccountTypes
      <3>2. Physical(s)' = attached'[s] + Cardinality(PermitsOf(s)')  BY DEF Physical
      <3>3. Physical(s) = attached[s] + Cardinality(PermitsOf(s))  BY DEF Physical
      <3>4. QED  BY <2>2, <3>1, <3>2, <3>3
    <2>4. Physical(s) \in Nat /\ Physical(s) <= PhysicalCap  BY PhysicalIs DEF WithinQuota
    <2>5. CASE Here(g, s) = {}
      <3>1. Cardinality(Here(g, s)) = 0  BY <1>4, <2>5
      <3>2. QED  BY <2>3, <2>4, <3>1
    <2>6. CASE Here(g, s) # {}  BY <1>1, <2>3, <2>6
    <2>7. QED  BY <2>5, <2>6
  <1>8. QED  BY <1>5, <1>6, <1>7 DEF WithinQuota

LEMMA ReleaseWithinQuota ==
    ASSUME AccountTypes, AccountsMatchPermits, WithinQuota,
           NEW p \in InHand, Free(p), attached' = attached
    PROVE  WithinQuota'
  <1>1. /\ AccountTypes'
        /\ \A s \in Service : /\ PermitsOf(s)' \subseteq PermitsOf(s)
                              /\ sharedUsed'[s] <= sharedUsed[s]
                              /\ \A c \in Class : /\ reservedUse'[s][c] <= reservedUse[s][c]
                                                  /\ sharedUse'[s][c] <= sharedUse[s][c]
    BY ReleaseTakesBack
  <1>2. \A s \in Service : Physical(s)' <= Physical(s) /\ Physical(s)' \in Nat
    <2> TAKE s \in Service
    <2>1. PermitsOf(s) \in SUBSET Permit  BY DEF PermitsOf, InHand
    <2>2. IsFiniteSet(PermitsOf(s)) /\ Cardinality(PermitsOf(s)) \in Nat  BY <2>1, PermitSetsFinite
    <2>3. Cardinality(PermitsOf(s)') <= Cardinality(PermitsOf(s)) /\ Cardinality(PermitsOf(s)') \in Nat
      BY <1>1, <2>2, FS_Subset, FS_CardinalityType
    <2>4. Physical(s)' = attached[s] + Cardinality(PermitsOf(s)') /\ attached[s] \in Nat
      BY DEF Physical, AccountTypes
    <2>5. QED  BY <2>2, <2>3, <2>4 DEF Physical
  <1>3. "Control" \in Class /\ {Shared, PhysicalCap} \subseteq Nat /\ Reserved \in [Class -> Nat]
    BY BudgetAssumption DEF Class
  <1>4. ASSUME NEW s \in Service
        PROVE  /\ \A c \in Class : reservedUse'[s][c] <= Reserved[c]
               /\ sharedUse'[s]["Control"] = 0 /\ sharedUsed'[s] <= Shared
               /\ Physical(s)' <= PhysicalCap
    <2>1. /\ sharedUsed[s] \in Nat /\ sharedUsed'[s] \in Nat
          /\ \A c \in Class : /\ reservedUse[s][c] \in Nat /\ reservedUse'[s][c] \in Nat
                              /\ sharedUse[s][c] \in Nat /\ sharedUse'[s][c] \in Nat
      BY <1>1 DEF AccountTypes
    <2>2. Physical(s) \in Nat  BY PhysicalIs
    <2>3. /\ \A c \in Class : reservedUse[s][c] <= Reserved[c] /\ Reserved[c] \in Nat
          /\ sharedUse[s]["Control"] = 0 /\ sharedUsed[s] <= Shared
          /\ Physical(s) <= PhysicalCap
      BY <1>3 DEF WithinQuota
    <2>4. \A c \in Class : reservedUse'[s][c] <= Reserved[c]  BY <1>1, <2>1, <2>3
    <2>5. sharedUse'[s]["Control"] = 0  BY <1>1, <1>3, <2>1, <2>3
    <2>6. sharedUsed'[s] <= Shared  BY <1>1, <1>3, <2>1, <2>3
    <2>7. Physical(s)' <= PhysicalCap  BY <1>2, <1>3, <2>2, <2>3
    <2>8. QED  BY <2>4, <2>5, <2>6, <2>7
  <1>5. QED  BY <1>4 DEF WithinQuota

AccountsInv == AccountTypes /\ AccountsMatchPermits /\ WithinQuota

LEMMA SameHoldings ==
    ASSUME UNCHANGED permits
    PROVE  /\ InHand' = InHand
           /\ \A s : PermitsOf(s)' = PermitsOf(s) /\ HeldShared(s)' = HeldShared(s)
           /\ \A s, c, slot : Held(s, c, slot)' = Held(s, c, slot)
  <1>1. InHand' = InHand  BY DEF InHand
  <1>2. \A s : PermitsOf(s)' = PermitsOf(s)  BY <1>1 DEF PermitsOf
  <1>3. QED  BY <1>1, <1>2 DEF Held, HeldShared

LEMMA SameBalance ==
    ASSUME AccountsMatchPermits, UNCHANGED <<permits, reservedUse, sharedUse, sharedUsed>>
    PROVE  AccountsMatchPermits'
  <1>1. /\ \A s : HeldShared(s)' = HeldShared(s)
        /\ \A s, c, slot : Held(s, c, slot)' = Held(s, c, slot)
    BY SameHoldings
  <1>2. ASSUME NEW s \in Service
        PROVE  sharedUsed'[s] = Cardinality(HeldShared(s)')
    BY <1>1 DEF AccountsMatchPermits
  <1>3. ASSUME NEW s \in Service, NEW c \in Class
        PROVE  /\ reservedUse'[s][c] = Cardinality(Held(s, c, "Reserved")')
               /\ sharedUse'[s][c] = Cardinality(Held(s, c, "Shared")')
    BY <1>1 DEF AccountsMatchPermits
  <1>4. QED  BY <1>2, <1>3 DEF AccountsMatchPermits

LEMMA SameAccounts ==
    ASSUME AccountsInv, UNCHANGED <<permits, reservedUse, sharedUse, sharedUsed, attached>>
    PROVE  AccountsInv'
  <1>1. AccountTypes'  BY DEF AccountsInv, AccountTypes
  <1>2. AccountsMatchPermits'  BY SameBalance DEF AccountsInv
  <1>3. \A s \in Service : Physical(s)' = Physical(s)
    <2>1. \A s : PermitsOf(s)' = PermitsOf(s)  BY SameHoldings
    <2>2. QED  BY <2>1 DEF Physical
  <1>4. WithinQuota'  BY <1>3 DEF AccountsInv, WithinQuota
  <1>5. QED  BY <1>1, <1>2, <1>4 DEF AccountsInv

LEMMA AttachKeepsAccounts ==
    ASSUME AccountsInv, NEW s \in Service, Attach(s) \/ Detach(s)
    PROVE  AccountsInv'
  <1>1. UNCHANGED <<permits, reservedUse, sharedUse, sharedUsed>>
    BY DEF Attach, Detach, accounts
  <1>2. attached' \in [Service -> Nat]
    <2>1. attached \in [Service -> Nat] /\ attached[s] \in Nat
      BY DEF AccountsInv, AccountTypes
    <2>2. CASE Attach(s)  BY <2>1, <2>2 DEF Attach
    <2>3. CASE Detach(s)
      <3>1. attached[s] - 1 \in Nat  BY <2>1, <2>3 DEF Detach
      <3>2. attached' = [attached EXCEPT ![s] = attached[s] - 1]  BY <2>3 DEF Detach
      <3>3. QED  BY <2>1, <3>1, <3>2
    <2>4. QED  BY <2>2, <2>3
  <1>3. AccountTypes'  BY <1>1, <1>2 DEF AccountsInv, AccountTypes
  <1>4. AccountsMatchPermits'  BY <1>1, SameBalance DEF AccountsInv
  <1>5. ASSUME NEW t \in Service
        PROVE  Physical(t)' <= PhysicalCap
    <2>1. PermitsOf(t)' = PermitsOf(t)  BY <1>1 DEF PermitsOf, InHand
    <2>2. PermitsOf(t) \in SUBSET Permit  BY DEF PermitsOf, InHand
    <2>3. Cardinality(PermitsOf(t)) \in Nat  BY <2>2, PermitSetsFinite
    <2>4. attached[t] \in Nat /\ PhysicalCap \in Nat
      BY BudgetAssumption DEF AccountsInv, AccountTypes
    <2>5. /\ Physical(t)' = attached'[t] + Cardinality(PermitsOf(t))
          /\ Physical(t) = attached[t] + Cardinality(PermitsOf(t))
      BY <2>1 DEF Physical
    <2>6. Physical(t) <= PhysicalCap  BY DEF AccountsInv, WithinQuota
    <2>7. attached'[t] = attached[t] \/ attached'[t] = attached[t] - 1
             \/ (attached'[t] = attached[t] + 1 /\ Physical(t) < PhysicalCap)
      BY DEF Attach, Detach, AccountsInv, AccountTypes
    <2>8. QED  BY <2>3, <2>4, <2>5, <2>6, <2>7
  <1>6. WithinQuota'  BY <1>1, <1>5 DEF AccountsInv, WithinQuota
  <1>7. QED  BY <1>3, <1>4, <1>6 DEF AccountsInv

--------------------------------------------------------------------------------
(* The queues.                                                                  *)

Once == \A e, f \in Waiters : e.id = f.id => e = f

PermitWaiters ==
    \A p, q \in InHand :
       permits[p].waiter # NoWaiter =>
          /\ permits[p].waiter \notin Queued
          /\ permits[q].waiter = permits[p].waiter => p = q

LEMMA WaitersInIs == \A s, c : WaitersIn(s, c) = EntriesOf(queue[s][c])
  BY DEF WaitersIn, EntriesOf

LEMMA WaitersAre ==
    /\ \A s \in Service, c \in Class : WaitersIn(s, c) \subseteq Waiters
    /\ \A e \in Waiters : \E s \in Service, c \in Class : e \in WaitersIn(s, c)
  BY DEF Waiters

LEMMA QueuedAre == \A e \in Waiters : e.id \in Queued
  BY DEF Queued

LEMMA FewerWaiters ==
    ASSUME \A s \in Service, c \in Class : WaitersIn(s, c)' \subseteq WaitersIn(s, c)
    PROVE  Waiters' \subseteq Waiters /\ Queued' \subseteq Queued
  <1>1. Waiters' \subseteq Waiters  BY DEF Waiters
  <1>2. QED  BY <1>1 DEF Queued

\* Waiters that leave.
LEMMA LeaveMoves ==
    ASSUME QueuesInOrder, NEW gone, Leave(gone)
    PROVE  /\ QueuesInOrder'
           /\ \A s \in Service, c \in Class : WaitersIn(s, c)' \subseteq WaitersIn(s, c)
  <1>1. queue' = [s \in Service |-> [c \in Class |-> Without(queue[s][c], gone)]]  BY DEF Leave
  <1>2. ASSUME NEW s \in Service, NEW c \in Class
        PROVE  /\ WellQueue(queue'[s][c], s, c)
               /\ WaitersIn(s, c)' \subseteq WaitersIn(s, c)
    <2>1. WellQueue(queue[s][c], s, c)  BY DEF QueuesInOrder
    <2>2. queue'[s][c] = Without(queue[s][c], gone)  BY <1>1
    <2>3. WellQueue(queue'[s][c], s, c)  BY <2>1, <2>2, WithoutIs
    <2>4. EntriesOf(queue'[s][c]) \subseteq EntriesOf(queue[s][c])  BY <2>1, <2>2, WithoutIs
    <2>5. WaitersIn(s, c)' = EntriesOf(queue'[s][c]) /\ WaitersIn(s, c) = EntriesOf(queue[s][c])
      BY DEF WaitersIn, EntriesOf
    <2>6. QED  BY <2>3, <2>4, <2>5
  <1>3. queue' \in [Service -> [Class -> Seq(Lane)]]
    <2>1. \A s \in Service, c \in Class : queue'[s][c] \in Seq(Lane)  BY <1>2 DEF WellQueue
    <2>2. \A s \in Service, c \in Class : Without(queue[s][c], gone) \in Seq(Lane)  BY <1>1, <2>1
    <2>3. QED  BY <1>1, <2>2
  <1>4. QED  BY <1>2, <1>3 DEF QueuesInOrder

LEMMA OneQueueChanges ==
    ASSUME QueuesInOrder, NEW s \in Service, NEW c \in Class, NEW lanes, WellQueue(lanes, s, c),
           queue' \in [Service -> [Class -> Seq(Lane)]],
           \A t \in Service, d \in Class :
              queue'[t][d] = IF t = s /\ d = c THEN lanes ELSE queue[t][d]
    PROVE  /\ QueuesInOrder'
           /\ \A t \in Service, d \in Class : WaitersIn(t, d)' =
                 IF t = s /\ d = c THEN EntriesOf(lanes) ELSE WaitersIn(t, d)
  <1>1. \A t \in Service, d \in Class : WellQueue(queue'[t][d], t, d)  BY DEF QueuesInOrder
  <1>2. \A t, d : /\ WaitersIn(t, d)' = EntriesOf(queue'[t][d])
                  /\ WaitersIn(t, d) = EntriesOf(queue[t][d])
    BY DEF WaitersIn, EntriesOf
  <1>3. QED  BY <1>1, <1>2 DEF QueuesInOrder

\* The waiter that is served leaves, and no other comes.
LEMMA ServeMoves ==
    ASSUME QueuesInOrder, Once, NEW s \in Service, NEW c \in Class, queue[s][c] # <<>>,
           Pops(s, c),
           NEW e, e = Head(Head(queue[s][c]).waiters)
    PROVE  /\ QueuesInOrder'
           /\ e \in Entry /\ e.claim.service = s /\ e.claim.class = c
           /\ \A t \in Service, d \in Class : WaitersIn(t, d)' \subseteq WaitersIn(t, d)
           /\ e \in Waiters /\ \A f \in Waiters' : f.id # e.id
  <1> DEFINE lanes == queue[s][c]
  <1>1. WellQueue(lanes, s, c)  BY DEF QueuesInOrder
  <1>2. /\ e \in EntriesOf(lanes)
        /\ WellQueue(Popped(lanes), s, c)
        /\ \A f \in EntriesOf(Popped(lanes)) : f \in EntriesOf(lanes) /\ f # e
    BY <1>1, PoppedIs
  <1>3. /\ QueuesInOrder'
        /\ \A t \in Service, d \in Class : WaitersIn(t, d)' =
              IF t = s /\ d = c THEN EntriesOf(Popped(lanes)) ELSE WaitersIn(t, d)
    <2>1. PICK left : left = Popped(lanes)  OBVIOUS
    <2>2. queue' = [queue EXCEPT ![s][c] = left] /\ WellQueue(left, s, c)
      BY <1>2, <2>1 DEF Pops
    <2>3. /\ queue' \in [Service -> [Class -> Seq(Lane)]]
           /\ \A t \in Service, d \in Class :
                 queue'[t][d] = IF t = s /\ d = c THEN left ELSE queue[t][d]
      BY <2>2 DEF QueuesInOrder, WellQueue
    <2>4. /\ QueuesInOrder'
          /\ \A t \in Service, d \in Class : WaitersIn(t, d)' =
                IF t = s /\ d = c THEN EntriesOf(left) ELSE WaitersIn(t, d)
      BY <2>2, <2>3, OneQueueChanges
    <2>5. QED  BY <2>1, <2>4
  <1>4. WaitersIn(s, c) = EntriesOf(lanes)  BY WaitersInIs
  <1>5. \A t \in Service, d \in Class : WaitersIn(t, d)' \subseteq WaitersIn(t, d)
    BY <1>2, <1>3, <1>4
  <1>6. e \in Waiters  BY <1>2, <1>4, WaitersAre
  <1>7. e \in Entry /\ e.claim.service = s /\ e.claim.class = c  BY <1>1, <1>2, EntriesBelong
  <1>8. ASSUME NEW f \in Waiters' PROVE f.id # e.id
    <2>1. PICK t \in Service, d \in Class : f \in WaitersIn(t, d)'  BY DEF Waiters
    <2>2. f \in WaitersIn(t, d) /\ f \in Waiters  BY <1>5, <2>1, WaitersAre
    <2>3. CASE t = s /\ d = c  BY <1>2, <1>3, <1>6, <2>1, <2>2, <2>3 DEF Once
    <2>4. CASE ~(t = s /\ d = c)
      <3>1. f \in EntriesOf(queue[t][d]) /\ WellQueue(queue[t][d], t, d)
        BY <2>2, WaitersInIs DEF QueuesInOrder
      <3>2. f.claim.service = t /\ f.claim.class = d  BY <3>1, EntriesBelong
      <3>3. f # e  BY <1>7, <2>4, <3>2
      <3>4. QED  BY <1>6, <2>2, <3>3 DEF Once
    <2>5. QED  BY <2>3, <2>4
  <1>9. QED  BY <1>3, <1>5, <1>6, <1>7, <1>8

\* One more waiter, in the queue of its claim.
LEMMA EnqueueMoves ==
    ASSUME QueuesInOrder, NEW claim \in Claim, NEW w \in Waiter, Enqueue(claim, w)
    PROVE  LET e == [id |-> w, claim |-> claim]
               s == claim.service
               c == claim.class
           IN /\ QueuesInOrder'
              /\ s \in Service /\ c \in Class /\ e \in Entry
              /\ \A t \in Service, d \in Class : WaitersIn(t, d)' =
                    IF t = s /\ d = c THEN WaitersIn(s, c) \cup {e} ELSE WaitersIn(t, d)
              /\ w \notin Queued
  <1> DEFINE e == [id |-> w, claim |-> claim]
             s == claim.service
             c == claim.class
             lanes == queue[s][c]
  <1>1. claim \in ClaimType /\ s \in Service /\ c \in Class  BY BudgetAssumption DEF ClaimType
  <1>2. e \in Entry /\ e.claim.service = s /\ e.claim.class = c /\ e.id = w  BY <1>1 DEF Entry
  <1>3. w \notin Queued  BY DEF Enqueue, Fresh
  <1>4. queue' = [queue EXCEPT ![s][c] = Pushed(@, e)]  BY DEF Enqueue
  <1>5. WellQueue(lanes, s, c)  BY <1>1 DEF QueuesInOrder
  <1>6. WaitersIn(s, c) = EntriesOf(lanes)  BY WaitersInIs
  <1>7. \A f \in EntriesOf(lanes) : f.id # w
    BY <1>1, <1>3, <1>6, WaitersAre, QueuedAre
  <1> HIDE DEF e
  <1>8. /\ WellQueue(Pushed(lanes, e), s, c)
        /\ EntriesOf(Pushed(lanes, e)) = EntriesOf(lanes) \cup {e}
    BY <1>2, <1>5, <1>7, PushedIs
  <1>9. queue' = [queue EXCEPT ![s][c] = Pushed(lanes, e)]  BY <1>4
  <1>10. /\ QueuesInOrder'
         /\ \A t \in Service, d \in Class : WaitersIn(t, d)' =
               IF t = s /\ d = c THEN EntriesOf(Pushed(lanes, e)) ELSE WaitersIn(t, d)
    <2>1. PICK more : more = Pushed(lanes, e)  OBVIOUS
    <2>2. queue' = [queue EXCEPT ![s][c] = more] /\ WellQueue(more, s, c)  BY <1>8, <1>9, <2>1
    <2>3. PICK t \in Service, d \in Class : t = s /\ d = c  BY <1>1
    <2> HIDE DEF s, c
    <2>4. queue' = [queue EXCEPT ![t][d] = more] /\ WellQueue(more, t, d)  BY <2>2, <2>3
    <2>5. /\ queue' \in [Service -> [Class -> Seq(Lane)]]
           /\ \A x \in Service, y \in Class :
                 queue'[x][y] = IF x = t /\ y = d THEN more ELSE queue[x][y]
      BY <2>4 DEF QueuesInOrder, WellQueue
    <2>6. /\ QueuesInOrder'
          /\ \A x \in Service, y \in Class : WaitersIn(x, y)' =
                IF x = t /\ y = d THEN EntriesOf(more) ELSE WaitersIn(x, y)
      BY <2>4, <2>5, OneQueueChanges
    <2>7. QED  BY <2>1, <2>3, <2>6
  <1>11. QED  BY <1>1, <1>2, <1>3, <1>6, <1>8, <1>10 DEF e

QueuesInv == QueuesInOrder /\ Once /\ PermitWaiters

LEMMA SameQueues ==
    ASSUME UNCHANGED queue
    PROVE  /\ \A s, c : WaitersIn(s, c)' = WaitersIn(s, c)
           /\ Waiters' = Waiters /\ Queued' = Queued
           /\ QueuesInOrder => QueuesInOrder'
  <1>1. \A s, c : WaitersIn(s, c)' = WaitersIn(s, c)  BY DEF WaitersIn
  <1>2. Waiters' = Waiters  BY <1>1 DEF Waiters
  <1>3. Queued' = Queued  BY <1>2 DEF Queued
  <1>4. QueuesInOrder => QueuesInOrder'  BY DEF QueuesInOrder
  <1>5. QED  BY <1>1, <1>2, <1>3, <1>4

LEMMA QueuesPreserved ==
    ASSUME AccountsInv, QueuesInv,
           \/ RestStep \/ AttachStep \/ AdmitStep \/ ServeStep
           \/ EnqueueStep \/ LeaveStep \/ ReleaseStep
    PROVE  QueuesInv'
  <1>1. CASE UNCHANGED <<permits, queue>>
    <2>1. InHand' = InHand /\ QueuesInOrder' /\ Waiters' = Waiters /\ Queued' = Queued
      BY <1>1, SameHoldings, SameQueues DEF QueuesInv
    <2>2. Once'  BY <2>1 DEF QueuesInv, Once
    <2>3. PermitWaiters'  BY <1>1, <2>1 DEF QueuesInv, PermitWaiters
    <2>4. QED  BY <2>1, <2>2, <2>3 DEF QueuesInv
  <1>2. CASE RestStep  BY <1>1, <1>2 DEF RestStep
  <1>3. CASE AttachStep
    <2>1. UNCHANGED <<permits, queue>>  BY <1>3 DEF AttachStep, Attach, Detach, accounts
    <2>2. QED  BY <1>1, <2>1
  <1>4. CASE AdmitStep
    <2>1. PICK g : Grants(g) /\ \A p \in DOMAIN g : g[p].waiter = NoWaiter  BY <1>4 DEF AdmitStep
    <2>2. /\ InHand' = InHand \cup DOMAIN g
          /\ \A p \in DOMAIN g : permits'[p] = g[p]
          /\ \A p \in InHand : permits'[p] = permits[p]
      BY <2>1, GrantsAdd DEF AccountsInv
    <2>3. queue' = queue  BY <1>4 DEF AdmitStep
    <2>4. QueuesInOrder' /\ Waiters' = Waiters /\ Queued' = Queued
      BY <2>3, SameQueues DEF QueuesInv
    <2>5. Once'  BY <2>4 DEF QueuesInv, Once
    <2>6. PermitWaiters'
      <3>1. \A p \in InHand' : permits'[p].waiter # NoWaiter => p \in InHand  BY <2>1, <2>2
      <3>2. QED  BY <2>2, <2>4, <3>1 DEF QueuesInv, PermitWaiters
    <2>7. QED  BY <2>4, <2>5, <2>6 DEF QueuesInv
  <1>5. CASE ServeStep
    <2>1. PICK s \in Service, c \in Class, p \in Permit, slot \in {"Reserved", "Shared"} :
             LET e == Head(Head(queue[s][c]).waiters)
             IN /\ queue[s][c] # <<>>
                /\ Grants([q \in {p} |-> [claim |-> ClaimOf(e.claim), slot |-> slot, waiter |-> e.id]])
                /\ Pops(s, c)
      BY <1>5, Zenon DEF ServeStep
    <2>2. PICK e : e = Head(Head(queue[s][c]).waiters)  OBVIOUS
    <2>3. PICK g : g = [q \in {p} |-> [claim |-> ClaimOf(e.claim), slot |-> slot, waiter |-> e.id]]
      OBVIOUS
    <2>4. Grants(g) /\ queue[s][c] # <<>> /\ Pops(s, c)
      BY <2>1, <2>2, <2>3
    <2>5. DOMAIN g = {p} /\ g[p].waiter = e.id  BY <2>3
    <2>6. /\ InHand' = InHand \cup DOMAIN g
          /\ \A q \in DOMAIN g : permits'[q] = g[q]
          /\ \A q \in InHand : permits'[q] = permits[q]
      BY <2>4, GrantsAdd DEF AccountsInv
    <2>7. /\ QueuesInOrder'
          /\ \A t \in Service, d \in Class : WaitersIn(t, d)' \subseteq WaitersIn(t, d)
          /\ e \in Waiters /\ \A f \in Waiters' : f.id # e.id
      BY <2>2, <2>4, ServeMoves DEF QueuesInv
    <2>8. Waiters' \subseteq Waiters /\ Queued' \subseteq Queued  BY <2>7, FewerWaiters
    <2>9. Once'  BY <2>8 DEF QueuesInv, Once
    <2>10. e.id \in Queued /\ e.id \notin Queued'  BY <2>7, QueuedAre DEF Queued
    <2>11. \A q \in InHand : permits[q].waiter # NoWaiter => permits[q].waiter # e.id
      BY <2>10 DEF QueuesInv, PermitWaiters
    <2>12. ASSUME NEW x \in InHand', NEW y \in InHand', permits'[x].waiter # NoWaiter
           PROVE  /\ permits'[x].waiter \notin Queued'
                  /\ permits'[y].waiter = permits'[x].waiter => x = y
      <3>1. CASE x \in InHand /\ y \in InHand
        BY <2>6, <2>8, <2>12, <3>1 DEF QueuesInv, PermitWaiters
      <3>2. CASE x = p
        <4>1. permits'[x].waiter = e.id  BY <2>5, <2>6, <3>2
        <4>2. y \in InHand /\ y # p => permits'[y].waiter # e.id  BY <2>6, <2>11, <2>12, <4>1
        <4>3. QED  BY <2>5, <2>6, <2>10, <3>2, <4>1, <4>2
      <3>3. CASE x \in InHand /\ x # p /\ y = p
        <4>1. permits'[y].waiter = e.id /\ permits'[x].waiter = permits[x].waiter
          BY <2>5, <2>6, <3>3
        <4>2. permits'[x].waiter # e.id  BY <2>11, <2>12, <3>3, <4>1
        <4>3. permits'[x].waiter \notin Queued
          BY <2>12, <3>3, <4>1 DEF QueuesInv, PermitWaiters
        <4>4. QED  BY <2>8, <4>1, <4>2, <4>3
      <3>4. QED  BY <2>5, <2>6, <3>1, <3>2, <3>3
    <2>13. PermitWaiters'  BY <2>12 DEF PermitWaiters
    <2>14. QED  BY <2>7, <2>9, <2>13, SMTT(60) DEF QueuesInv
  <1>6. CASE EnqueueStep
    <2>1. PICK claim \in Claim, w \in Waiter : Enqueue(claim, w)  BY <1>6 DEF EnqueueStep
    <2>2. PICK e : e = [id |-> w, claim |-> claim]  OBVIOUS
    <2>3. /\ QueuesInOrder' /\ w \notin Queued
          /\ \A t \in Service, d \in Class : \A f \in WaitersIn(t, d)' : f = e \/ f \in WaitersIn(t, d)
      BY <2>1, <2>2, EnqueueMoves DEF QueuesInv
    <2>4. \A f \in Waiters' : f = e \/ f \in Waiters
      <3> TAKE f \in Waiters'
      <3>1. PICK t \in Service, d \in Class : f \in WaitersIn(t, d)'  BY DEF Waiters
      <3>2. QED  BY <2>3, <3>1, WaitersAre
    <2>5. e.id = w /\ \A f \in Waiters : f.id # w  BY <2>2, <2>3, QueuedAre
    <2>6. Once'  BY <2>4, <2>5 DEF QueuesInv, Once
    <2>7. \A x \in Queued' : x = w \/ x \in Queued  BY <2>4, <2>5 DEF Queued
    <2>8. permits' = permits /\ \A p \in InHand : permits[p].waiter # w
      BY <2>1 DEF Enqueue, Fresh, accounts
    <2>9. InHand' = InHand  BY <2>8, SameHoldings
    <2>10. PermitWaiters'  BY <2>7, <2>8, <2>9 DEF QueuesInv, PermitWaiters
    <2>11. QED  BY <2>3, <2>6, <2>10 DEF QueuesInv
  <1>7. CASE LeaveStep
    <2>1. PICK gone : Leave(gone)  BY <1>7 DEF LeaveStep
    <2>2. QueuesInOrder' /\ Waiters' \subseteq Waiters /\ Queued' \subseteq Queued
      BY <2>1, LeaveMoves, FewerWaiters DEF QueuesInv
    <2>3. permits' = permits /\ InHand' = InHand  BY <1>7, SameHoldings DEF LeaveStep
    <2>4. Once'  BY <2>2 DEF QueuesInv, Once
    <2>5. PermitWaiters'  BY <2>2, <2>3 DEF QueuesInv, PermitWaiters
    <2>6. QED  BY <2>2, <2>4, <2>5 DEF QueuesInv
  <1>8. CASE ReleaseStep
    <2>1. PICK p \in Permit : Release(p)  BY <1>8 DEF ReleaseStep
    <2>2. p \in InHand /\ Free(p) /\ attached' = attached /\ queue' = queue  BY <2>1 DEF Release
    <2>3. InHand' = InHand \ {p} /\ \A q \in InHand' : permits'[q] = permits[q]
      BY <2>2, ReleaseTakesBack DEF AccountsInv
    <2>4. QueuesInOrder' /\ Waiters' = Waiters /\ Queued' = Queued
      BY <2>2, SameQueues DEF QueuesInv
    <2>5. Once'  BY <2>4 DEF QueuesInv, Once
    <2>6. PermitWaiters'  BY <2>3, <2>4 DEF QueuesInv, PermitWaiters
    <2>7. QED  BY <2>4, <2>5, <2>6 DEF QueuesInv
  <1>9. QED  BY <1>2, <1>3, <1>4, <1>5, <1>6, <1>7, <1>8

LEMMA AccountsPreserved ==
    ASSUME AccountsInv,
           \/ RestStep \/ AttachStep \/ AdmitStep \/ ServeStep
           \/ EnqueueStep \/ LeaveStep \/ ReleaseStep
    PROVE  AccountsInv'
  <1>1. ASSUME NEW g, Grants(g) PROVE AccountsInv'
    BY <1>1, GrantsAdd, GrantsBalance, GrantsWithinQuota DEF AccountsInv
  <1>2. CASE RestStep \/ LeaveStep  BY <1>2, SameAccounts DEF RestStep, LeaveStep
  <1>3. CASE AttachStep  BY <1>3, AttachKeepsAccounts DEF AttachStep
  <1>4. CASE AdmitStep  BY <1>1, <1>4 DEF AdmitStep
  <1>5. CASE ServeStep
    <2>1. \E g : Grants(g)  BY <1>5, Zenon DEF ServeStep
    <2>2. QED  BY <1>1, <2>1, SMTT(60)
  <1>6. CASE EnqueueStep
    <2>1. UNCHANGED <<permits, reservedUse, sharedUse, sharedUsed, attached>>
      BY <1>6 DEF EnqueueStep, Enqueue, accounts
    <2>2. QED  BY <2>1, SameAccounts
  <1>7. CASE ReleaseStep
    <2>1. PICK p \in InHand : Free(p) /\ attached' = attached  BY <1>7 DEF ReleaseStep, Release
    <2>2. QED  BY <2>1, ReleaseTakesBack, ReleaseWithinQuota DEF AccountsInv
  <1>8. QED  BY <1>2, <1>3, <1>4, <1>5, <1>6, <1>7

--------------------------------------------------------------------------------
(* The limits of the queues.                                                    *)

LEMMA RangeFinite ==
    ASSUME NEW S, NEW seq \in Seq(S), NEW T,
           \A x \in T : \E i \in DOMAIN seq : x = seq[i]
    PROVE  IsFiniteSet(T)
  <1> DEFINE at == {i \in DOMAIN seq : seq[i] \in T}
             f == [i \in at |-> seq[i]]
  <1>1. Len(seq) \in Nat /\ DOMAIN seq = 1..Len(seq)  OBVIOUS
  <1>2. IsFiniteSet(1..Len(seq))  BY <1>1, FS_Interval
  <1>3. IsFiniteSet(at)  BY <1>1, <1>2, FS_Subset
  <1>4. f \in Surjection(at, T)  BY DEF Surjection
  <1>5. QED  BY <1>3, <1>4, FS_Surjection

LEMMA QueueFinite ==
    ASSUME NEW s, NEW c, NEW lanes, WellQueue(lanes, s, c)
    PROVE  IsFiniteSet(EntriesOf(lanes))
  <1> DEFINE parts == {LaneWaiters(lanes[i]) : i \in DOMAIN lanes}
             whole == [i \in DOMAIN lanes |-> LaneWaiters(lanes[i])]
  <1>1. lanes \in Seq(Lane) /\ Len(lanes) \in Nat /\ DOMAIN lanes = 1..Len(lanes)
    BY DEF WellQueue
  <1>2. whole \in Seq(parts)  BY <1>1
  <1>3. IsFiniteSet(parts)
    <2>1. \A x \in parts : \E i \in DOMAIN whole : x = whole[i]  OBVIOUS
    <2> HIDE DEF parts, whole
    <2>2. QED  BY <1>2, <2>1, RangeFinite
  <1>4. ASSUME NEW i \in DOMAIN lanes PROVE IsFiniteSet(LaneWaiters(lanes[i]))
    <2>1. lanes[i].waiters \in Seq(Entry)
      <3> HIDE DEF parts, whole
      <3>1. lanes[i] \in Lane  BY <1>1
      <3>2. QED  BY <3>1 DEF Lane
    <2>2. \A x \in LaneWaiters(lanes[i]) : \E k \in DOMAIN lanes[i].waiters : x = lanes[i].waiters[k]
      BY DEF LaneWaiters
    <2>3. QED  BY <2>1, <2>2, RangeFinite
  <1>5. \A T \in parts : IsFiniteSet(T)  BY <1>4
  <1>6. EntriesOf(lanes) = UNION parts  BY DEF EntriesOf
  <1> HIDE DEF parts
  <1>7. QED  BY <1>3, <1>5, <1>6, FS_UNION

InService(s) == UNION {WaitersIn(s, c) : c \in Class}
OfUser(s, u) == {e \in InService(s) : e.claim.principal = u}

LEMMA UserDepthIs == \A s, u : UserDepth(s, u) = Cardinality(OfUser(s, u))
  BY DEF UserDepth, OfUser, InService

LEMMA WaitersFinite ==
    ASSUME QueuesInOrder, NEW s \in Service
    PROVE  /\ \A c \in Class : IsFiniteSet(WaitersIn(s, c)) /\ Depth(s, c) \in Nat
           /\ \A u : IsFiniteSet(OfUser(s, u)) /\ Cardinality(OfUser(s, u)) \in Nat
  <1>1. ASSUME NEW c \in Class PROVE IsFiniteSet(WaitersIn(s, c))
    <2>1. WellQueue(queue[s][c], s, c)  BY DEF QueuesInOrder
    <2>2. QED  BY <2>1, QueueFinite, WaitersInIs
  <1>2. \A c \in Class : Depth(s, c) \in Nat  BY <1>1, FS_CardinalityType DEF Depth
  <1> DEFINE a == WaitersIn(s, "Control") \cup WaitersIn(s, "Interactive")
             b == WaitersIn(s, "Metadata") \cup WaitersIn(s, "Job")
  <1>3. IsFiniteSet(a)
    <2>1. "Control" \in Class /\ "Interactive" \in Class  BY DEF Class
    <2>2. QED  BY <1>1, <2>1, FS_Union
  <1>4. IsFiniteSet(b)
    <2>1. "Metadata" \in Class /\ "Job" \in Class  BY DEF Class
    <2>2. QED  BY <1>1, <2>1, FS_Union
  <1>5. InService(s) = a \cup b  BY DEF InService, Class
  <1> HIDE DEF a, b
  <1>6. IsFiniteSet(InService(s))  BY <1>3, <1>4, <1>5, FS_Union
  <1>7. ASSUME NEW u PROVE IsFiniteSet(OfUser(s, u)) /\ Cardinality(OfUser(s, u)) \in Nat
    <2>1. OfUser(s, u) \in SUBSET InService(s)  BY DEF OfUser
    <2>2. QED  BY <1>6, <2>1, FS_Subset, FS_CardinalityType
  <1>8. QED  BY <1>1, <1>2, <1>7

LEMMA FewerWithinCaps ==
    ASSUME QueuesInOrder, QueuesWithinCaps,
           \A s \in Service, c \in Class : WaitersIn(s, c)' \subseteq WaitersIn(s, c)
    PROVE  QueuesWithinCaps'
  <1> SUFFICES ASSUME NEW s \in Service
               PROVE  /\ \A c \in Class : Depth(s, c)' <= ClassQueueCap
                      /\ \A u \in Principal : UserDepth(s, u)' <= UserQueueCap
    BY DEF QueuesWithinCaps
  <1>1. ClassQueueCap \in Nat /\ UserQueueCap \in Nat  BY BudgetAssumption
  <1>2. ASSUME NEW c \in Class PROVE Depth(s, c)' <= ClassQueueCap
    <2>1. IsFiniteSet(WaitersIn(s, c)) /\ WaitersIn(s, c)' \in SUBSET WaitersIn(s, c)
      BY WaitersFinite
    <2>2. /\ Cardinality(WaitersIn(s, c)') <= Cardinality(WaitersIn(s, c))
          /\ Cardinality(WaitersIn(s, c)') \in Nat /\ Cardinality(WaitersIn(s, c)) \in Nat
      BY <2>1, FS_Subset, FS_CardinalityType
    <2>3. Cardinality(WaitersIn(s, c)) <= ClassQueueCap  BY DEF QueuesWithinCaps, Depth
    <2>4. QED  BY <1>1, <2>2, <2>3 DEF Depth
  <1>3. ASSUME NEW u \in Principal PROVE UserDepth(s, u)' <= UserQueueCap
    <2>1. OfUser(s, u)' \in SUBSET OfUser(s, u)  BY DEF OfUser, InService
    <2>2. IsFiniteSet(OfUser(s, u))  BY WaitersFinite
    <2>3. /\ Cardinality(OfUser(s, u)') <= Cardinality(OfUser(s, u))
          /\ Cardinality(OfUser(s, u)') \in Nat /\ Cardinality(OfUser(s, u)) \in Nat
      BY <2>1, <2>2, FS_Subset, FS_CardinalityType
    <2>4. Cardinality(OfUser(s, u)) <= UserQueueCap  BY UserDepthIs DEF QueuesWithinCaps
    <2>5. UserDepth(s, u)' = Cardinality(OfUser(s, u)')  BY DEF UserDepth, OfUser, InService
    <2>6. QED  BY <1>1, <2>3, <2>4, <2>5
  <1>4. QED  BY <1>2, <1>3

LEMMA EnqueueWithinCaps ==
    ASSUME QueuesInOrder, QueuesWithinCaps, NEW claim \in Claim, NEW w \in Waiter, Enqueue(claim, w)
    PROVE  QueuesWithinCaps'
  <1>1. PICK e : e = [id |-> w, claim |-> claim]  OBVIOUS
  <1>2. PICK t \in Service, d \in Class : t = claim.service /\ d = claim.class
    BY BudgetAssumption DEF ClaimType
  <1>3. \A s \in Service, c \in Class : WaitersIn(s, c)' =
           IF s = t /\ c = d THEN WaitersIn(t, d) \cup {e} ELSE WaitersIn(s, c)
    BY <1>1, <1>2, EnqueueMoves
  <1>4. /\ Depth(t, d) < ClassQueueCap
        /\ UserDepth(t, claim.principal) < UserQueueCap
    BY <1>2 DEF Enqueue, QueueHasRoom
  <1>5. ClassQueueCap \in Nat /\ UserQueueCap \in Nat  BY BudgetAssumption
  <1>6. ASSUME NEW S, IsFiniteSet(S), NEW T \in SUBSET (S \cup {e})
        PROVE  Cardinality(T) \in Nat /\ Cardinality(S) \in Nat /\ Cardinality(T) <= Cardinality(S) + 1
    <2>1. IsFiniteSet(S \cup {e}) /\ Cardinality(S \cup {e}) <= Cardinality(S) + 1 /\ Cardinality(S) \in Nat
      <3>1. Cardinality(S) \in Nat  BY <1>6, FS_CardinalityType
      <3>2. /\ IsFiniteSet(S \cup {e})
            /\ Cardinality(S \cup {e}) = IF e \in S THEN Cardinality(S) ELSE Cardinality(S) + 1
        BY <1>6, FS_AddElement
      <3>3. QED  BY <3>1, <3>2
    <2>2. /\ Cardinality(T) <= Cardinality(S \cup {e})
          /\ Cardinality(T) \in Nat /\ Cardinality(S \cup {e}) \in Nat
      BY <2>1, FS_Subset, FS_CardinalityType
    <2>3. QED  BY <2>1, <2>2
  <1>7. ASSUME NEW s \in Service, NEW c \in Class PROVE Depth(s, c)' <= ClassQueueCap
    <2>1. Depth(s, c) <= ClassQueueCap  BY DEF QueuesWithinCaps
    <2>2. CASE s = t /\ c = d
      <3>1. WaitersIn(t, d)' = WaitersIn(t, d) \cup {e}  BY <1>3
      <3>2. IsFiniteSet(WaitersIn(t, d))  BY WaitersFinite
      <3>3. /\ Cardinality(WaitersIn(t, d)') \in Nat /\ Cardinality(WaitersIn(t, d)) \in Nat
            /\ Cardinality(WaitersIn(t, d)') <= Cardinality(WaitersIn(t, d)) + 1
        BY <1>6, <3>1, <3>2
      <3>4. Cardinality(WaitersIn(t, d)) < ClassQueueCap  BY <1>4 DEF Depth
      <3>5. Cardinality(WaitersIn(t, d)') <= ClassQueueCap  BY <1>5, <3>3, <3>4
      <3>6. QED  BY <2>2, <3>5 DEF Depth
    <2>3. CASE ~(s = t /\ c = d)
      <3>1. WaitersIn(s, c)' = WaitersIn(s, c)  BY <1>3, <2>3
      <3>2. QED  BY <2>1, <3>1 DEF Depth
    <2>4. QED  BY <2>2, <2>3
  <1>8. ASSUME NEW s \in Service, NEW u \in Principal PROVE UserDepth(s, u)' <= UserQueueCap
    <2>1. \A f \in InService(s)' : f \in InService(s) \/ (s = t /\ f = e)  BY <1>3 DEF InService
    <2>2. UserDepth(s, u)' = Cardinality(OfUser(s, u)')  BY DEF UserDepth, OfUser, InService
    <2>3. UserDepth(s, u) = Cardinality(OfUser(s, u)) /\ UserDepth(s, u) <= UserQueueCap
      BY UserDepthIs DEF QueuesWithinCaps
    <2>4. IsFiniteSet(OfUser(s, u))  BY WaitersFinite
    <2>5. e.claim.principal = claim.principal  BY <1>1
    <2>6. CASE s = t /\ u = claim.principal
      <3>1. OfUser(s, u)' \in SUBSET (OfUser(s, u) \cup {e})  BY <2>1 DEF OfUser
      <3>2. /\ Cardinality(OfUser(s, u)') \in Nat /\ Cardinality(OfUser(s, u)) \in Nat
            /\ Cardinality(OfUser(s, u)') <= Cardinality(OfUser(s, u)) + 1
        BY <1>6, <2>4, <3>1
      <3>3. Cardinality(OfUser(s, u)) < UserQueueCap  BY <1>4, <2>3, <2>6
      <3>4. QED  BY <1>5, <2>2, <3>2, <3>3
    <2>7. CASE ~(s = t /\ u = claim.principal)
      <3>1. OfUser(s, u)' \in SUBSET OfUser(s, u)  BY <2>1, <2>5, <2>7 DEF OfUser
      <3>2. /\ Cardinality(OfUser(s, u)') <= Cardinality(OfUser(s, u))
            /\ Cardinality(OfUser(s, u)') \in Nat /\ Cardinality(OfUser(s, u)) \in Nat
        BY <2>4, <3>1, FS_Subset, FS_CardinalityType
      <3>3. QED  BY <1>5, <2>2, <2>3, <3>2
    <2>8. QED  BY <2>6, <2>7
  <1>9. QED  BY <1>7, <1>8 DEF QueuesWithinCaps

--------------------------------------------------------------------------------
(* The rest of the types.                                                       *)

OtherTypes ==
    /\ known \subseteq Service
    /\ late \subseteq Waiter
    /\ credit \in [Service -> [SharedMembers -> Int]]
    /\ draining \subseteq Service /\ drainingOrgs \subseteq Org
    /\ drainingNodes \subseteq Worker
    /\ pump \in [service : Service \cup {NoService}, todo : SUBSET Service, last : 0..4]

LEMMA PickIs ==
    ASSUME NEW active \in SUBSET SharedMembers, active # {},
           NEW k \in [SharedMembers -> Int]
    PROVE  /\ AfterPick(k, active) \in [SharedMembers -> Int]
           /\ \A c \in SharedMembers :
                 AfterPick(k, active)[c] = k[c] + Share(c, active)
                                           - (IF c = Chosen(k, active) THEN Total(active) ELSE 0)
  <1> DEFINE earned == Earned(k, active)
             chosen == Chosen(k, active)
             left == earned[chosen] - Total(active)
  <1>1. \A c \in SharedMembers : Share(c, active) \in Int  BY DEF Share, SharedMembers, Weight
  <1>2. earned \in [SharedMembers -> Int] /\ \A c \in SharedMembers : earned[c] = k[c] + Share(c, active)
    BY <1>1 DEF Earned
  <1>3. Total(active) \in Int  BY <1>1 DEF Total, SharedMembers
  <1>4. AfterPick(k, active) = [earned EXCEPT ![chosen] = left]  BY Zenon DEF AfterPick
  <1>5. chosen \in SharedMembers  BY ChosenIs
  <1>6. left \in Int /\ left = earned[chosen] - Total(active)  BY <1>2, <1>3, <1>5
  <1> HIDE DEF earned, chosen, left
  <1>7. /\ [earned EXCEPT ![chosen] = left] \in [SharedMembers -> Int]
        /\ \A c \in SharedMembers : [earned EXCEPT ![chosen] = left][c] = IF c = chosen THEN left ELSE earned[c]
    BY <1>2, <1>5, <1>6
  <1>8. \A c \in SharedMembers : AfterPick(k, active)[c] = IF c = chosen THEN left ELSE earned[c]
    BY <1>4, <1>7
  <1>9. ASSUME NEW c \in SharedMembers
        PROVE AfterPick(k, active)[c] = k[c] + Share(c, active) - (IF c = chosen THEN Total(active) ELSE 0)
    BY <1>1, <1>2, <1>3, <1>6, <1>8
  <1>10. QED  BY <1>4, <1>7, <1>9 DEF chosen

LEMMA VisitTypes ==
    ASSUME NEW todo \in SUBSET Service, Visit(todo)
    PROVE  pump' \in [service : Service \cup {NoService}, todo : SUBSET Service, last : 0..4]
  <1>1. CASE todo = {}
    <2>1. pump' = [service |-> NoService, todo |-> {}, last |-> 0]  BY <1>1 DEF Visit, Idle
    <2>2. QED  BY <2>1
  <1>2. CASE todo # {}
    <2>1. PICK s \in todo : pump' = [service |-> s, todo |-> todo \ {s}, last |-> 0]
      BY <1>2 DEF Visit
    <2>2. QED  BY <2>1
  <1>3. QED  BY <1>1, <1>2

LEMMA OtherTypesPreserved ==
    ASSUME OtherTypes, LedgerNext
    PROVE  OtherTypes'
  <1> USE DEF OtherTypes
  <1>1. CASE \E s \in Service : Ensure(s) \/ Attach(s) \/ Detach(s) \/ DrainConnection(s)
    BY <1>1 DEF Ensure, Attach, Detach, DrainConnection, drains
  <1>2. CASE \E claim \in Claim : \/ \E p \in Permit : Admit(claim, p)
                                  \/ \E w \in Waiter : Enqueue(claim, w)
    <2> PICK claim \in Claim : \/ \E p \in Permit : Admit(claim, p)
                               \/ \E w \in Waiter : Enqueue(claim, w)
      BY <1>2
    <2>1. claim.service \in Service  BY BudgetAssumption DEF ClaimType
    <2>2. CASE \E p \in Permit : Admit(claim, p)  BY <2>1, <2>2 DEF Admit, drains
    <2>3. CASE \E w \in Waiter : Enqueue(claim, w)  BY <2>3 DEF Enqueue, drains
    <2>4. QED  BY <2>2, <2>3
  <1>3. CASE \E ids \in SUBSET Permit : ids # {} /\ \E claims \in [ids -> Claim] : AdmitMany(claims)
    <2> PICK ids \in SUBSET Permit : \E claims \in [ids -> Claim] : AdmitMany(claims)  BY <1>3
    <2> PICK claims \in [ids -> Claim] : AdmitMany(claims)  OBVIOUS
    <2>1. \A p \in DOMAIN claims : claims[p].service \in Service  BY BudgetAssumption DEF ClaimType
    <2>2. known' \subseteq Service  BY <2>1 DEF AdmitMany
    <2>3. UNCHANGED <<late, credit, draining, drainingOrgs, drainingNodes, pump>>
      BY DEF AdmitMany, drains
    <2>4. QED  BY <2>2, <2>3
  <1>4. CASE \E w \in Waiter : Cancel(w) \/ Elapse(w)  BY <1>4 DEF Cancel, Elapse, drains
  <1>5. CASE \E p \in Permit : Release(p)  BY <1>5 DEF Release, drains
  <1>6. CASE \/ \E o \in Org : DrainOrganization(o)
             \/ \E n \in Worker : DrainNode(n)
    BY <1>6 DEF DrainOrganization, DrainNode
  <1>7. CASE \E gone \in SUBSET (late \cap Queued) : PumpStart(gone)
    <2>1. Visit(known) /\ UNCHANGED <<known, late, credit, draining, drainingOrgs, drainingNodes>>
      BY <1>7 DEF PumpStart, drains
    <2>2. QED  BY <2>1, VisitTypes
  <1>8. CASE \E s \in Service : PumpNext(s)
    <2>1. Visit(pump.todo) /\ UNCHANGED <<known, late, credit, draining, drainingOrgs, drainingNodes>>
      BY <1>8 DEF PumpNext, drains
    <2>2. QED  BY <2>1, VisitTypes
  <1>9. CASE PumpGrant
    <2> PICK s \in Service : PumpReserved(s) \/ PumpShared(s)  BY <1>9 DEF PumpGrant
    <2>1. CASE PumpReserved(s)
      <3>1. PICK i \in 1..4 : pump' = [pump EXCEPT !.last = i]  BY <2>1 DEF PumpReserved
      <3>2. UNCHANGED <<known, late, credit, draining, drainingOrgs, drainingNodes>>
        BY <2>1 DEF PumpReserved, drains
      <3>3. pump' \in [service : Service \cup {NoService}, todo : SUBSET Service, last : 0..4]
        BY <3>1
      <3>4. QED  BY <3>2, <3>3
    <2>2. CASE PumpShared(s)
      <3>1. /\ credit' = [credit EXCEPT ![s] = AfterPick(@, Active(s))]
            /\ UNCHANGED <<known, late, draining, drainingOrgs, drainingNodes, pump>>
        BY <2>2 DEF PumpShared, drains
      <3>2. credit[s] \in [SharedMembers -> Int]  OBVIOUS
      <3>3. AfterPick(credit[s], Active(s)) \in [SharedMembers -> Int]
        <4>1. Active(s) \in SUBSET SharedMembers /\ Active(s) # {}  BY <2>2 DEF PumpShared, Active
        <4>2. QED  BY <3>2, <4>1, PickIs
      <3>4. credit' \in [Service -> [SharedMembers -> Int]]  BY <3>1, <3>3
      <3>5. QED  BY <3>1, <3>4
    <2>3. QED  BY <2>1, <2>2
  <1>10. QED  BY <1>1, <1>2, <1>3, <1>4, <1>5, <1>6, <1>7, <1>8, <1>9 DEF LedgerNext

--------------------------------------------------------------------------------
(* The theorems.                                                                *)

LedgerInv == OtherTypes /\ AccountsInv /\ QueuesInv /\ QueuesWithinCaps

LEMMA LedgerInvTypes == LedgerInv => LedgerTypeOK
  BY SMTT(60) DEF LedgerInv, OtherTypes, AccountsInv, AccountTypes, QueuesInv, QueuesInOrder, LedgerTypeOK

LEMMA LedgerInvQueues == LedgerInv => QueuesWellFormed
  <1> SUFFICES ASSUME LedgerInv PROVE QueuesWellFormed  OBVIOUS
  <1>1. (\A s \in Service, c \in Class : WellQueue(queue[s][c], s, c)) /\ PermitWaiters
    BY Zenon DEF LedgerInv, QueuesInv, QueuesInOrder
  <1> DEFINE InOrder(lanes, s, c) ==
               /\ \A i, j \in DOMAIN lanes : lanes[i].principal = lanes[j].principal => i = j
               /\ \A i \in DOMAIN lanes :
                     LET lane == lanes[i]
                     IN /\ lane.waiters # <<>>
                        /\ \A k, l \in DOMAIN lane.waiters :
                              /\ lane.waiters[k].id = lane.waiters[l].id => k = l
                              /\ lane.waiters[k].claim.principal = lane.principal
                              /\ lane.waiters[k].claim.service = s
                              /\ lane.waiters[k].claim.class = c
  <1>2. ASSUME NEW s, NEW c, NEW lanes, WellQueue(lanes, s, c) PROVE InOrder(lanes, s, c)
    <2>1. OneLaneEach(lanes) /\ \A i \in DOMAIN lanes : LaneWell(lanes[i], s, c)
      BY <1>2 DEF WellQueue
    <2>2. \A i, j \in DOMAIN lanes : lanes[i].principal = lanes[j].principal => i = j
      BY <2>1 DEF OneLaneEach
    <2>3. ASSUME NEW lane, LaneWell(lane, s, c)
          PROVE  /\ lane.waiters # <<>>
                 /\ \A k, l \in DOMAIN lane.waiters :
                       /\ lane.waiters[k].id = lane.waiters[l].id => k = l
                       /\ lane.waiters[k].claim.principal = lane.principal
                       /\ lane.waiters[k].claim.service = s
                       /\ lane.waiters[k].claim.class = c
      BY <2>3 DEF LaneWell
    <2>4. QED  BY <2>1, <2>2, <2>3, Zenon
  <1> HIDE DEF InOrder
  <1>3. \A s \in Service, c \in Class : InOrder(queue[s][c], s, c)  BY <1>1, <1>2
  <1>4. \A p, q \in InHand :
          permits[p].waiter # NoWaiter =>
             /\ permits[p].waiter \notin Queued
             /\ permits[q].waiter = permits[p].waiter => p = q
    BY <1>1 DEF PermitWaiters
  <1>5. QED  BY <1>3, <1>4, Zenon DEF QueuesWellFormed, InOrder

LEMMA InvHoldsFirst == LedgerInit => LedgerInv
  <1> SUFFICES ASSUME LedgerInit PROVE LedgerInv  OBVIOUS
  <1>1. OtherTypes
    BY DEF LedgerInit, OtherTypes, NoCredit, Idle
  <1>2. AccountTypes  BY DEF LedgerInit, AccountTypes
  <1>3. InHand = {} /\ Cardinality({}) = 0  BY FS_EmptySet DEF LedgerInit, InHand
  <1>4. /\ \A s : PermitsOf(s) = {} /\ HeldShared(s) = {}
        /\ \A s, c, slot : Held(s, c, slot) = {}
    BY <1>3 DEF PermitsOf, HeldShared, Held
  <1>5. AccountsMatchPermits  BY <1>3, <1>4 DEF LedgerInit, AccountsMatchPermits
  <1>6. WithinQuota
    <2>1. ASSUME NEW s \in Service PROVE Physical(s) = 0
      <3>1. Cardinality(PermitsOf(s)) = 0 /\ attached[s] = 0  BY <1>3, <1>4 DEF LedgerInit
      <3>2. QED  BY <3>1 DEF Physical
    <2>2. /\ {Shared, PhysicalCap} \subseteq Nat /\ Reserved \in [Class -> Nat] /\ "Control" \in Class
      BY BudgetAssumption DEF Class
    <2>3. QED  BY <2>1, <2>2 DEF LedgerInit, WithinQuota
  <1>7. \A s \in Service, c \in Class : queue[s][c] = <<>>  BY DEF LedgerInit
  <1>8. QueuesInOrder
    <2>1. queue \in [Service -> [Class -> Seq(Lane)]]  BY DEF LedgerInit
    <2>2. QED  BY <1>7, <2>1 DEF QueuesInOrder, WellQueue, OneLaneEach
  <1>9. \A s \in Service, c \in Class : WaitersIn(s, c) = {}  BY <1>7 DEF WaitersIn
  <1>10. Waiters = {}  BY <1>9 DEF Waiters
  <1>11. Once /\ PermitWaiters  BY <1>3, <1>10 DEF Once, PermitWaiters
  <1>12. QueuesWithinCaps
    <2>1. ClassQueueCap \in Nat /\ UserQueueCap \in Nat  BY BudgetAssumption
    <2>2. ASSUME NEW s \in Service, NEW c \in Class PROVE Depth(s, c) <= ClassQueueCap
      BY <1>3, <1>9, <2>1 DEF Depth
    <2>3. ASSUME NEW s \in Service, NEW u \in Principal PROVE UserDepth(s, u) <= UserQueueCap
      <3>1. OfUser(s, u) = {}  BY <1>9 DEF OfUser, InService
      <3>2. QED  BY <1>3, <2>1, <3>1, UserDepthIs
    <2>4. QED  BY <2>2, <2>3 DEF QueuesWithinCaps
  <1>13. QED  BY <1>1, <1>2, <1>5, <1>6, <1>8, <1>11, <1>12 DEF LedgerInv, AccountsInv, QueuesInv

LEMMA StepKeeps ==
    ASSUME LedgerInv, OtherTypes',
           \/ RestStep \/ AttachStep \/ AdmitStep \/ ServeStep
           \/ EnqueueStep \/ LeaveStep \/ ReleaseStep
    PROVE  LedgerInv'
  <1>1. OtherTypes /\ AccountsInv /\ QueuesInv /\ QueuesWithinCaps  BY DEF LedgerInv
  <1>2. AccountsInv'  BY <1>1, AccountsPreserved
  <1>3. QueuesInv'  BY <1>1, QueuesPreserved
  <1>4. QueuesWithinCaps'
    <2>1. QueuesInOrder  BY <1>1 DEF QueuesInv
    <2>2. CASE queue' = queue
      <3>1. \A s, c : WaitersIn(s, c)' = WaitersIn(s, c)  BY <2>2, SameQueues
      <3>2. QED  BY <1>1, <2>1, <3>1, FewerWithinCaps
    <2>3. CASE RestStep \/ AttachStep \/ AdmitStep \/ ReleaseStep
      <3>1. queue' = queue
        BY <2>3 DEF RestStep, AttachStep, Attach, Detach, AdmitStep, ReleaseStep, Release
      <3>2. QED  BY <2>2, <3>1
    <2>4. CASE ServeStep
      <3>1. PICK s \in Service, c \in Class : queue[s][c] # <<>> /\ Pops(s, c)
        BY <2>4, Zenon DEF ServeStep
      <3>2. PICK e : e = Head(Head(queue[s][c]).waiters)  OBVIOUS
      <3>3. \A t \in Service, d \in Class : WaitersIn(t, d)' \subseteq WaitersIn(t, d)
        BY <1>1, <3>1, <3>2, ServeMoves DEF QueuesInv
      <3>4. QED  BY <1>1, <2>1, <3>3, FewerWithinCaps, SMTT(60)
    <2>5. CASE EnqueueStep  BY <1>1, <2>1, <2>5, EnqueueWithinCaps DEF EnqueueStep
    <2>6. CASE LeaveStep
      <3>1. \A s \in Service, c \in Class : WaitersIn(s, c)' \subseteq WaitersIn(s, c)
        BY <2>1, <2>6, LeaveMoves DEF LeaveStep
      <3>2. QED  BY <1>1, <2>1, <3>1, FewerWithinCaps
    <2>7. QED  BY <2>3, <2>4, <2>5, <2>6
  <1>5. QED  BY <1>2, <1>3, <1>4 DEF LedgerInv

LEMMA InvNext == LedgerInv /\ LedgerNext => LedgerInv'
  <1> SUFFICES ASSUME LedgerInv, LedgerNext PROVE LedgerInv'  OBVIOUS
  <1>1. \/ RestStep \/ AttachStep \/ AdmitStep \/ ServeStep
        \/ EnqueueStep \/ LeaveStep \/ ReleaseStep
    BY StepKinds DEF LedgerInv, OtherTypes, AccountsInv, QueuesInv
  <1>2. OtherTypes'  BY OtherTypesPreserved DEF LedgerInv
  <1>3. QED  BY <1>1, <1>2, StepKeeps

LEMMA InvStutters == LedgerInv /\ UNCHANGED ledgerVars => LedgerInv'
  <1> SUFFICES ASSUME LedgerInv, UNCHANGED ledgerVars PROVE LedgerInv'  OBVIOUS
  <1>1. RestStep  BY DEF ledgerVars, RestStep
  <1>2. AccountsInv' /\ QueuesInv'
    BY <1>1, AccountsPreserved, QueuesPreserved DEF LedgerInv
  <1>3. OtherTypes'  BY DEF LedgerInv, OtherTypes, ledgerVars
  <1>4. \A s, c : WaitersIn(s, c)' = WaitersIn(s, c)  BY SameQueues DEF ledgerVars
  <1>5. QueuesWithinCaps'  BY <1>4, FewerWithinCaps DEF LedgerInv, QueuesInv
  <1>6. QED  BY <1>2, <1>3, <1>5 DEF LedgerInv

\* The inductive invariant of the ledger.
LEMMA LedgerInvariant == LedgerSpec => []LedgerInv
  BY InvHoldsFirst, InvNext, InvStutters, PTL DEF LedgerSpec

\* The ledger keeps its types; so a permit is only ever given to a waiter that is
\* there, from a queue that has one.
THEOREM LedgerTypes == LedgerSpec => []LedgerTypeOK
  BY LedgerInvariant, LedgerInvTypes, PTL

\* The counters are always the permits in hand: no slot leaks, none is freed twice.
THEOREM SlotsAreAccountedFor == LedgerSpec => []AccountsMatchPermits
  <1>1. LedgerInv => AccountsMatchPermits  BY DEF LedgerInv, AccountsInv
  <1>2. QED  BY LedgerInvariant, <1>1, PTL

\* No grant, batch of grants or attachment takes a service past its limits.
THEOREM QuotasHold == LedgerSpec => []WithinQuota
  <1>1. LedgerInv => WithinQuota  BY DEF LedgerInv, AccountsInv
  <1>2. QED  BY LedgerInvariant, <1>1, PTL

\* A waiter is in one place, whatever cancellations, expiries and grants there are.
THEOREM QueuesKeepTheirShape == LedgerSpec => []QueuesWellFormed
  BY LedgerInvariant, LedgerInvQueues, PTL

\* No queue is ever longer than its limit, and no user has more waiters than its.
THEOREM QueueCapsHold == LedgerSpec => []QueuesWithinCaps
  <1>1. LedgerInv => QueuesWithinCaps  BY DEF LedgerInv
  <1>2. QED  BY LedgerInvariant, <1>1, PTL

LEMMA GrantsSpareDrained ==
    ASSUME AccountTypes, NEW g, Grants(g), NEW s \in draining, NEW p \in Permit,
           permits'[p] # NoPermit, permits'[p].claim.service = s
    PROVE  permits[p] = permits'[p]
  <1>1. /\ InHand' = InHand \cup DOMAIN g
        /\ \A q \in DOMAIN g : permits'[q] = g[q] /\ g[q].claim.service \notin draining
        /\ \A q \in InHand : permits'[q] = permits[q]
    BY GrantsAdd DEF Grants
  <1>2. p \in InHand'  BY DEF InHand
  <1>3. QED  BY <1>1, <1>2

\* A permit goes back, and waiters may leave with it.
BackStep ==
    \E p \in InHand : /\ Free(p) /\ attached' = attached
                      /\ queue' = queue \/ \E gone : Leave(gone)

DrainedSpared ==
    \A s \in draining : \A p \in Permit :
        permits'[p] # NoPermit /\ permits'[p].claim.service = s => permits[p] = permits'[p]

LEMMA StepSparesDrained ==
    ASSUME LedgerInv,
           \/ RestStep \/ AttachStep \/ AdmitStep \/ ServeStep
           \/ EnqueueStep \/ LeaveStep \/ BackStep
    PROVE  DrainedSpared
  <1> SUFFICES ASSUME NEW s \in draining, NEW p \in Permit,
                      permits'[p] # NoPermit, permits'[p].claim.service = s
               PROVE  permits[p] = permits'[p]
    BY DEF DrainedSpared
  <1>1. AccountsInv /\ AccountTypes  BY DEF LedgerInv, AccountsInv
  <1>2. CASE RestStep \/ AttachStep \/ EnqueueStep \/ LeaveStep
    BY <1>2 DEF RestStep, AttachStep, Attach, Detach, EnqueueStep, Enqueue, LeaveStep, accounts
  <1>3. CASE AdmitStep \/ ServeStep
    <2>1. \E g : Grants(g)  BY <1>3 DEF AdmitStep, ServeStep
    <2>2. QED  BY <1>1, <2>1, GrantsSpareDrained
  <1>4. CASE BackStep
    <2>1. PICK q \in InHand : Free(q) /\ attached' = attached  BY <1>4 DEF BackStep
    <2>2. \A x \in InHand' : permits'[x] = permits[x]
      BY <1>1, <2>1, ReleaseTakesBack DEF AccountsInv
    <2>3. p \in InHand'  BY DEF InHand
    <2>4. QED  BY <2>2, <2>3
  <1>5. QED  BY <1>2, <1>3, <1>4

LEMMA LedgerSteps ==
    ASSUME LedgerInv, LedgerNext
    PROVE  \/ RestStep \/ AttachStep \/ AdmitStep \/ ServeStep
           \/ EnqueueStep \/ LeaveStep \/ BackStep
  <1>1. \/ RestStep \/ AttachStep \/ AdmitStep \/ ServeStep
        \/ EnqueueStep \/ LeaveStep \/ ReleaseStep
    BY StepKinds DEF LedgerInv, OtherTypes, AccountsInv, QueuesInv
  <1>2. ReleaseStep => BackStep  BY DEF ReleaseStep, Release, BackStep
  <1>3. QED  BY <1>1, <1>2

\* A draining service grants nothing more, to those who ask and to those who wait.
THEOREM DrainHolds == LedgerSpec => DrainedServiceGrantsNothing
  <1>1. LedgerInv /\ [LedgerNext]_ledgerVars => [DrainedSpared]_ledgerVars
    BY LedgerSteps, StepSparesDrained
  <1>2. LedgerSpec => [][DrainedSpared]_ledgerVars  BY LedgerInvariant, <1>1, PTL DEF LedgerSpec
  <1>3. QED  BY <1>2 DEF DrainedSpared, DrainedServiceGrantsNothing

\* What the pump leaves behind at a service: no slot, or nobody who waits for it.
LEMMA PumpLeaves ==
    ASSUME AccountTypes, NEW s \in Service, s \notin draining, PumpNext(s),
           Physical(s) < PhysicalCap, NEW c \in Class, queue[s][c] # <<>>
    PROVE  Slots(s, c) = {}
  <1>1. Serves(s)  BY DEF PumpNext, Serves
  <1>2. Grantable(s) = {} /\ (sharedUsed[s] >= Shared \/ Active(s) = {})
    BY <1>1 DEF PumpNext
  <1>3. ~(Headroom(s, c) > 0)  BY <1>2 DEF Grantable
  <1>4. ~(c \in SharedMembers /\ sharedUsed[s] < Shared)
    <2>1. sharedUsed[s] \in Nat /\ Shared \in Nat  BY BudgetAssumption DEF AccountTypes
    <2>2. c \in SharedMembers => Active(s) # {}  BY DEF Active
    <2>3. QED  BY <1>2, <2>1, <2>2
  <1>5. QED  BY <1>3, <1>4 DEF Slots

LeftServed ==
    \A s \in Service :
        pump.service = s /\ pump'.service # s /\ s \notin draining /\ Physical(s) < PhysicalCap =>
            \A c \in Class : queue[s][c] # <<>> => Slots(s, c) = {}

LEMMA PumpLeavesServed ==
    ASSUME LedgerInv, LedgerNext
    PROVE  LeftServed
  <1> SUFFICES ASSUME NEW s \in Service, pump.service = s, pump'.service # s, s \notin draining,
                      Physical(s) < PhysicalCap, NEW c \in Class, queue[s][c] # <<>>
               PROVE  Slots(s, c) = {}
    BY DEF LeftServed
  <1>1. pump \in [service : Service \cup {NoService}, todo : SUBSET Service, last : 0..4]
    BY DEF LedgerInv, OtherTypes
  <1>2. ~Unlocked  BY BudgetAssumption DEF Unlocked
  <1>3. ~PumpGrant
    <2>1. ASSUME NEW t \in Service, PumpReserved(t) PROVE pump'.service = pump.service
      BY <1>1, <2>1 DEF PumpReserved
    <2>2. ASSUME NEW t \in Service, PumpShared(t) PROVE pump' = pump
      BY <2>2 DEF PumpShared
    <2>3. QED  BY <2>1, <2>2 DEF PumpGrant
  <1>4. PICK t \in Service : PumpNext(t)
    BY <1>2, <1>3 DEF LedgerNext, Ensure, Attach, Detach, DrainConnection, Admit, Enqueue,
       AdmitMany, Cancel, Elapse, Release, DrainOrganization, DrainNode, PumpStart
  <1>5. t = s  BY <1>4 DEF PumpNext
  <1>6. QED  BY <1>4, <1>5, PumpLeaves DEF LedgerInv, AccountsInv

\* The pump leaves a service only when nobody there waits for a slot that is free.
THEOREM PumpServesEveryone == LedgerSpec => PumpLeavesNoOneBehind
  <1>1. LedgerInv /\ [LedgerNext]_ledgerVars => [LeftServed]_ledgerVars  BY PumpLeavesServed
  <1>2. LedgerSpec => [][LeftServed]_ledgerVars  BY LedgerInvariant, <1>1, PTL DEF LedgerSpec
  <1>3. QED  BY <1>2 DEF LeftServed, PumpLeavesNoOneBehind

--------------------------------------------------------------------------------
(* Turns.                                                                       *)

LEMMA LaneIs ==
    ASSUME NEW lanes, OneLaneEach(lanes), NEW i \in DOMAIN lanes, NEW u, lanes[i].principal = u
    PROVE  LaneOf(lanes, u) = i
  <1>1. LaneOf(lanes, u) = CHOOSE j \in DOMAIN lanes : lanes[j].principal = u  BY Zenon DEF LaneOf
  <1>2. \E j \in DOMAIN lanes : lanes[j].principal = u  OBVIOUS
  <1>3. LaneOf(lanes, u) \in DOMAIN lanes /\ lanes[LaneOf(lanes, u)].principal = u
    BY <1>1, <1>2, Zenon
  <1>4. QED  BY <1>3 DEF OneLaneEach

\* A lane keeps its place when waiters come.
LEMMA PushedKeepsPlaces ==
    ASSUME NEW s, NEW c, NEW lanes, WellQueue(lanes, s, c), NEW e,
           WellQueue(Pushed(lanes, e), s, c), NEW u, Waits(lanes, u)
    PROVE  LaneOf(Pushed(lanes, e), u) = LaneOf(lanes, u)
  <1>1. PICK i \in DOMAIN lanes : lanes[i].principal = u  BY DEF Waits
  <1>2. LaneOf(lanes, u) = i  BY <1>1, LaneIs DEF WellQueue
  <1>3. /\ lanes \in Seq(Lane) /\ Len(lanes) \in Nat /\ DOMAIN lanes = 1..Len(lanes)
        /\ \A j \in DOMAIN lanes : lanes[j] \in Lane
    BY DEF WellQueue
  <1>4. i \in DOMAIN Pushed(lanes, e) /\ Pushed(lanes, e)[i].principal = u
    <2> DEFINE mine == \E j \in DOMAIN lanes : lanes[j].principal = e.claim.principal
    <2>1. CASE mine
      <3> DEFINE longer(lane) == [lane EXCEPT !.waiters = Append(@, e)]
      <3>1. Pushed(lanes, e) = [j \in DOMAIN lanes |->
               IF lanes[j].principal = e.claim.principal THEN longer(lanes[j]) ELSE lanes[j]]
        BY <2>1 DEF Pushed
      <3>2. longer(lanes[i]).principal = lanes[i].principal
        <4>1. lanes[i] = [principal |-> lanes[i].principal, waiters |-> lanes[i].waiters]
          BY <1>3 DEF Lane
        <4>2. QED  BY <4>1
      <3> HIDE DEF longer
      <3>3. QED  BY <1>1, <3>1, <3>2
    <2>2. CASE ~mine
      <3> DEFINE new == [principal |-> e.claim.principal, waiters |-> <<e>>]
      <3>1. Pushed(lanes, e) = Append(lanes, new)  BY <2>2 DEF Pushed
      <3> HIDE DEF new
      <3>2. i \in DOMAIN Append(lanes, new) /\ Append(lanes, new)[i] = lanes[i]  BY <1>3
      <3>3. QED  BY <1>1, <3>1, <3>2
    <2>3. QED  BY <2>1, <2>2
  <1>5. LaneOf(Pushed(lanes, e), u) = i
    <2>1. PICK more : more = Pushed(lanes, e)  OBVIOUS
    <2>2. OneLaneEach(more) /\ i \in DOMAIN more /\ more[i].principal = u
      BY <1>4, <2>1 DEF WellQueue
    <2>3. LaneOf(more, u) = i  BY <2>2, LaneIs
    <2>4. QED  BY <2>1, <2>3
  <1>6. QED  BY <1>2, <1>5

\* A lane that stays never loses its place when waiters go.
LEMMA WithoutKeepsOrder ==
    ASSUME NEW s, NEW c, NEW lanes, WellQueue(lanes, s, c), NEW gone, NEW u,
           Waits(lanes, u), Waits(Without(lanes, gone), u)
    PROVE  LaneOf(Without(lanes, gone), u) <= LaneOf(lanes, u)
  <1> DEFINE rests == [i \in DOMAIN lanes |-> Rest(lanes[i], gone)]
             at == {i \in DOMAIN lanes : Staying(lanes[i], gone) # {}}
             left == Selected(rests, at)
  <1>1. Without(lanes, gone) = left  BY DEF Without
  <1>2. WellQueue(left, s, c)  BY <1>1, WithoutIs
  <1>3. /\ lanes \in Seq(Lane) /\ Len(lanes) \in Nat /\ DOMAIN lanes = 1..Len(lanes)
        /\ \A i \in DOMAIN lanes : lanes[i] \in Lane /\ LaneWell(lanes[i], s, c)
    BY DEF WellQueue
  <1>4. \A i \in DOMAIN lanes : /\ Rest(lanes[i], gone) \in Lane
                                /\ Rest(lanes[i], gone).principal = lanes[i].principal
    BY <1>3, RestIs
  <1>5. rests \in Seq(Lane) /\ DOMAIN rests = DOMAIN lanes  BY <1>3, <1>4
  <1>6. at \in SUBSET (DOMAIN rests) /\ at \in SUBSET (1..Len(lanes))  BY <1>3, <1>5
  <1>7. /\ DOMAIN left = 1..Cardinality(at)
        /\ \A k \in 1..Cardinality(at) : Nth(at, k) \in at /\ left[k] = rests[Nth(at, k)]
    <2> HIDE DEF rests, at
    <2>1. /\ DOMAIN Selected(rests, at) = 1..Cardinality(at)
          /\ \A k \in 1..Cardinality(at) :
                Nth(at, k) \in at /\ Selected(rests, at)[k] = rests[Nth(at, k)]
      BY <1>5, <1>6, SelectedIs
    <2>2. QED  BY <2>1 DEF left
  <1>8. \A k \in 1..Cardinality(at) : k <= Nth(at, k)
    <2> HIDE DEF at
    <2>1. QED  BY <1>3, <1>6, NthNotSooner
  <1>9. PICK k \in DOMAIN left : left[k].principal = u  BY <1>1 DEF Waits
  <1>10. k <= Nth(at, k) /\ Nth(at, k) \in DOMAIN lanes /\ lanes[Nth(at, k)].principal = u
    <2> HIDE DEF left
    <2>1. k \in 1..Cardinality(at) /\ left[k] = Rest(lanes[Nth(at, k)], gone) /\ Nth(at, k) \in DOMAIN lanes
      BY <1>7, <1>9
    <2>2. QED  BY <1>4, <1>8, <1>9, <2>1
  <1> HIDE DEF at, left
  <1>11. LaneOf(left, u) = k  BY <1>2, <1>9, LaneIs DEF WellQueue
  <1>12. LaneOf(lanes, u) = Nth(at, k)  BY <1>10, LaneIs DEF WellQueue
  <1>13. QED  BY <1>1, <1>10, <1>11, <1>12

\* Everybody but the one who is served moves up.
LEMMA PoppedMovesUp ==
    ASSUME NEW s, NEW c, NEW lanes, WellQueue(lanes, s, c), lanes # <<>>,
           NEW u, Waits(lanes, u), u # Head(lanes).principal
    PROVE  LaneOf(Popped(lanes), u) < LaneOf(lanes, u)
  <1> DEFINE others == Tail(lanes)
             lane == [Head(lanes) EXCEPT !.waiters = Tail(@)]
  <1>1. /\ lanes \in Seq(Lane) /\ Len(lanes) \in Nat \ {0} /\ DOMAIN lanes = 1..Len(lanes)
        /\ Head(lanes) = lanes[1]
    BY DEF WellQueue
  <1>2. PICK i \in DOMAIN lanes : lanes[i].principal = u  BY DEF Waits
  <1>3. LaneOf(lanes, u) = i /\ i \in Nat \ {0, 1}
    <2>1. LaneOf(lanes, u) = i  BY <1>2, LaneIs DEF WellQueue
    <2>2. i # 1  BY <1>1, <1>2
    <2>3. QED  BY <1>1, <2>1, <2>2
  <1>4. /\ others \in Seq(Lane) /\ Len(others) = Len(lanes) - 1
        /\ i - 1 \in 1..Len(others) /\ others[i - 1] = lanes[i]
    BY <1>1, <1>3
  <1>5. Popped(lanes) = others \/ Popped(lanes) = Append(others, lane)  BY DEF Popped
  <1> HIDE DEF lane, others
  <1>6. i - 1 \in DOMAIN Popped(lanes) /\ Popped(lanes)[i - 1].principal = u
    <2>1. CASE Popped(lanes) = others  BY <1>2, <1>4, <2>1
    <2>2. CASE Popped(lanes) = Append(others, lane)
      <3>1. Len(others) \in Nat  BY <1>4
      <3>2. /\ DOMAIN Append(others, lane) = 1..(Len(others) + 1)
            /\ \A j \in 1..Len(others) : Append(others, lane)[j] = others[j]
        BY <1>4
      <3>3. i - 1 \in DOMAIN Append(others, lane)  BY <1>4, <3>1, <3>2
      <3>4. Append(others, lane)[i - 1] = others[i - 1]  BY <1>4, <3>2
      <3>5. QED  BY <1>2, <1>4, <2>2, <3>3, <3>4
    <2>3. QED  BY <1>5, <2>1, <2>2
  <1>7. PICK left : left = Popped(lanes)  OBVIOUS
  <1>8. OneLaneEach(left)
    <2>1. PICK e : e = Head(Head(lanes).waiters)  OBVIOUS
    <2>2. WellQueue(Popped(lanes), s, c)  BY <2>1, PoppedIs
    <2>3. QED  BY <1>7, <2>2 DEF WellQueue
  <1>9. LaneOf(left, u) = i - 1  BY <1>6, <1>7, <1>8, LaneIs
  <1>10. QED  BY <1>3, <1>7, <1>9

LEMMA OnlyServeGrantsWaiters ==
    ASSUME LedgerInv, RestStep \/ AttachStep \/ AdmitStep \/ EnqueueStep \/ LeaveStep \/ BackStep,
           NEW w \in Waiter
    PROVE  ~NewlyGranted(w)
  <1>1. AccountsInv /\ AccountTypes  BY DEF LedgerInv, AccountsInv
  <1>2. NoWaiter # w  BY BudgetAssumption
  <1>3. \A p \in InHand' : permits'[p].waiter = NoWaiter \/ (p \in InHand /\ permits'[p] = permits[p])
    <2>1. CASE permits' = permits  BY <2>1, SameHoldings
    <2>2. CASE RestStep \/ AttachStep \/ EnqueueStep \/ LeaveStep
      <3>1. permits' = permits
        BY <2>2 DEF RestStep, AttachStep, Attach, Detach, EnqueueStep, Enqueue, LeaveStep, accounts
      <3>2. QED  BY <2>1, <3>1
    <2>3. CASE AdmitStep
      <3>1. PICK g : Grants(g) /\ \A p \in DOMAIN g : g[p].waiter = NoWaiter  BY <2>3 DEF AdmitStep
      <3>2. /\ InHand' = InHand \cup DOMAIN g
            /\ \A p \in DOMAIN g : permits'[p] = g[p]
            /\ \A p \in InHand : permits'[p] = permits[p]
        BY <1>1, <3>1, GrantsAdd
      <3>3. QED  BY <3>1, <3>2
    <2>4. CASE BackStep
      <3>1. PICK q \in InHand : Free(q) /\ attached' = attached  BY <2>4 DEF BackStep
      <3>2. InHand' = InHand \ {q} /\ \A x \in InHand' : permits'[x] = permits[x]
        BY <1>1, <3>1, ReleaseTakesBack DEF AccountsInv
      <3>3. QED  BY <3>2
    <2>5. QED  BY <2>2, <2>3, <2>4
  <1>4. \A p \in Permit : permits'[p] # NoPermit => p \in InHand'  BY SMTT(60) DEF InHand
  <1>5. QED  BY <1>2, <1>3, <1>4 DEF NewlyGranted

\* e is the head of the class's queue and the step hands it permit p and pops it.
ServesTo(s, c, p, e) ==
    /\ queue[s][c] # <<>>
    /\ e = Head(Head(queue[s][c]).waiters)
    /\ \E slot : Grants([q \in {p} |-> [claim  |-> ClaimOf(e.claim),
                                        slot   |-> slot,
                                        waiter |-> e.id]])
    /\ Pops(s, c)

LEMMA ServeGrantsTheHead ==
    ASSUME LedgerInv, NEW s \in Service, NEW c \in Class, NEW p \in Permit, NEW e,
           ServesTo(s, c, p, e)
    PROVE  /\ NewlyGranted(e.id)
           /\ \A f \in Waiters : NewlyGranted(f.id) => f = e
           /\ e \in Waiters /\ e.claim.service = s /\ e.claim.class = c
  <1>1. AccountTypes /\ QueuesInOrder /\ Once /\ PermitWaiters
    BY SMTT(60) DEF LedgerInv, AccountsInv, QueuesInv
  <1>2. /\ InHand' = InHand \cup {p}
        /\ permits'[p].waiter = e.id
        /\ \A q \in InHand : permits'[q] = permits[q]
    <2>1. PICK slot : Grants([q \in {p} |-> [claim  |-> ClaimOf(e.claim),
                                             slot   |-> slot,
                                             waiter |-> e.id]])
      BY DEF ServesTo
    <2> DEFINE g == [q \in {p} |-> [claim  |-> ClaimOf(e.claim),
                                    slot   |-> slot,
                                    waiter |-> e.id]]
    <2>2. Grants(g)  BY <2>1
    <2>3. DOMAIN g = {p} /\ g[p].waiter = e.id  OBVIOUS
    <2> HIDE DEF g
    <2>4. /\ InHand' = InHand \cup DOMAIN g
          /\ \A x \in DOMAIN g : permits'[x] = g[x]
          /\ \A x \in InHand : permits'[x] = permits[x]
      BY <1>1, <2>2, GrantsAdd
    <2>5. QED  BY <2>3, <2>4
  <1>3. e \in Waiters /\ e \in Entry /\ e.claim.service = s /\ e.claim.class = c
    <2>1. queue[s][c] # <<>> /\ Pops(s, c) /\ e = Head(Head(queue[s][c]).waiters)
      BY DEF ServesTo
    <2>2. QED  BY <1>1, <2>1, ServeMoves
  <1>4. e.id \in Queued /\ e.id # NoWaiter  BY <1>3, QueuedAre, BudgetAssumption DEF Entry
  <1>5. \A q \in InHand : permits[q].waiter # e.id  BY <1>1, <1>4, SMTT(60) DEF PermitWaiters
  <1>6. NewlyGranted(e.id)
    <2>1. permits'[p] # NoPermit  BY <1>2, SMTT(60) DEF InHand
    <2>2. QED  BY <1>2, <1>5, <2>1 DEF NewlyGranted
  <1>7. ASSUME NEW f \in Waiters, NewlyGranted(f.id) PROVE f = e
    <2>1. PICK q \in Permit : permits'[q] # NoPermit /\ permits'[q].waiter = f.id
      BY <1>7 DEF NewlyGranted
    <2>2. \A x \in InHand : permits[x].waiter # f.id  BY <1>7 DEF NewlyGranted
    <2>3. q \in InHand'  BY <2>1 DEF InHand
    <2>4. q = p  BY <1>2, <2>1, <2>2, <2>3
    <2>5. f.id = e.id  BY <1>2, <2>1, <2>4
    <2>6. QED  BY <1>1, <1>3, <2>5 DEF Once
  <1>8. QED  BY <1>3, <1>6, <1>7, Zenon

TurnsTaken ==
    \A s \in Service, c \in Class, u \in Principal :
        LET before == queue[s][c]
            after  == queue'[s][c]
            grantedTo(v) == \E e \in WaitersIn(s, c) : NewlyGranted(e.id) /\ e.claim.principal = v
        IN Waits(before, u) /\ Waits(after, u) /\ ~grantedTo(u) =>
             /\ LaneOf(after, u) <= LaneOf(before, u)
             /\ (\E v \in Principal : grantedTo(v)) => LaneOf(after, u) < LaneOf(before, u)

LEMMA StepTakesTurns ==
    ASSUME LedgerInv,
           \/ RestStep \/ AttachStep \/ AdmitStep \/ ServeStep
           \/ EnqueueStep \/ LeaveStep \/ BackStep
    PROVE  TurnsTaken
  <1> DEFINE grantedTo(s, c, v) ==
                \E e \in WaitersIn(s, c) : NewlyGranted(e.id) /\ e.claim.principal = v
  <1> SUFFICES ASSUME NEW s \in Service, NEW c \in Class, NEW u \in Principal,
                      Waits(queue[s][c], u), Waits(queue'[s][c], u), ~grantedTo(s, c, u)
               PROVE  /\ LaneOf(queue'[s][c], u) <= LaneOf(queue[s][c], u)
                      /\ (\E v \in Principal : grantedTo(s, c, v)) =>
                            LaneOf(queue'[s][c], u) < LaneOf(queue[s][c], u)
    BY DEF TurnsTaken
  <1>1. /\ AccountTypes /\ QueuesInOrder /\ Once
        /\ credit \in [Service -> [SharedMembers -> Int]]
    BY DEF LedgerInv, AccountsInv, QueuesInv, OtherTypes
  <1>2. BackStep => queue' = queue \/ \E gone : Leave(gone)  BY DEF BackStep
  <1>3. WellQueue(queue[s][c], s, c)  BY <1>1 DEF QueuesInOrder
  <1>4. LaneOf(queue[s][c], u) \in Int
    <2>1. PICK i \in DOMAIN queue[s][c] : queue[s][c][i].principal = u  BY DEF Waits
    <2>2. LaneOf(queue[s][c], u) = i
      <3>1. PICK lanes : lanes = queue[s][c]  OBVIOUS
      <3>2. LaneOf(lanes, u) = i  BY <1>3, <2>1, <3>1, LaneIs DEF WellQueue
      <3>3. QED  BY <3>1, <3>2
    <2>3. DOMAIN queue[s][c] = 1..Len(queue[s][c])  BY <1>3 DEF WellQueue
    <2>4. QED  BY <2>1, <2>2, <2>3
  <1>5. ASSUME RestStep \/ AttachStep \/ AdmitStep \/ EnqueueStep \/ LeaveStep \/ BackStep
        PROVE  \A v : ~grantedTo(s, c, v)
    <2>1. \A e \in WaitersIn(s, c) : e.id \in Waiter
      <3>1. \A e \in EntriesOf(queue[s][c]) : e \in Entry  BY <1>3, EntriesBelong
      <3>2. QED  BY <3>1, WaitersInIs DEF Entry
    <2>2. QED  BY <1>5, <2>1, OnlyServeGrantsWaiters
  <1>6. CASE queue'[s][c] = queue[s][c] /\ \A v : ~grantedTo(s, c, v)  BY <1>4, <1>6
  <1>7. CASE RestStep \/ AttachStep \/ AdmitStep \/ (BackStep /\ queue' = queue)
    <2>1. queue' = queue
      BY <1>7 DEF RestStep, AttachStep, Attach, Detach, AdmitStep
    <2>2. QED  BY <1>5, <1>6, <1>7, <2>1
  <1>8. CASE EnqueueStep
    <2>1. PICK claim \in Claim, w \in Waiter : Enqueue(claim, w)  BY <1>8 DEF EnqueueStep
    <2>2. PICK e : e = [id |-> w, claim |-> claim]  OBVIOUS
    <2>3. queue' = [queue EXCEPT ![claim.service][claim.class] = Pushed(@, e)]
      BY <2>1, <2>2 DEF Enqueue
    <2>4. queue'[s][c] = queue[s][c] \/ queue'[s][c] = Pushed(queue[s][c], e)
      BY <1>1, <2>3 DEF QueuesInOrder
    <2>5. CASE queue'[s][c] = Pushed(queue[s][c], e)
      <3>1. WellQueue(Pushed(queue[s][c], e), s, c)
        <4>1. QueuesInOrder'  BY <1>1, <2>1, EnqueueMoves
        <4>2. WellQueue(queue'[s][c], s, c)  BY <4>1 DEF QueuesInOrder
        <4>3. QED  BY <2>5, <4>2
      <3>2. LaneOf(Pushed(queue[s][c], e), u) = LaneOf(queue[s][c], u)
        BY <1>3, <3>1, PushedKeepsPlaces
      <3>3. QED  BY <1>4, <1>5, <1>8, <2>5, <3>2
    <2>6. QED  BY <1>5, <1>6, <1>8, <2>4, <2>5
  <1>9. CASE LeaveStep \/ (BackStep /\ \E gone : Leave(gone))
    <2>1. PICK gone : queue'[s][c] = Without(queue[s][c], gone)  BY <1>9 DEF LeaveStep, Leave
    <2>2. LaneOf(Without(queue[s][c], gone), u) <= LaneOf(queue[s][c], u)
      BY <1>3, <2>1, WithoutKeepsOrder
    <2>3. QED  BY <1>5, <1>9, <2>1, <2>2
  <1>10. CASE ServeStep
    <2>1. PICK t \in Service, d \in Class, p \in Permit, slot \in {"Reserved", "Shared"} :
             LET e == Head(Head(queue[t][d]).waiters)
             IN /\ queue[t][d] # <<>>
                /\ Grants([q \in {p} |-> [claim  |-> ClaimOf(e.claim),
                                          slot   |-> slot,
                                          waiter |-> e.id]])
                /\ Pops(t, d)
      BY <1>10 DEF ServeStep
    <2>2. PICK e : e = Head(Head(queue[t][d]).waiters)  OBVIOUS
    <2>3. ServesTo(t, d, p, e)  BY <2>1, <2>2 DEF ServesTo
    <2>4. queue[t][d] # <<>> /\ Pops(t, d)  BY <2>1
    <2>5. /\ NewlyGranted(e.id)
          /\ \A f \in Waiters : NewlyGranted(f.id) => f = e
          /\ e \in Waiters /\ e.claim.service = t /\ e.claim.class = d
      BY <2>3, ServeGrantsTheHead, Zenon
    <2>6. CASE t = s /\ d = c
      <3>1. PICK lanes : lanes = queue[s][c]  OBVIOUS
      <3>2. queue'[s][c] = Popped(lanes)  BY <1>1, <2>4, <2>6, <3>1 DEF Pops, QueuesInOrder
      <3>3. e \in EntriesOf(lanes) /\ e.claim.principal = Head(lanes).principal
        <4>1. WellQueue(lanes, s, c) /\ lanes # <<>> /\ e = Head(Head(lanes).waiters)
          BY <1>3, <2>2, <2>4, <2>6, <3>1
        <4>2. e \in EntriesOf(lanes)  BY <4>1, PoppedIs
        <4>3. /\ Head(lanes) = lanes[1] /\ lanes[1] \in Lane
              /\ LaneWell(lanes[1], s, c)
          BY <4>1 DEF WellQueue
        <4>4. lanes[1].waiters \in Seq(Entry) /\ lanes[1].waiters # <<>>
          BY <4>3 DEF Lane, LaneWell
        <4>5. e = lanes[1].waiters[1] /\ 1 \in DOMAIN lanes[1].waiters  BY <4>1, <4>3, <4>4
        <4>6. QED  BY <4>2, <4>3, <4>5 DEF LaneWell
      <3>4. e \in WaitersIn(s, c)  BY <3>1, <3>3, WaitersInIs
      <3>5. u # Head(lanes).principal  BY <2>5, <3>3, <3>4
      <3>6. LaneOf(Popped(lanes), u) < LaneOf(lanes, u)
        BY <1>3, <2>4, <2>6, <3>1, <3>5, PoppedMovesUp
      <3>7. LaneOf(Popped(lanes), u) \in Int
        <4>1. WellQueue(Popped(lanes), s, c)
          BY <1>3, <2>2, <2>4, <2>6, <3>1, PoppedIs
        <4>2. PICK left : left = Popped(lanes)  OBVIOUS
        <4>3. PICK i \in DOMAIN left : left[i].principal = u  BY <3>2, <4>2 DEF Waits
        <4>4. LaneOf(left, u) = i  BY <4>1, <4>2, <4>3, LaneIs DEF WellQueue
        <4>5. i \in Int
          <5>1. left \in Seq(Lane)  BY <4>1, <4>2 DEF WellQueue
          <5>2. QED  BY <5>1
        <4>6. QED  BY <4>2, <4>4, <4>5
      <3>8. QED  BY <1>4, <3>1, <3>2, <3>6, <3>7
    <2>7. CASE ~(t = s /\ d = c)
      <3>1. queue'[s][c] = queue[s][c]  BY <1>1, <2>4, <2>7 DEF Pops, QueuesInOrder
      <3>2. \A f \in WaitersIn(s, c) : ~NewlyGranted(f.id)
        <4> TAKE f \in WaitersIn(s, c)
        <4>1. f \in Waiters  BY WaitersAre
        <4>2. f.claim.service = s /\ f.claim.class = c
          <5>1. f \in EntriesOf(queue[s][c])  BY WaitersInIs
          <5>2. QED  BY <1>3, <5>1, EntriesBelong
        <4>3. QED  BY <2>5, <2>7, <4>1, <4>2
      <3>3. QED  BY <1>6, <3>1, <3>2
    <2>8. QED  BY <2>6, <2>7, Zenon
  <1>11. QED  BY <1>2, <1>7, <1>8, <1>9, <1>10

\* Principals of a class take turns: one who keeps waiting never loses a place, and
\* moves up with every grant to another.
THEOREM TurnsAreFair == LedgerSpec => PrincipalsTakeTurns
  <1>1. LedgerInv /\ [LedgerNext]_ledgerVars => [TurnsTaken]_ledgerVars
    BY LedgerSteps, StepTakesTurns
  <1>2. LedgerSpec => [][TurnsTaken]_ledgerVars  BY LedgerInvariant, <1>1, PTL DEF LedgerSpec
  <1>3. QED  BY <1>2 DEF TurnsTaken, PrincipalsTakeTurns

--------------------------------------------------------------------------------
(* The picks of the shared rotation.                                            *)

\* What Interactive, Metadata and Job are owed, from one pick to the next: what one is
\* owed the others owe, and none is owed or owes more than a few slots; while Job owes
\* the most it ever does, Metadata is owed neither one slot nor three.
Even(i, m, j) ==
    /\ i + m + j = 0
    /\ -5 <= i /\ i <= 4
    /\ -4 <= m /\ m <= 4
    /\ -4 <= j /\ j <= 4
    /\ j = -4 => m # 1 /\ m # 3

LEMMA InteractivePays ==
    ASSUME NEW i \in Int, NEW m \in Int, NEW j \in Int, Even(i, m, j),
           NEW y \in {0, 2}, NEW z \in {0, 1},
           y = 2 => i + 4 >= m + 2,
           z = 1 => i + 4 >= j + 1
    PROVE  Even(i - y - z, m + y, j + z)
  BY DEF Even

LEMMA MetadataPays ==
    ASSUME NEW i \in Int, NEW m \in Int, NEW j \in Int, Even(i, m, j),
           NEW x \in {0, 4}, NEW z \in {0, 1},
           x = 4 => m + 2 > i + 4,
           z = 1 => m + 2 >= j + 1
    PROVE  Even(i + x, m - x - z, j + z)
  BY DEF Even

LEMMA JobPays ==
    ASSUME NEW i \in Int, NEW m \in Int, NEW j \in Int, Even(i, m, j),
           NEW x \in {0, 4}, NEW y \in {0, 2},
           x = 4 => j + 1 > i + 4,
           y = 2 => j + 1 > m + 2
    PROVE  Even(i + x, m + y, j - x - y)
  BY DEF Even

Balanced(k) ==
    /\ k \in [SharedMembers -> Int]
    /\ Even(k["Interactive"], k["Metadata"], k["Job"])

LEMMA PickKeepsBalance ==
    ASSUME NEW active \in SUBSET SharedMembers, active # {}, NEW k, Balanced(k)
    PROVE  Balanced(AfterPick(k, active))
  <1> DEFINE after == AfterPick(k, active)
             chosen == Chosen(k, active)
             earned == Earned(k, active)
             total == Total(active)
             I == "Interactive"
             M == "Metadata"
             J == "Job"
             x == Share(I, active)
             y == Share(M, active)
             z == Share(J, active)
  <1>1. k \in [SharedMembers -> Int]  BY DEF Balanced
  <1>2. /\ after \in [SharedMembers -> Int]
        /\ \A c \in SharedMembers :
              after[c] = k[c] + Share(c, active) - (IF c = chosen THEN total ELSE 0)
    BY <1>1, PickIs
  <1>3. /\ chosen \in active
        /\ \A d \in active : \/ earned[chosen] > earned[d]
                             \/ earned[chosen] = earned[d] /\ Rank[chosen] <= Rank[d]
    BY <1>1, ChosenIs
  <1>4. \A c \in SharedMembers : earned[c] = k[c] + Share(c, active)  BY DEF Earned
  <1>5. Rank[I] = 1 /\ Rank[M] = 2 /\ Rank[J] = 3  BY DEF Rank
  <1>6. /\ x \in {0, 4} /\ (I \in active <=> x = 4)
        /\ y \in {0, 2} /\ (M \in active <=> y = 2)
        /\ z \in {0, 1} /\ (J \in active <=> z = 1)
    BY DEF Share, Weight
  <1>7. total = x + y + z  BY DEF Total
  <1>8. SharedMembers = {I, M, J} /\ I # M /\ I # J /\ M # J  BY DEF SharedMembers
  <1> HIDE DEF after, chosen, earned, total, x, y, z
  <1>9. k[I] \in Int /\ k[M] \in Int /\ k[J] \in Int  BY <1>1, <1>8
  <1>10. /\ after[I] = k[I] + x - (IF I = chosen THEN total ELSE 0)
         /\ after[M] = k[M] + y - (IF M = chosen THEN total ELSE 0)
         /\ after[J] = k[J] + z - (IF J = chosen THEN total ELSE 0)
         /\ earned[I] = k[I] + x /\ earned[M] = k[M] + y /\ earned[J] = k[J] + z
    BY <1>2, <1>4, <1>8 DEF x, y, z
  <1>11. Even(k[I], k[M], k[J])  BY DEF Balanced
  <1>12. CASE chosen = I
    <2>1. /\ x = 4
          /\ y = 2 => k[I] + 4 >= k[M] + 2
          /\ z = 1 => k[I] + 4 >= k[J] + 1
      BY <1>3, <1>6, <1>9, <1>10, <1>12
    <2>2. Even(k[I] - y - z, k[M] + y, k[J] + z)  BY <1>6, <1>9, <1>11, <2>1, InteractivePays
    <2>3. after[I] = k[I] - y - z /\ after[M] = k[M] + y /\ after[J] = k[J] + z
      BY <1>6, <1>7, <1>8, <1>9, <1>10, <1>12, <2>1
    <2>4. QED  BY <1>2, <2>2, <2>3 DEF Balanced, after
  <1>13. CASE chosen = M
    <2>1. /\ y = 2
          /\ x = 4 => k[M] + 2 > k[I] + 4
          /\ z = 1 => k[M] + 2 >= k[J] + 1
      BY <1>3, <1>5, <1>6, <1>9, <1>10, <1>13
    <2>2. Even(k[I] + x, k[M] - x - z, k[J] + z)  BY <1>6, <1>9, <1>11, <2>1, MetadataPays
    <2>3. after[I] = k[I] + x /\ after[M] = k[M] - x - z /\ after[J] = k[J] + z
      BY <1>6, <1>7, <1>8, <1>9, <1>10, <1>13, <2>1
    <2>4. QED  BY <1>2, <2>2, <2>3 DEF Balanced, after
  <1>14. CASE chosen = J
    <2>1. /\ z = 1
          /\ x = 4 => k[J] + 1 > k[I] + 4
          /\ y = 2 => k[J] + 1 > k[M] + 2
      BY <1>3, <1>5, <1>6, <1>9, <1>10, <1>14
    <2>2. Even(k[I] + x, k[M] + y, k[J] - x - y)  BY <1>6, <1>9, <1>11, <2>1, JobPays
    <2>3. after[I] = k[I] + x /\ after[M] = k[M] + y /\ after[J] = k[J] - x - y
      BY <1>6, <1>7, <1>8, <1>9, <1>10, <1>14, <2>1
    <2>4. QED  BY <1>2, <2>2, <2>3 DEF Balanced, after
  <1>15. chosen = I \/ chosen = M \/ chosen = J  BY <1>3, <1>8
  <1>16. QED  BY <1>12, <1>13, <1>14, <1>15

\* How often a class has been passed over shows in its credit, which every pick it
\* loses raises by its weight from a lowest value it never falls under.
Paced(k, n) ==
    /\ n \in [SharedMembers -> Nat]
    /\ 4 * n["Interactive"] - 5 <= k["Interactive"]
    /\ 2 * n["Metadata"] - 4 <= k["Metadata"]
    /\ n["Job"] - 4 <= k["Job"]

LEMMA PickKeepsPace ==
    ASSUME NEW active \in SUBSET SharedMembers, active # {},
           NEW k, Balanced(k), NEW n, Paced(k, n),
           NEW m, m = [c \in SharedMembers |->
                          IF c \in active \ {Chosen(k, active)} THEN n[c] + 1 ELSE 0]
    PROVE  Paced(AfterPick(k, active), m)
  <1> DEFINE after == AfterPick(k, active)
             chosen == Chosen(k, active)
  <1>1. Balanced(after)  BY PickKeepsBalance
  <1>2. \A c \in SharedMembers :
           after[c] = k[c] + Share(c, active) - (IF c = chosen THEN Total(active) ELSE 0)
    BY PickIs DEF Balanced
  <1>3. /\ n \in [SharedMembers -> Nat] /\ k \in [SharedMembers -> Int]
        /\ after \in [SharedMembers -> Int]
    BY <1>1 DEF Balanced, Paced
  <1>4. /\ m \in [SharedMembers -> Nat]
        /\ \A c \in SharedMembers : m[c] = IF c \in active /\ c # chosen THEN n[c] + 1 ELSE 0
    BY <1>3
  <1> HIDE DEF after, chosen
  <1>5. \A c \in SharedMembers : \/ m[c] = 0
                                 \/ m[c] = n[c] + 1 /\ after[c] = k[c] + Weight[c]
    <2> SUFFICES ASSUME NEW c \in SharedMembers, c \in active, c # chosen
                 PROVE  m[c] = n[c] + 1 /\ after[c] = k[c] + Weight[c]
      BY <1>4
    <2>1. Share(c, active) = Weight[c] /\ Weight[c] \in Int  BY DEF Share, Weight, SharedMembers
    <2>2. k[c] \in Int  BY <1>3
    <2>3. after[c] = k[c] + Weight[c]  BY <1>2, <2>1, <2>2
    <2>4. QED  BY <1>4, <2>3
  <1>6. /\ Weight["Interactive"] = 4 /\ Weight["Metadata"] = 2 /\ Weight["Job"] = 1  BY DEF Weight
  <1>7. QED  BY <1>1, <1>3, <1>4, <1>5, <1>6 DEF Balanced, Even, Paced, SharedMembers, after

--------------------------------------------------------------------------------
(* SharedRoundRobin on its own.                                                 *)

\* The inductive invariant of a rotation with credits k that has passed over n.
Rotating(k, n) == Balanced(k) /\ Paced(k, n)

LEMMA RotatingIsFair ==
    ASSUME NEW k, NEW n, Rotating(k, n)
    PROVE  /\ k \in [SharedMembers -> -5..4]
           /\ n["Interactive"] <= 2 /\ n["Metadata"] <= 4 /\ n["Job"] <= 8
  <1>1. \A c \in SharedMembers : k[c] \in -5..4
    <2>1. \A c \in SharedMembers : k[c] \in Int  BY DEF Rotating, Balanced
    <2>2. \A c \in SharedMembers : -5 <= k[c] /\ k[c] <= 4
      BY <2>1 DEF Rotating, Balanced, Even, SharedMembers
    <2>3. QED  BY <2>1, <2>2
  <1>2. k \in [SharedMembers -> -5..4]  BY <1>1 DEF Rotating, Balanced
  <1>3. \A c \in SharedMembers : n[c] \in Nat  BY DEF Rotating, Paced
  <1>4. n["Interactive"] <= 2 /\ n["Metadata"] <= 4 /\ n["Job"] <= 8
    BY <1>1, <1>3 DEF Rotating, Balanced, Paced, SharedMembers
  <1>5. QED  BY <1>2, <1>4

LEMMA RotationStarts == Rotating(NoCredit, NothingPassed)
  BY DEF Rotating, Balanced, Even, Paced, NoCredit, NothingPassed, SharedMembers

LEMMA RotationGoesOn ==
    ASSUME NEW k, NEW n, Rotating(k, n), NEW active \in (SUBSET SharedMembers) \ {{}}
    PROVE  Rotating(AfterPick(k, active),
                    [c \in SharedMembers |->
                        IF c \in active \ {Chosen(k, active)} THEN n[c] + 1 ELSE 0])
  BY PickKeepsBalance, PickKeepsPace DEF Rotating

\* However the queues fill and empty, a class somebody waits in gets the shared slot
\* after two, four or eight picks at most, and its credit stays within its bounds.
THEOREM RotationIsFair == SharedSpec => []NoStarvation
  <1>1. SharedInit => Rotating(balance, skipped)
    BY RotationStarts DEF SharedInit, NothingPassed
  <1>2. Rotating(balance, skipped) /\ [SharedNext]_sharedVars => Rotating(balance, skipped)'
    <2> SUFFICES ASSUME Rotating(balance, skipped), [SharedNext]_sharedVars
                 PROVE  Rotating(balance', skipped')
      OBVIOUS
    <2>1. CASE SharedNext
      <3>1. PICK active \in (SUBSET SharedMembers) \ {{}} : Pick(active)
        BY <2>1 DEF SharedNext
      <3>2. QED  BY <3>1, RotationGoesOn DEF Pick
    <2>2. CASE UNCHANGED sharedVars  BY <2>2 DEF sharedVars
    <2>3. QED  BY <2>1, <2>2
  <1>3. Rotating(balance, skipped) => NoStarvation  BY RotatingIsFair DEF NoStarvation
  <1>4. QED  BY <1>1, <1>2, <1>3, PTL DEF SharedSpec

--------------------------------------------------------------------------------
(* The rotation of a service of the ledger.                                     *)

\* Only a shared grant moves the rotation of a service.
LEMMA OnlyPumpSharedPays ==
    ASSUME LedgerNext, credit' # credit
    PROVE  \E s \in Service : PumpShared(s)
  <1> SUFFICES ASSUME \A s \in Service : ~PumpShared(s) PROVE FALSE  OBVIOUS
  <1>1. CASE \E s \in Service : Ensure(s) \/ Attach(s) \/ Detach(s) \/ DrainConnection(s)
    BY <1>1 DEF Ensure, Attach, Detach, DrainConnection
  <1>2. CASE \E claim \in Claim : \/ \E p \in Permit : Admit(claim, p)
                                  \/ \E w \in Waiter : Enqueue(claim, w)
    BY <1>2 DEF Admit, Enqueue
  <1>3. CASE \E ids \in SUBSET Permit : ids # {} /\ \E claims \in [ids -> Claim] : AdmitMany(claims)
    BY <1>3 DEF AdmitMany
  <1>4. CASE \E w \in Waiter : Cancel(w) \/ Elapse(w)  BY <1>4 DEF Cancel, Elapse
  <1>5. CASE \E p \in Permit : Release(p)  BY <1>5 DEF Release
  <1>6. CASE \/ \E o \in Org : DrainOrganization(o)
             \/ \E n \in Worker : DrainNode(n)
    BY <1>6 DEF DrainOrganization, DrainNode
  <1>7. CASE \/ \E gone \in SUBSET (late \cap Queued) : PumpStart(gone)
             \/ \E s \in Service : PumpNext(s)
    BY <1>7 DEF PumpStart, PumpNext
  <1>8. CASE PumpGrant  BY <1>8 DEF PumpGrant, PumpReserved
  <1>9. QED  BY <1>1, <1>2, <1>3, <1>4, <1>5, <1>6, <1>7, <1>8 DEF LedgerNext

CreditsBalance ==
    /\ credit \in [Service -> [SharedMembers -> Int]]
    /\ \A s \in Service : Balanced(credit[s])

LEMMA CreditsFirst == LedgerInit => CreditsBalance
  <1>1. NoCredit \in [SharedMembers -> Int] /\ Balanced(NoCredit)
    BY DEF Balanced, Even, NoCredit, SharedMembers
  <1>2. QED  BY <1>1 DEF LedgerInit, CreditsBalance

LEMMA CreditsNext == CreditsBalance /\ [LedgerNext]_ledgerVars => CreditsBalance'
  <1> SUFFICES ASSUME CreditsBalance, [LedgerNext]_ledgerVars PROVE CreditsBalance'  OBVIOUS
  <1>1. CASE credit' = credit  BY <1>1 DEF CreditsBalance
  <1>2. CASE credit' # credit
    <2>1. LedgerNext  BY <1>2 DEF ledgerVars
    <2>2. PICK s \in Service : PumpShared(s)  BY <1>2, <2>1, OnlyPumpSharedPays
    <2>3. /\ Active(s) \in SUBSET SharedMembers /\ Active(s) # {}
          /\ credit' = [credit EXCEPT ![s] = AfterPick(@, Active(s))]
      BY <2>2 DEF PumpShared, Active
    <2> DEFINE active == Active(s)
    <2>4. active \in SUBSET SharedMembers /\ active # {}  BY <2>3
    <2>5. Balanced(credit[s]) /\ credit' = [credit EXCEPT ![s] = AfterPick(credit[s], active)]
      BY <2>3 DEF CreditsBalance
    <2> HIDE DEF active
    <2>6. Balanced(AfterPick(credit[s], active))  BY <2>4, <2>5, PickKeepsBalance
    <2>7. AfterPick(credit[s], active) \in [SharedMembers -> Int]  BY <2>6 DEF Balanced
    <2>8. QED  BY <2>5, <2>6, <2>7 DEF CreditsBalance
  <1>3. QED  BY <1>1, <1>2

\* The shared slots of every service are divided by the weights of the classes, for
\* ever: what one class is owed the others owe, and no credit runs away.
THEOREM CreditsStayBalanced == LedgerSpec => []CreditsBalance
  BY CreditsFirst, CreditsNext, PTL DEF LedgerSpec

LEMMA RotationIs ==
    ASSUME NEW s \in Service
    PROVE  /\ Rotation(s)!SharedInit <=> credit[s] = NoCredit /\ passed[s] = NothingPassed
           /\ Rotation(s)!SharedNext <=>
                 \E active \in (SUBSET SharedMembers) \ {{}} :
                    /\ credit'[s] = AfterPick(credit[s], active)
                    /\ passed'[s] = [c \in SharedMembers |->
                          IF c \in active \ {Chosen(credit[s], active)} THEN passed[s][c] + 1 ELSE 0]
           /\ Rotation(s)!sharedVars = <<credit[s], passed[s]>>
           /\ Rotation(s)!NoStarvation <=>
                 /\ credit[s] \in [SharedMembers -> -5..4]
                 /\ passed[s]["Interactive"] <= 2
                 /\ passed[s]["Metadata"] <= 4
                 /\ passed[s]["Job"] <= 8
  <1>1. Rotation(s)!SharedMembers = SharedMembers  BY DEF Rotation!SharedMembers, SharedMembers
  <1>2. \A k, a : Rotation(s)!Earned(k, a) = Earned(k, a)
    BY <1>1 DEF Rotation!Earned, Earned, Rotation!Share, Share, Rotation!Weight, Weight
  <1>3. \A k, a : Rotation(s)!Chosen(k, a) = Chosen(k, a)
    <2>1. Rotation(s)!Rank = Rank  BY DEF Rotation!Rank, Rank
    <2>2. QED  BY <1>2, <2>1, SMT DEF Rotation!Chosen, Chosen
  <1>4. \A a : Rotation(s)!Total(a) = Total(a)
    BY DEF Rotation!Total, Total, Rotation!Share, Share, Rotation!Weight, Weight
  <1>5. \A k, a : Rotation(s)!AfterPick(k, a) = AfterPick(k, a)
    BY <1>2, <1>3, <1>4, Zenon DEF Rotation!AfterPick, AfterPick
  <1>6. Rotation(s)!SharedInit <=> credit[s] = NoCredit /\ passed[s] = NothingPassed
    BY <1>1, Zenon DEF Rotation!SharedInit, Rotation!NoCredit, NoCredit, NothingPassed
  <1>7. Rotation(s)!SharedNext <=>
           \E active \in (SUBSET SharedMembers) \ {{}} :
              /\ credit'[s] = AfterPick(credit[s], active)
              /\ passed'[s] = [c \in SharedMembers |->
                    IF c \in active \ {Chosen(credit[s], active)} THEN passed[s][c] + 1 ELSE 0]
    <2>1. \A active : Rotation(s)!Pick(active) <=>
             /\ credit'[s] = AfterPick(credit[s], active)
             /\ passed'[s] = [c \in SharedMembers |->
                   IF c \in active \ {Chosen(credit[s], active)} THEN passed[s][c] + 1 ELSE 0]
      BY <1>1, <1>3, <1>5, SMT DEF Rotation!Pick
    <2>2. QED  BY <1>1, <2>1, Zenon DEF Rotation!SharedNext
  <1>8. Rotation(s)!sharedVars = <<credit[s], passed[s]>>  BY DEF Rotation!sharedVars
  <1>9. Rotation(s)!NoStarvation <=>
           /\ credit[s] \in [SharedMembers -> -5..4]
           /\ passed[s]["Interactive"] <= 2
           /\ passed[s]["Metadata"] <= 4
           /\ passed[s]["Job"] <= 8
    BY <1>1, Zenon DEF Rotation!NoStarvation
  <1>10. QED  BY <1>6, <1>7, <1>8, <1>9

\* SharedRoundRobin does not starve a class under another name either.
LEMMA EveryRotationIsFair ==
    ASSUME NEW s \in Service
    PROVE  Rotation(s)!SharedSpec => []Rotation(s)!NoStarvation
  <1> DEFINE Good == Rotating(credit[s], passed[s])
  <1>1. Rotation(s)!SharedInit => Good  BY RotationIs, RotationStarts
  <1>2. Good /\ [Rotation(s)!SharedNext]_(Rotation(s)!sharedVars) => Good'
    <2> SUFFICES ASSUME Good, [Rotation(s)!SharedNext]_(Rotation(s)!sharedVars)
                 PROVE  Rotating(credit'[s], passed'[s])
      OBVIOUS
    <2>1. CASE Rotation(s)!SharedNext
      <3>1. PICK active \in (SUBSET SharedMembers) \ {{}} :
               /\ credit'[s] = AfterPick(credit[s], active)
               /\ passed'[s] = [c \in SharedMembers |->
                     IF c \in active \ {Chosen(credit[s], active)} THEN passed[s][c] + 1 ELSE 0]
        BY <2>1, RotationIs, Zenon
      <3>2. QED  BY <3>1, RotationGoesOn
    <2>2. CASE UNCHANGED Rotation(s)!sharedVars  BY <2>2 DEF Rotation!sharedVars
    <2>3. QED  BY <2>1, <2>2
  <1>3. Good => Rotation(s)!NoStarvation  BY RotationIs, RotatingIsFair
  <1> HIDE DEF Good
  <1>4. QED  BY <1>1, <1>2, <1>3, PTL DEF Rotation!SharedSpec

RotationTypes ==
    /\ credit \in [Service -> [SharedMembers -> Int]]
    /\ passed \in [Service -> [SharedMembers -> Nat]]

\* A step of the ledger, or of somebody else who leaves the credits alone.
LEMMA Remembered ==
    ASSUME Remembers, LedgerNext \/ credit' = credit
    PROVE  \/ UNCHANGED <<credit, passed>>
           \/ \E s \in Service : PumpShared(s) /\ PassesOver(s)
  <1>1. CASE \E s \in Service : PumpShared(s) /\ PassesOver(s)  BY <1>1
  <1>2. CASE (\A s \in Service : ~PumpShared(s)) /\ UNCHANGED passed
    BY <1>2, OnlyPumpSharedPays
  <1>3. QED  BY <1>1, <1>2 DEF Remembers

LEMMA RotationStep ==
    ASSUME RotationTypes,
           \/ UNCHANGED <<credit, passed>>
           \/ \E s \in Service : PumpShared(s) /\ PassesOver(s)
    PROVE  /\ RotationTypes'
           /\ \A s \in Service : [Rotation(s)!SharedNext]_(Rotation(s)!sharedVars)
  <1>1. CASE UNCHANGED <<credit, passed>>
    <2>1. RotationTypes'  BY <1>1 DEF RotationTypes
    <2>2. ASSUME NEW s \in Service PROVE UNCHANGED Rotation(s)!sharedVars  BY <1>1 DEF Rotation!sharedVars
    <2>3. QED  BY <2>1, <2>2
  <1>2. CASE \E s \in Service : PumpShared(s) /\ PassesOver(s)
    <2>2. PICK s \in Service : PumpShared(s) /\ PassesOver(s)  BY <1>2
    <2>3. PICK active : active = Active(s)  OBVIOUS
    <2>4. active \in (SUBSET SharedMembers) \ {{}}  BY <2>2, <2>3 DEF PumpShared, Active
    <2>5. credit' = [credit EXCEPT ![s] = AfterPick(credit[s], active)]
      BY <2>2, <2>3, Zenon DEF PumpShared
    <2>6. PICK count : count = [c \in SharedMembers |->
                 IF c \in active \ {Chosen(credit[s], active)} THEN passed[s][c] + 1 ELSE 0]
      OBVIOUS
    <2>7. passed' = [passed EXCEPT ![s] = count]  BY <2>2, <2>3, <2>6, Zenon DEF PassesOver
    <2>8. PICK after : after = AfterPick(credit[s], active)  OBVIOUS
    <2>9. after \in [SharedMembers -> Int]  BY <2>4, <2>8, PickIs DEF RotationTypes
    <2>10. count \in [SharedMembers -> Nat]  BY <2>6 DEF RotationTypes
    <2>11. credit' = [credit EXCEPT ![s] = after]  BY <2>5, <2>8
    <2>12. RotationTypes'  BY <2>7, <2>9, <2>10, <2>11 DEF RotationTypes
    <2>13. credit'[s] = after /\ passed'[s] = count  BY <2>7, <2>11 DEF RotationTypes
    <2>14. Rotation(s)!SharedNext  BY <2>4, <2>6, <2>8, <2>13, RotationIs, ZenonT(60)
    <2>15. ASSUME NEW t \in Service, t # s PROVE UNCHANGED Rotation(t)!sharedVars
      <3>1. credit'[t] = credit[t] /\ passed'[t] = passed[t]
        BY <2>7, <2>11, <2>15 DEF RotationTypes
      <3>2. QED  BY <3>1 DEF Rotation!sharedVars
    <2>16. QED  BY <2>12, <2>14, <2>15
  <1>3. QED  BY <1>1, <1>2

LEMMA RotationFirst ==
    ASSUME LedgerInit, passed = [s \in Service |-> NothingPassed]
    PROVE  RotationTypes /\ \A s \in Service : Rotation(s)!SharedInit
  <1>1. /\ credit = [s \in Service |-> NoCredit] /\ passed = [s \in Service |-> NothingPassed]
    BY DEF LedgerInit
  <1>2. NoCredit \in [SharedMembers -> Int] /\ NothingPassed \in [SharedMembers -> Nat]
    BY DEF NoCredit, NothingPassed
  <1>3. RotationTypes  BY <1>1, <1>2 DEF RotationTypes
  <1>4. ASSUME NEW s \in Service PROVE Rotation(s)!SharedInit
    <2>1. credit[s] = NoCredit /\ passed[s] = NothingPassed  BY <1>1
    <2>2. QED  BY <2>1, RotationIs
  <1>5. QED  BY <1>3, <1>4

\* Whatever the ledger admits, queues, expires, frees or drains, and whichever of its
\* services the pump is at, the shared slots of each service are handed out by the
\* rotation: the detailed ledger implements SharedRoundRobin.
THEOREM LedgerRotates ==
    ASSUME NEW s \in Service
    PROVE  RotationSpec => Rotation(s)!SharedSpec
  <1>1. RotationInit => RotationTypes /\ Rotation(s)!SharedInit  BY RotationFirst DEF RotationInit
  <1>2. RotationTypes /\ [RotationNext]_rotationVars
           => RotationTypes' /\ [Rotation(s)!SharedNext]_(Rotation(s)!sharedVars)
    <2> SUFFICES ASSUME RotationTypes, [RotationNext]_rotationVars
                 PROVE  RotationTypes' /\ [Rotation(s)!SharedNext]_(Rotation(s)!sharedVars)
      OBVIOUS
    <2>1. \/ UNCHANGED <<credit, passed>>
          \/ \E t \in Service : PumpShared(t) /\ PassesOver(t)
      BY Remembered DEF RotationNext, rotationVars, ledgerVars
    <2>2. QED  BY <2>1, RotationStep
  <1>3. QED  BY <1>1, <1>2, PTL DEF RotationSpec, Rotation!SharedSpec

\* So no class starves in the ledger: the shared slots pass over a class that keeps
\* somebody waiting at most two, four or eight times in a row.
THEOREM NoClassStarves ==
    ASSUME NEW s \in Service
    PROVE  RotationSpec => []Rotation(s)!NoStarvation
  BY LedgerRotates, EveryRotationIsFair, PTL

================================================================================
