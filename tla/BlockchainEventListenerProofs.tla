--------------------- MODULE BlockchainEventListenerProofs ---------------------
(***************************************************************************)
(* Proofs about BlockchainEventListener.  Types hold for any chains, any   *)
(* interleaving and any number of faults.  That no event is lost and that  *)
(* they are handled in order is proved for a node with one chain: with     *)
(* several the handler object they share mixes them up (the run            *)
(* listener_chains).                                                       *)
(***************************************************************************)
EXTENDS BlockchainEventListener, SequenceTheorems, FiniteSetTheorems, WellFoundedInduction, TLAPS

-----------------------------------------------------------------------------
(* The blockchain listener: lists.                                          *)

LEMMA ListRange ==
    ASSUME NEW S, NEW s \in Seq(S)
    PROVE  /\ Range(s) = {s[i] : i \in 1..Len(s)} /\ Range(s) \subseteq S
           /\ Range(<<>>) = {} /\ (s = <<>> <=> Range(s) = {})
<1>1. DOMAIN s = 1..Len(s) /\ Len(s) \in Nat /\ \A i \in 1..Len(s) : s[i] \in S
    BY ElementOfSeq
<1>2. Range(<<>>) = {}
    BY DEF Range
<1>3. ASSUME Range(s) = {} PROVE s = <<>>
  <2>1. ~(1 \in DOMAIN s)
      BY <1>3 DEF Range
  <2> QED
      BY <1>1, <2>1
<1> QED
    BY <1>1, <1>2, <1>3 DEF Range

LEMMA JoinedRange ==
    ASSUME NEW S, NEW s \in Seq(S), NEW t \in Seq(S)
    PROVE  /\ s \o t \in Seq(S) /\ Range(s \o t) = Range(s) \cup Range(t)
           /\ Len(s \o t) = Len(s) + Len(t) /\ \A i \in 1..Len(t) : (s \o t)[Len(s) + i] = t[i]
<1>1. /\ s \o t \in Seq(S) /\ Len(s \o t) = Len(s) + Len(t) /\ Len(s) \in Nat /\ Len(t) \in Nat
      /\ \A i \in 1..Len(s) : (s \o t)[i] = s[i]
      /\ \A i \in 1..Len(t) : (s \o t)[Len(s) + i] = t[i]
    BY ConcatProperties
<1>2. Range(s) = {s[i] : i \in 1..Len(s)} /\ Range(t) = {t[i] : i \in 1..Len(t)}
    BY ListRange
<1> DEFINE u == s \o t
<1>u. u \in Seq(S) /\ Len(u) = Len(s) + Len(t)
    BY <1>1
<1> HIDE DEF u
<1>v. Range(u) = {u[i] : i \in 1..Len(u)}
    BY <1>u, ListRange
<1>3. /\ \A i \in 1..Len(s) : u[i] = s[i]
      /\ \A i \in 1..Len(t) : u[Len(s) + i] = t[i]
      /\ Range(u) = {u[i] : i \in 1..Len(s) + Len(t)}
    BY <1>1, <1>u, <1>v DEF u
<1>4. Range(u) \subseteq Range(s) \cup Range(t)
  <2> SUFFICES ASSUME NEW i \in 1..Len(s) + Len(t) PROVE u[i] \in Range(s) \cup Range(t)
      BY <1>3
  <2>1. CASE i <= Len(s)
      BY <2>1, <1>1, <1>2, <1>3
  <2>2. CASE i > Len(s)
    <3>1. i - Len(s) \in 1..Len(t) /\ i = Len(s) + (i - Len(s))
        BY <2>2, <1>1
    <3>2. u[i] = t[i - Len(s)]
        BY <3>1, <1>3
    <3> QED
        BY <3>1, <3>2, <1>2
  <2> QED
      BY <2>1, <2>2, <1>1
<1>5. Range(s) \subseteq Range(u)
  <2> SUFFICES ASSUME NEW i \in 1..Len(s) PROVE s[i] \in Range(u)
      BY <1>2
  <2>1. i \in 1..Len(s) + Len(t)
      BY <1>1
  <2> QED
      BY <2>1, <1>3
<1>6. Range(t) \subseteq Range(u)
  <2> SUFFICES ASSUME NEW i \in 1..Len(t) PROVE t[i] \in Range(u)
      BY <1>2
  <2>1. Len(s) + i \in 1..Len(s) + Len(t)
      BY <1>1
  <2> QED
      BY <2>1, <1>3
<1> QED
    BY <1>1, <1>4, <1>5, <1>6 DEF u

(* A set as a list.                                                         *)
LEMMA SetIsListed ==
    ASSUME NEW S, IsFiniteSet(S)
    PROVE  SetToSeq(S) \in Seq(S) /\ Range(SetToSeq(S)) = S
<1> DEFINE n == Cardinality(S)
           f == SetToSeq(S)
<1>1. n \in Nat /\ ExistsBijection(1..n, S)
    BY FS_CardinalityType
<1>2. \E g \in [1..n -> S] : IsInjective(g)
    BY <1>1 DEF ExistsBijection, Bijection, Injection, IsInjective
<1>3. f \in [1..n -> S] /\ IsInjective(f)
    BY <1>2 DEF SetToSeq
<1>4. f \in Injection(1..n, S)
    BY <1>3 DEF Injection, IsInjective
<1> HIDE DEF f, n
<1>5. IsFiniteSet(1..n) /\ Cardinality(1..n) = n
    BY <1>1, FS_Interval
<1>6. f \in Surjection(1..n, S)
    BY <1>4, <1>5, FS_Injection DEF n
<1>7. \A x \in S : \E i \in 1..n : f[i] = x
    BY <1>6 DEF Surjection
<1>8. f \in Seq(S) /\ Len(f) = n /\ DOMAIN f = 1..n
    BY <1>1, <1>3
<1>9. Range(f) = S
    BY <1>3, <1>7, <1>8 DEF Range
<1> QED
    BY <1>8, <1>9 DEF f

-----------------------------------------------------------------------------
(* Sorting                                                                  *)

Ascending(s, i) == \A j, k \in i .. Len(s) : j <= k => s[j][2] <= s[k][2]

LEMMA RankIsAPlace ==
    ASSUME NEW s \in Seq(Event)
    PROVE  /\ \A i \in 1..Len(s) : Rank(s, i) \in 1..Len(s)
           /\ \A i, j \in 1..Len(s) :
                 s[i][2] < s[j][2] \/ (s[i][2] = s[j][2] /\ i < j) => Rank(s, i) < Rank(s, j)
           /\ \A k \in 1..Len(s) : \E i \in 1..Len(s) : Rank(s, i) = k
<1> DEFINE n == Len(s)
           Before(i) == {j \in 1..n : s[j][2] < s[i][2] \/ (s[j][2] = s[i][2] /\ j <= i)}
<1>1. n \in Nat /\ DOMAIN s = 1..n /\ \A i \in 1..n : s[i][2] \in Int
  <2>1. \A i \in 1..n : s[i] \in Event
      BY ElementOfSeq
  <2> QED
      BY <2>1 DEF Event
<1>2. \A i \in 1..n : Rank(s, i) = Cardinality(Before(i))
    BY <1>1 DEF Rank
<1>3. IsFiniteSet(1..n) /\ Cardinality(1..n) = n
    BY <1>1, FS_Interval
<1>4. ASSUME NEW i \in 1..n
      PROVE  IsFiniteSet(Before(i)) /\ Cardinality(Before(i)) \in 1..n
  <2>1. Before(i) \subseteq 1..n /\ i \in Before(i)
      BY <1>1
  <2> HIDE DEF Before
  <2>2. IsFiniteSet(Before(i)) /\ Cardinality(Before(i)) <= n /\ Cardinality(Before(i)) \in Nat
      BY <2>1, <1>3, FS_Subset, FS_CardinalityType
  <2>3. Cardinality(Before(i)) # 0
      BY <2>1, <2>2, FS_EmptySet
  <2> QED
      BY <2>2, <2>3, <1>1
<1>5. ASSUME NEW i \in 1..n, NEW j \in 1..n, s[i][2] < s[j][2] \/ (s[i][2] = s[j][2] /\ i < j)
      PROVE  Cardinality(Before(i)) < Cardinality(Before(j))
  <2>1. Before(i) \subseteq Before(j) /\ j \in Before(j) /\ j \notin Before(i)
      BY <1>1, <1>5
  <2> HIDE DEF Before
  <2>2. Cardinality(Before(i)) <= Cardinality(Before(j))
        /\ Cardinality(Before(i)) # Cardinality(Before(j))
      BY <2>1, <1>4, FS_Subset
  <2> QED
      BY <2>2, <1>4
<1> DEFINE f == [i \in 1..n |-> Cardinality(Before(i))]
<1>6. f \in Injection(1..n, 1..n)
  <2>1. f \in [1..n -> 1..n]
      BY <1>4
  <2>3. \A i \in 1..n : f[i] = Cardinality(Before(i)) /\ Cardinality(Before(i)) \in 1..n
      BY <1>4
  <2> HIDE DEF f, Before
  <2>2. ASSUME NEW i \in 1..n, NEW j \in 1..n, i # j PROVE f[i] # f[j]
    <3>0. f[i] = Cardinality(Before(i)) /\ f[j] = Cardinality(Before(j))
          /\ Cardinality(Before(i)) \in 1..n /\ Cardinality(Before(j)) \in 1..n
        BY <2>3
    <3>1. CASE s[i][2] < s[j][2] \/ (s[i][2] = s[j][2] /\ i < j)
      <4>1. Cardinality(Before(i)) < Cardinality(Before(j))
          BY <3>1, <1>5
      <4> QED
          BY <4>1, <3>0, <1>1
    <3>2. CASE s[j][2] < s[i][2] \/ (s[j][2] = s[i][2] /\ j < i)
      <4>1. Cardinality(Before(j)) < Cardinality(Before(i))
          BY <3>2, <1>5
      <4> QED
          BY <4>1, <3>0, <1>1
    <3> QED
        BY <3>1, <3>2, <2>2, <1>1
  <2> QED
      BY <2>1, <2>2 DEF Injection, IsInjective
<1> HIDE DEF Before
<1>7. f \in Surjection(1..n, 1..n)
    BY <1>3, <1>6, FS_Injection
<1>8. \A k \in 1..n : \E i \in 1..n : Cardinality(Before(i)) = k
    BY <1>7 DEF Surjection
<1> QED
    BY <1>2, <1>4, <1>5, <1>8

LEMMA SortedIs ==
    ASSUME NEW s \in Seq(Event)
    PROVE  /\ Sorted(s) \in Seq(Event) /\ Len(Sorted(s)) = Len(s)
           /\ Range(Sorted(s)) = Range(s) /\ Ascending(Sorted(s), 1)
<1> DEFINE n == Len(s)
           at(k) == CHOOSE i \in 1..n : Rank(s, i) = k
<1>1. n \in Nat /\ DOMAIN s = 1..n /\ \A i \in 1..n : s[i] \in Event /\ s[i][2] \in Int
  <2>1. \A i \in 1..n : s[i] \in Event
      BY ElementOfSeq
  <2> QED
      BY <2>1 DEF Event
<1>2. \A k \in 1..n : at(k) \in 1..n /\ Rank(s, at(k)) = k
    BY RankIsAPlace
<1>3. Sorted(s) = [k \in 1..n |-> s[at(k)]]
    BY <1>1 DEF Sorted
<1> HIDE DEF at
<1>4. \A i \in 1..n : Rank(s, i) \in 1..n /\ at(Rank(s, i)) = i
  <2> TAKE i \in 1..n
  <2>1. Rank(s, i) \in 1..n
      BY RankIsAPlace
  <2>2. at(Rank(s, i)) \in 1..n /\ Rank(s, at(Rank(s, i))) = Rank(s, i)
      BY <1>2, <2>1
  <2> DEFINE j == at(Rank(s, i))
  <2> HIDE DEF j
  <2>3. j \in 1..n /\ Rank(s, j) = Rank(s, i)
      BY <2>2 DEF j
  <2>4. j = i
    <3>1. \A a, b \in 1..n : s[a][2] < s[b][2] \/ (s[a][2] = s[b][2] /\ a < b)
                              => Rank(s, a) < Rank(s, b)
        BY RankIsAPlace
    <3>2. ~(Rank(s, i) < Rank(s, j)) /\ ~(Rank(s, j) < Rank(s, i))
        BY <2>1, <2>3, <1>1
    <3>3. ~(s[i][2] < s[j][2] \/ (s[i][2] = s[j][2] /\ i < j))
        BY <3>1, <3>2, <2>3
    <3>4. ~(s[j][2] < s[i][2] \/ (s[j][2] = s[i][2] /\ j < i))
        BY <3>1, <3>2, <2>3
    <3>5. i \in Int /\ j \in Int /\ s[i][2] \in Int /\ s[j][2] \in Int
        BY <2>3, <1>1
    <3> QED
        BY ONLY <3>3, <3>4, <3>5
  <2> QED
      BY <2>1, <2>4 DEF j
<1>5. Sorted(s) \in Seq(Event) /\ Len(Sorted(s)) = n /\ DOMAIN Sorted(s) = 1..n
    BY <1>1, <1>2, <1>3
<1>6. Range(Sorted(s)) = Range(s)
    BY <1>1, <1>2, <1>3, <1>4, <1>5 DEF Range
<1>7. ASSUME NEW j \in 1..n, NEW k \in 1..n, j <= k PROVE Sorted(s)[j][2] <= Sorted(s)[k][2]
  <2>1. at(j) \in 1..n /\ at(k) \in 1..n /\ Rank(s, at(j)) = j /\ Rank(s, at(k)) = k
      BY <1>2
  <2>2. ~(s[at(k)][2] < s[at(j)][2])
    <3>1. s[at(k)][2] < s[at(j)][2] => Rank(s, at(k)) < Rank(s, at(j))
        BY <2>1, RankIsAPlace
    <3> QED
        BY <2>1, <3>1, <1>7, <1>1
  <2> QED
      BY <2>1, <2>2, <1>1, <1>3
<1> QED
    BY <1>5, <1>6, <1>7 DEF Ascending

-----------------------------------------------------------------------------
(* The blockchain listener: types.                                          *)

ListenTypes == TypeOK /\ \A c \in Chains : pc[c] \in Handling => cur[c] \in Event

Blocks(c) == {c} \X (1 .. Len(log[c]))

LEMMA LogIs ==
    ASSUME ListenTypes, NEW c \in Chains
    PROVE  /\ Len(log[c]) \in 0..MaxBlocks /\ Len(log[c]) \in Nat /\ log[c] \in Seq(Kinds)
           /\ DOMAIN log[c] = 1..Len(log[c]) /\ MaxBlocks \in Nat /\ Confirmations \in Nat
           /\ Confirmed(c) \in (0 - Confirmations)..MaxBlocks
           /\ Blocks(c) \subseteq Event /\ IsFiniteSet(Blocks(c))
           /\ \A e \in Blocks(c) : e = <<c, e[2]>> /\ e[1] = c /\ e[2] \in 1..Len(log[c])
           /\ \A b \in 1..Len(log[c]) : <<c, b>> \in Blocks(c)
<1>1. /\ log[c] \in Seq(Kinds) /\ Len(log[c]) <= MaxBlocks /\ MaxBlocks \in Nat /\ Confirmations \in Nat
    BY ListenerAssumption DEF ListenTypes, TypeOK
<1>2. Len(log[c]) \in Nat /\ DOMAIN log[c] = 1..Len(log[c])
    BY <1>1
<1>3. Confirmed(c) \in (0 - Confirmations)..MaxBlocks
    BY <1>1, <1>2 DEF Confirmed
<1>4. IsFiniteSet(Blocks(c))
    <2>1. IsFiniteSet({c})
        BY FS_Singleton
    <2>2. IsFiniteSet(1..Len(log[c]))
        BY <1>2, FS_Interval
    <2> QED BY <2>1, <2>2, FS_Product DEF Blocks
<1>5. Blocks(c) \subseteq Event
    BY <1>1, <1>2 DEF Blocks, Event
<1>6. /\ \A e \in Blocks(c) : e = <<c, e[2]>> /\ e[1] = c /\ e[2] \in 1..Len(log[c])
      /\ \A b \in 1..Len(log[c]) : <<c, b>> \in Blocks(c)
    BY DEF Blocks
<1> QED
    BY <1>1, <1>2, <1>3, <1>4, <1>5, <1>6

LEMMA InRangeIs ==
    ASSUME ListenTypes, NEW c \in Chains, NEW i, NEW j
    PROVE  /\ InRange(c, i, j) \subseteq Blocks(c) /\ InRange(c, i, j) \subseteq Event
           /\ \A e \in Blocks(c) : e \in InRange(c, i, j) <=> i < e[2] /\ e[2] <= j
BY LogIs DEF InRange, Blocks

(* How many changes there are up to a block.                                *)
LEMMA RegisteredIs ==
    ASSUME NEW c, NEW b \in Int
    PROVE  /\ Registered(c, b) \in Nat
           /\ b >= 0 => Registered(c, b) \in 0..b
           /\ \A a \in Int : a <= b => Registered(c, a) <= Registered(c, b)
           /\ \A a \in Int : (a < b /\ log[c][b] = "changed" /\ b >= 1) => Registered(c, a) < Registered(c, b)
<1> DEFINE S(k) == {i \in 1..k : log[c][i] = "changed"}
<1>1. \A k \in Int : IsFiniteSet(S(k)) /\ Cardinality(S(k)) \in Nat /\ (k >= 0 => Cardinality(S(k)) <= k)
  <2> SUFFICES ASSUME NEW k \in Int
               PROVE  IsFiniteSet(S(k)) /\ Cardinality(S(k)) \in Nat /\ (k >= 0 => Cardinality(S(k)) <= k)
      OBVIOUS
  <2>1. IsFiniteSet(1..k) /\ (k >= 0 => Cardinality(1..k) = k)
      BY FS_Interval
  <2>2. S(k) \subseteq 1..k
      OBVIOUS
  <2> HIDE DEF S
  <2>3. IsFiniteSet(S(k)) /\ Cardinality(S(k)) <= Cardinality(1..k)
      BY <2>1, <2>2, FS_Subset
  <2> QED
      BY <2>1, <2>3, FS_CardinalityType
<1>2. \A k \in Int : Registered(c, k) = Cardinality(S(k))
    BY DEF Registered
<1>3. \A a \in Int : a <= b => S(a) \subseteq S(b)
    OBVIOUS
<1>4. \A a \in Int : (a < b /\ log[c][b] = "changed" /\ b >= 1) => b \in S(b) /\ b \notin S(a)
    OBVIOUS
<1> HIDE DEF S
<1>5. \A a \in Int : a <= b => Cardinality(S(a)) <= Cardinality(S(b))
    BY <1>1, <1>3, FS_Subset
<1>6. ASSUME NEW a \in Int, a < b, log[c][b] = "changed", b >= 1
      PROVE  Cardinality(S(a)) < Cardinality(S(b))
  <2>1. S(a) \subseteq S(b) /\ S(a) # S(b)
      BY <1>3, <1>4, <1>6
  <2>2. Cardinality(S(a)) # Cardinality(S(b)) /\ Cardinality(S(a)) <= Cardinality(S(b))
      BY <2>1, <1>1, <1>5, <1>6, FS_Subset
  <2> QED
      BY <2>2, <1>1
<1>7. b >= 0 => Cardinality(S(b)) \in 0..b
    BY <1>1
<1>8. Registered(c, b) = Cardinality(S(b)) /\ \A a \in Int : Registered(c, a) = Cardinality(S(a))
    BY <1>2
<1> QED
    BY <1>1, <1>5, <1>6, <1>7, <1>8

LEMMA EmittedIs ==
    ASSUME ListenTypes, NEW c \in Chains, NEW v, NEW hub, NEW i, NEW j
    PROVE  /\ Emitted(c, v, hub, i, j) \in Seq(Event)
           /\ Range(Emitted(c, v, hub, i, j)) =
                 {e \in InRange(c, i, j) : IF Changed(e) THEN hub ELSE Registered(c, e[2]) = v}
<1> DEFINE S == {e \in InRange(c, i, j) : IF Changed(e) THEN hub ELSE Registered(c, e[2]) = v}
<1>1. S \subseteq Blocks(c) /\ Blocks(c) \subseteq Event /\ IsFiniteSet(Blocks(c))
    BY LogIs, InRangeIs
<1>2. Emitted(c, v, hub, i, j) = SetToSeq(S)
    BY DEF Emitted
<1> HIDE DEF S
<1>3. IsFiniteSet(S) /\ S \subseteq Event
    BY <1>1, FS_Subset
<1>4. SetToSeq(S) \in Seq(S) /\ Range(SetToSeq(S)) = S
    BY <1>3, SetIsListed
<1>5. Seq(S) \subseteq Seq(Event)
    BY <1>3
<1> QED
    BY <1>2, <1>4, <1>5 DEF S

-----------------------------------------------------------------------------
(* The loop                                                                 *)

OneChain == \A c, d \in Chains : c = d

Rest(s, i) == {s[j] : j \in i .. Len(s)}

LEMMA SubSeqIs ==
    ASSUME NEW s \in Seq(Event), NEW i \in Nat, NEW j \in Nat, 1 <= i, i <= j + 1, j <= Len(s)
    PROVE  /\ SubSeq(s, i, j) \in Seq(Event) /\ Len(SubSeq(s, i, j)) = j - i + 1
           /\ \A k \in 1..j - i + 1 : SubSeq(s, i, j)[k] = s[i + k - 1]
           /\ Range(SubSeq(s, i, j)) = {s[k] : k \in i..j}
<1>1. \A k \in i..j : k \in 1..Len(s)
    OBVIOUS
<1>2. /\ SubSeq(s, i, j) \in Seq(Event) /\ Len(SubSeq(s, i, j)) = j - i + 1
      /\ \A k \in 1..j - i + 1 : SubSeq(s, i, j)[k] = s[i + k - 1]
  <2>1. j - i + 1 = IF i <= j THEN j - i + 1 ELSE 0
      OBVIOUS
  <2> QED
      BY <1>1, <2>1, SubSeqProperties
<1> DEFINE u == SubSeq(s, i, j)
<1> HIDE DEF u
<1>3. Range(u) = {u[k] : k \in 1..Len(u)}
    BY <1>2, ListRange DEF u
<1>4. \A k \in 1..j - i + 1 : u[k] = s[i + k - 1] /\ i + k - 1 \in i..j
    BY <1>2 DEF u
<1>5. \A k \in i..j : k - i + 1 \in 1..j - i + 1 /\ u[k - i + 1] = s[k]
  <2> TAKE k \in i..j
  <2>1. k - i + 1 \in 1..j - i + 1 /\ i + (k - i + 1) - 1 = k
      OBVIOUS
  <2> QED
      BY <2>1, <1>4
<1>6. Len(u) = j - i + 1
    BY <1>2 DEF u
<1>7. Range(u) = {s[k] : k \in i..j}
  <2>1. ASSUME NEW k \in 1..Len(u) PROVE u[k] \in {s[l] : l \in i..j}
      BY ONLY <1>4, <1>6, <2>1
  <2>2. ASSUME NEW k \in i..j PROVE s[k] \in {u[l] : l \in 1..Len(u)}
      BY ONLY <1>5, <1>6, <2>2
  <2> QED
      BY ONLY <1>3, <2>1, <2>2
<1> QED
    BY <1>2, <1>7 DEF u

LEMMA MergedIs ==
    ASSUME OneChain, NEW evs \in Seq(Event), NEW i \in 1..Len(evs), Ascending(evs, i),
           NEW new \in Seq(Event)
    PROVE  /\ Merged(evs, i, new) \in Seq(Event)
           /\ Len(Merged(evs, i, new)) = Len(evs) + Len(new)
           /\ Range(Merged(evs, i, new)) = Range(evs) \cup Range(new)
           /\ Ascending(Merged(evs, i, new), i + 1)
           /\ Rest(evs, i) \ {evs[i]} \subseteq Rest(Merged(evs, i, new), i + 1)
           /\ Rest(Merged(evs, i, new), i + 1) \subseteq Rest(evs, i) \cup Range(new)
<1>1. Len(evs) \in Nat /\ Len(new) \in Nat /\ i \in Nat /\ i >= 1 /\ i <= Len(evs)
    OBVIOUS
<1>r. /\ \A k \in 1..Len(evs) : evs[k] \in Event
      /\ Range(evs) = {evs[k] : k \in 1..Len(evs)} /\ Range(new) \subseteq Event
    BY ElementOfSeq, ListRange
<1>e. \A e \in Event : e = <<e[1], e[2]>> /\ e[1] \in Chains /\ e[2] \in Int
    BY DEF Event
<1>2. CASE new = <<>>
  <2>1. Merged(evs, i, new) = evs /\ Len(new) = 0 /\ Range(new) = {}
      BY <1>2, ListRange DEF Merged
  <2>2. Ascending(evs, i + 1)
      BY <1>1 DEF Ascending
  <2>3. Rest(evs, i) \ {evs[i]} \subseteq Rest(evs, i + 1) /\ Rest(evs, i + 1) \subseteq Rest(evs, i)
      BY <1>1 DEF Rest
  <2> QED
      BY <2>1, <2>2, <2>3, <1>1, <1>r
<1>3. CASE new # <<>>
  <2> DEFINE p == SubSeq(evs, 1, i - 1)
             r == SubSeq(evs, i, Len(evs))
             q == Sorted(r \o new)
  <2>1. Merged(evs, i, new) = p \o q
      BY <1>3 DEF Merged
  <2>2. p \in Seq(Event) /\ Len(p) = i - 1 /\ Range(p) = {evs[k] : k \in 1..i - 1}
    <3>1. PICK h \in Nat : h = i - 1
        BY <1>1
    <3>2. 1 \in Nat /\ 1 <= 1 /\ 1 <= h + 1 /\ h <= Len(evs)
        BY <1>1, <3>1
    <3>3. /\ SubSeq(evs, 1, h) \in Seq(Event) /\ Len(SubSeq(evs, 1, h)) = h - 1 + 1
          /\ Range(SubSeq(evs, 1, h)) = {evs[k] : k \in 1..h}
        BY <3>2, SubSeqIs
    <3>4. h - 1 + 1 = h
        BY <3>1
    <3> QED
        BY <3>1, <3>3, <3>4
  <2>3. r \in Seq(Event) /\ Len(r) = Len(evs) - i + 1 /\ Range(r) = Rest(evs, i)
    <3>1. PICK h \in Nat : h = Len(evs)
        BY <1>1
    <3>2. i \in Nat /\ 1 <= i /\ i <= h + 1 /\ h <= Len(evs)
        BY <1>1, <3>1
    <3>3. /\ SubSeq(evs, i, h) \in Seq(Event) /\ Len(SubSeq(evs, i, h)) = h - i + 1
          /\ Range(SubSeq(evs, i, h)) = {evs[k] : k \in i..h}
        BY <3>2, SubSeqIs
    <3> QED
        BY <3>1, <3>3 DEF Rest
  <2> HIDE DEF p, r
  <2>4. r \o new \in Seq(Event) /\ Len(r \o new) = Len(evs) - i + 1 + Len(new)
        /\ Range(r \o new) = Rest(evs, i) \cup Range(new)
    <3>1. r \in Seq(Event)
        BY <2>3
    <3>2. /\ r \o new \in Seq(Event) /\ Len(r \o new) = Len(r) + Len(new)
          /\ Range(r \o new) = Range(r) \cup Range(new)
        BY <3>1, JoinedRange
    <3> QED
        BY <2>3, <3>2
  <2>5. q \in Seq(Event) /\ Len(q) = Len(evs) - i + 1 + Len(new)
        /\ Range(q) = Rest(evs, i) \cup Range(new) /\ Ascending(q, 1)
      BY <2>4, SortedIs
  <2> HIDE DEF q
  <2> DEFINE m == p \o q
  <2>6. m \in Seq(Event) /\ Len(m) = Len(evs) + Len(new) /\ Range(m) = Range(p) \cup Range(q)
        /\ \A k \in 1..Len(q) : m[i - 1 + k] = q[k]
    <3>0. p \in Seq(Event) /\ q \in Seq(Event)
        BY <2>2, <2>5
    <3>1. /\ Len(m) = Len(p) + Len(q) /\ \A k \in 1..Len(q) : m[Len(p) + k] = q[k]
          /\ m \in Seq(Event) /\ Range(m) = Range(p) \cup Range(q)
        BY <3>0, JoinedRange
    <3> HIDE DEF m
    <3> QED
        BY <3>1, <2>2, <2>5, <1>1
  <2> HIDE DEF m
  <2>7. \A k \in i..Len(m) : k - i + 1 \in 1..Len(q) /\ m[k] = q[k - i + 1]
    <3> TAKE k \in i..Len(m)
    <3>1. k - i + 1 \in 1..Len(q) /\ i - 1 + (k - i + 1) = k
        BY <2>5, <2>6, <1>1
    <3> QED
        BY <3>1, <2>6
  <2>8. Range(m) = Range(evs) \cup Range(new)
    <3>1. Range(evs) = Range(p) \cup Rest(evs, i)
      <4>1. \A k : k \in 1..Len(evs) <=> k \in 1..i - 1 \/ k \in i..Len(evs)
          BY ONLY <1>1
      <4>2. {evs[k] : k \in 1..Len(evs)} = {evs[k] : k \in 1..i - 1} \cup {evs[k] : k \in i..Len(evs)}
          BY ONLY <4>1
      <4> QED
          BY ONLY <4>2, <1>r, <2>2 DEF Rest
    <3> QED
        BY <3>1, <2>5, <2>6
  <2>9. Ascending(m, i + 1)
    <3> SUFFICES ASSUME NEW j \in i + 1..Len(m), NEW k \in i + 1..Len(m), j <= k
                 PROVE  m[j][2] <= m[k][2]
        BY DEF Ascending
    <3>1. j \in i..Len(m) /\ k \in i..Len(m) /\ j - i + 1 <= k - i + 1
        BY <1>1, <2>6
    <3> QED
        BY <3>1, <2>5, <2>7 DEF Ascending
  <2>10. Rest(m, i + 1) \subseteq Rest(evs, i) \cup Range(new)
    <3> SUFFICES ASSUME NEW k \in i + 1..Len(m) PROVE m[k] \in Range(q)
        BY <2>5 DEF Rest
    <3>1. k - i + 1 \in 1..Len(q) /\ m[k] = q[k - i + 1]
        BY <2>7, <1>1, <2>6
    <3> QED
        BY <3>1, <2>5, ListRange
  <2>11. Rest(evs, i) \ {evs[i]} \subseteq Rest(m, i + 1)
    <3> SUFFICES ASSUME NEW x \in Rest(evs, i), x # evs[i] PROVE x \in Rest(m, i + 1)
        OBVIOUS
    <3>1. x \in Range(q) /\ evs[i] \in Range(q) /\ Range(q) = {q[k] : k \in 1..Len(q)}
      <4>1. evs[i] \in Rest(evs, i)
          BY <1>1 DEF Rest
      <4>2. q \in Seq(Event)
          BY <2>5
      <4>3. Range(q) = {q[k] : k \in 1..Len(q)}
          BY <4>2, ListRange
      <4> QED
          BY <4>1, <4>3, <2>5
    <3>2. PICK k \in 1..Len(q) : x = q[k]
        BY <3>1
    <3>3. PICK k1 \in 1..Len(q) : evs[i] = q[k1]
        BY <3>1
    <3>4. x \in Event /\ evs[i] \in Event /\ evs[i][2] <= x[2]
        BY <1>1, <1>r DEF Rest, Ascending
    <3>5. x[2] # evs[i][2]
      <4>1. x[1] = evs[i][1] /\ x = <<x[1], x[2]>> /\ evs[i] = <<evs[i][1], evs[i][2]>>
          BY <3>4, <1>e DEF OneChain
      <4> QED
          BY <4>1
    <3>6. k # 1
      <4>1. q[1][2] <= evs[i][2]
        <5>1. Ascending(q, 1) /\ Len(q) \in Nat
            BY <2>5
        <5>2. 1 \in 1..Len(q) /\ k1 \in 1..Len(q) /\ 1 <= k1
            BY <3>3, <5>1
        <5>3. q[1][2] <= q[k1][2]
            BY ONLY <5>1, <5>2 DEF Ascending
        <5> QED
            BY <3>3, <5>3
      <4>2. x[2] \in Int /\ evs[i][2] \in Int
          BY <3>4, <1>e
      <4> QED
          BY <4>1, <4>2, <3>2, <3>4, <3>5
    <3>7. i + k - 1 \in i + 1..Len(m) /\ m[i + k - 1] = q[k]
      <4>1. i + k - 1 \in i + 1..Len(m) /\ i + k - 1 = i - 1 + k
          BY <3>6, <2>5, <2>6, <1>1
      <4> QED
          BY <4>1, <2>6
    <3> QED
        BY <3>2, <3>7 DEF Rest
  <2> QED
      BY <2>1, <2>6, <2>8, <2>9, <2>10, <2>11 DEF m
<1> QED
    BY <1>2, <1>3

-----------------------------------------------------------------------------
(* Types                                                                    *)

LEMMA MergedTypes ==
    ASSUME NEW evs \in Seq(Event), NEW i \in 1..Len(evs), NEW new \in Seq(Event)
    PROVE  Merged(evs, i, new) \in Seq(Event)
<1>1. CASE new = <<>>
    BY <1>1 DEF Merged
<1>2. CASE new # <<>>
  <2>0. i - 1 \in Nat /\ Len(evs) \in Nat
      OBVIOUS
  <2>1. PICK h \in Nat, n \in Nat : h = i - 1 /\ n = Len(evs)
      BY <2>0
  <2>2. /\ 1 \in Nat /\ 1 <= h + 1 /\ h <= Len(evs)
        /\ i \in Nat /\ 1 <= i /\ i <= n + 1 /\ n <= Len(evs)
      BY <2>1
  <2>3. SubSeq(evs, 1, h) \in Seq(Event) /\ SubSeq(evs, i, n) \in Seq(Event)
      BY <2>2, SubSeqIs
  <2>4. SubSeq(evs, i, n) \o new \in Seq(Event)
      BY <2>3, JoinedRange
  <2>5. Sorted(SubSeq(evs, i, n) \o new) \in Seq(Event)
      BY <2>4, SortedIs
  <2>6. SubSeq(evs, 1, h) \o Sorted(SubSeq(evs, i, n) \o new) \in Seq(Event)
      BY <2>3, <2>5, JoinedRange
  <2> QED
      BY <2>1, <2>6, <1>2 DEF Merged
<1> QED
    BY <1>1, <1>2

(* What the loop leaves in the fields, and of the command.                  *)
LoopTypes ==
    /\ events' \in Seq(Event) /\ fresh' \in Seq(Event)
    /\ addr' \in [Chains -> 0..MaxBlocks] /\ index' \in [Chains -> Nat]
    /\ pc' \in [Chains -> Places] /\ cur' \in [Chains -> Event \cup {<<>>}]
    /\ \A c \in Chains : pc'[c] \in Handling => cur'[c] \in Event

LEMMA LoopHasTypes ==
    ASSUME ListenTypes, NEW c \in Chains, NEW evs \in Seq(Event), NEW i \in Nat, i >= 1,
           NEW new \in Seq(Event), Loop(c, evs, i, new)
    PROVE  LoopTypes
<1>1. /\ addr \in [Chains -> 0..MaxBlocks] /\ index \in [Chains -> Nat]
      /\ pc \in [Chains -> Places] /\ cur \in [Chains -> Event \cup {<<>>}]
      /\ \A d \in Chains : pc[d] \in Handling => cur[d] \in Event
    BY DEF ListenTypes, TypeOK
<1>2. CASE i > Len(evs)
  <2>1. /\ events' = evs /\ fresh' = new /\ addr' = addr
        /\ cur' = [cur EXCEPT ![c] = <<>>] /\ index' = [index EXCEPT ![c] = 0]
        /\ pc' = [pc EXCEPT ![c] = "committing"]
      BY <1>2 DEF Loop
  <2>2. "committing" \in Places /\ "committing" \notin Handling
      BY DEF Places, Handling
  <2>3. pc' \in [Chains -> Places] /\ cur' \in [Chains -> Event \cup {<<>>}] /\ index' \in [Chains -> Nat]
      BY <2>1, <2>2, <1>1
  <2>4. \A d \in Chains : pc'[d] \in Handling => cur'[d] \in Event
      BY <2>1, <2>2, <1>1
  <2> QED
      BY <2>1, <2>3, <2>4, <1>1 DEF LoopTypes
<1>3. CASE ~(i > Len(evs))
  <2>1. i \in 1..Len(evs) /\ evs[i] \in Event
      BY <1>3, ElementOfSeq
  <2>2. /\ events' = Merged(evs, i, new) /\ fresh' = <<>>
        /\ cur' = [cur EXCEPT ![c] = evs[i]] /\ index' = [index EXCEPT ![c] = i]
        /\ addr' = (IF Replaces(evs[i])
                    THEN [addr EXCEPT ![evs[i][1]] = Registered(evs[i][1], evs[i][2])] ELSE addr)
        /\ \E p \in Places : pc' = [pc EXCEPT ![c] = p]
      BY <1>3 DEF Loop, Places, Handling
  <2>3. events' \in Seq(Event) /\ fresh' \in Seq(Event)
      BY <2>1, <2>2, MergedTypes, EmptySeq
  <2>4. Registered(evs[i][1], evs[i][2]) \in 0..MaxBlocks
    <3>1. evs[i][2] \in 1..MaxBlocks /\ MaxBlocks \in Nat
        BY <2>1, ListenerAssumption DEF Event
    <3>2. evs[i][2] \in Int /\ evs[i][2] >= 0
        BY <3>1
    <3>3. Registered(evs[i][1], evs[i][2]) \in 0..evs[i][2]
        BY <3>2, RegisteredIs
    <3> QED
        BY <3>1, <3>3
  <2>5. addr' \in [Chains -> 0..MaxBlocks]
      BY <2>2, <2>4, <1>1
  <2>6. pc' \in [Chains -> Places] /\ cur' \in [Chains -> Event \cup {<<>>}] /\ index' \in [Chains -> Nat]
      BY <2>1, <2>2, <1>1
  <2>7. \A d \in Chains : pc'[d] \in Handling => cur'[d] \in Event
      BY <2>1, <2>2, <1>1
  <2> QED
      BY <2>2, <2>3, <2>5, <2>6, <2>7 DEF LoopTypes
<1> QED
  <2>1. Len(evs) \in Nat
      OBVIOUS
  <2> QED
      BY <1>2, <1>3

LEMMA ListenTypesInit == Init => ListenTypes
<1> SUFFICES ASSUME Init PROVE ListenTypes
    OBVIOUS
<1>1. MaxBlocks \in Nat /\ Confirmations \in Nat /\ MaxFaults \in Nat
    BY ListenerAssumption
<1>2. 0 \in (0 - Confirmations)..MaxBlocks /\ 0 \in 0..MaxBlocks /\ 0 \in 0..MaxFaults
    BY <1>1
<1>3. Len(<<>>) <= MaxBlocks /\ <<>> \in Seq(Kinds) /\ <<>> \in Seq(Event)
    BY <1>1, EmptySeq
<1>4. NoRows \in [Chains -> Seq(Event)]
    BY <1>3 DEF NoRows
<1>5. "idle" \in Places /\ "idle" \notin Handling
    BY DEF Places, Handling
<1>6. \A c \in Chains : pc[c] \notin Handling
    BY <1>5 DEF Init
<1>7. TypeOK
    BY <1>1, <1>2, <1>3, <1>4, <1>5 DEF Init, TypeOK
<1> QED
    BY <1>6, <1>7 DEF ListenTypes

(* Of a command that ran outside the loop.                                  *)
LEMMA PlacesStay ==
    ASSUME ListenTypes, NEW c \in Chains, NEW p \in Places \ Handling, pc' = [pc EXCEPT ![c] = p],
           cur' = cur
    PROVE  /\ pc' \in [Chains -> Places] /\ cur' \in [Chains -> Event \cup {<<>>}]
           /\ \A d \in Chains : pc'[d] \in Handling => cur'[d] \in Event
BY DEF ListenTypes, TypeOK

LEMMA EmitTypes ==
    ASSUME ListenTypes, NEW c \in Chains, NEW kind \in Kinds, Emit(c, kind)
    PROVE  ListenTypes'
<1>1. /\ log \in [Chains -> Seq(Kinds)] /\ log' = [log EXCEPT ![c] = Append(log[c], kind)]
      /\ Len(log[c]) < MaxBlocks /\ \A d \in Chains : Len(log[d]) <= MaxBlocks
    BY DEF ListenTypes, TypeOK, Emit
<1>2. /\ Append(log[c], kind) \in Seq(Kinds) /\ Len(Append(log[c], kind)) = Len(log[c]) + 1
    BY <1>1, AppendProperties
<1>3. MaxBlocks \in Nat /\ Len(log[c]) \in Nat
    BY <1>1, ListenerAssumption
<1>4. log' \in [Chains -> Seq(Kinds)] /\ \A d \in Chains : Len(log'[d]) <= MaxBlocks
    BY <1>1, <1>2, <1>3
<1>5. UNCHANGED <<last, rows, done, handled, addr, currentBlock, events, fresh, pc,
          upto, got, cur, index, tx, txLast, dropped, refetched, faults>>
    BY DEF Emit, tables, memory, transaction, history
<1> QED
    BY <1>4, <1>5 DEF ListenTypes, TypeOK

LEMMA ReadTypes ==
    ASSUME ListenTypes, NEW c \in Chains, Tick(c) \/ GetBlock(c) \/ ReadLast(c)
    PROVE  ListenTypes'
<1> USE DEF tables, memory, transaction, history
<1>0. "queued" \in Places \ Handling /\ "reading" \in Places \ Handling /\ "fetching" \in Places \ Handling
    BY DEF Places, Handling, Fetching
<1>1. CASE Tick(c)
  <2>1. /\ UNCHANGED <<log, last, rows, done, handled, addr, currentBlock, events, fresh,
          upto, got, cur, index, tx, txLast, dropped, refetched, faults>>
        /\ pc' = [pc EXCEPT ![c] = "queued"]
      BY <1>1 DEF Tick
  <2> QED
      BY <2>1, <1>0, PlacesStay DEF ListenTypes, TypeOK
<1>2. CASE GetBlock(c)
  <2>1. /\ UNCHANGED <<log, last, rows, done, handled, addr, events, fresh,
          upto, got, cur, index, tx, txLast, dropped, refetched, faults>>
        /\ pc' = [pc EXCEPT ![c] = "reading"] /\ currentBlock' = Confirmed(c)
      BY <1>2 DEF GetBlock
  <2>2. Confirmed(c) \in (0 - Confirmations)..MaxBlocks
      BY LogIs
  <2> QED
      BY <2>1, <2>2, <1>0, PlacesStay DEF ListenTypes, TypeOK
<1>3. CASE ReadLast(c)
  <2>1. /\ UNCHANGED <<log, last, rows, done, handled, addr, currentBlock, events, fresh,
          got, cur, index, tx, txLast, dropped, refetched, faults>>
        /\ pc' = [pc EXCEPT ![c] = "fetching"] /\ upto' = [upto EXCEPT ![c] = currentBlock]
      BY <1>3 DEF ReadLast
  <2>2. currentBlock \in (0 - Confirmations)..MaxBlocks
        /\ upto \in [Chains -> (0 - Confirmations)..MaxBlocks]
      BY DEF ListenTypes, TypeOK
  <2>3. upto' \in [Chains -> (0 - Confirmations)..MaxBlocks]
      BY <2>1, <2>2
  <2> QED
      BY <2>1, <2>3, <1>0, PlacesStay DEF ListenTypes, TypeOK
<1> QED
    BY <1>1, <1>2, <1>3

LEMMA PastEventsTypes ==
    ASSUME ListenTypes, NEW c \in Chains, NEW chain \in Chains, NEW v, NEW hub,
           NEW i \in Int, NEW j \in Int, GetPastEvents(c, chain, v, hub, i, j)
    PROVE  /\ got' \in [Chains -> Seq(Event)] /\ dropped' \in SUBSET Event
           /\ faults' \in 0..MaxFaults /\ faults' >= faults
           /\ \A d \in Chains : d # c => got'[d] = got[d]
           /\ \E end \in Int : /\ got'[c] = Emitted(chain, v, hub, i, end)
                               /\ dropped' = dropped \cup InRange(chain, end, j)
                               /\ end <= j /\ (i <= end \/ end = j)
<1>1. got \in [Chains -> Seq(Event)] /\ dropped \in SUBSET Event /\ faults \in 0..MaxFaults
      /\ MaxFaults \in Nat /\ SyncWindow \in Nat
    BY ListenerAssumption DEF ListenTypes, TypeOK
<1> DEFINE EndsAt(end) ==
        /\ got' = [got EXCEPT ![c] = Emitted(chain, v, hub, i, end)]
        /\ dropped' = dropped \cup InRange(chain, end, j)
        /\ end <= j /\ (i <= end \/ end = j)
        /\ faults' \in 0..MaxFaults /\ faults' >= faults
<1>2. \E end \in Int : EndsAt(end)
  <2>1. CASE j - i > SyncWindow
    <3>1. EndsAt(i)
      <4>1. /\ got' = [got EXCEPT ![c] = Emitted(chain, v, hub, i, i)]
            /\ dropped' = dropped \cup InRange(chain, i, j) /\ faults' = faults
          BY <2>1 DEF GetPastEvents
      <4> QED
          BY <4>1, <2>1, <1>1
    <3> HIDE DEF EndsAt
    <3> QED
        BY <3>1
  <2>2. CASE ~(j - i > SyncWindow)
    <3>1. \/ /\ got' = [got EXCEPT ![c] = Emitted(chain, v, hub, i, j)]
             /\ dropped' = dropped \cup InRange(chain, j, j) /\ faults' = faults
          \/ \E end \in i..(j - 1) :
                /\ faults < MaxFaults /\ faults' = faults + 1
                /\ got' = [got EXCEPT ![c] = Emitted(chain, v, hub, i, end)]
                /\ dropped' = dropped \cup InRange(chain, end, j)
        BY <2>2 DEF GetPastEvents
    <3>2. CASE /\ got' = [got EXCEPT ![c] = Emitted(chain, v, hub, i, j)]
               /\ dropped' = dropped \cup InRange(chain, j, j) /\ faults' = faults
      <4>1. EndsAt(j)
          BY <3>2, <1>1
      <4> HIDE DEF EndsAt
      <4> QED
          BY <4>1
    <3>3. ASSUME NEW end \in i..(j - 1), faults < MaxFaults, faults' = faults + 1,
                 got' = [got EXCEPT ![c] = Emitted(chain, v, hub, i, end)],
                 dropped' = dropped \cup InRange(chain, end, j)
          PROVE  \E e \in Int : EndsAt(e)
      <4>1. end \in Int /\ EndsAt(end)
        <5>1. end \in Int /\ end <= j /\ i <= end /\ faults' \in 0..MaxFaults /\ faults' >= faults
            BY <3>3, <1>1
        <5> QED
            BY <5>1, <3>3
      <4> HIDE DEF EndsAt
      <4> QED
          BY <4>1
    <3> HIDE DEF EndsAt
    <3> QED
        BY <3>1, <3>2, <3>3
  <2> HIDE DEF EndsAt
  <2> QED
      BY <2>1, <2>2
<1>p. PICK end \in Int : EndsAt(end)
    BY <1>2
<1>3. Emitted(chain, v, hub, i, end) \in Seq(Event) /\ InRange(chain, end, j) \subseteq Event
    BY EmittedIs, InRangeIs
<1>4. got' \in [Chains -> Seq(Event)] /\ \A d \in Chains : d # c => got'[d] = got[d]
    BY <1>1, <1>p, <1>3
<1>5. got'[c] = Emitted(chain, v, hub, i, end)
    BY <1>1, <1>p
<1> QED
    BY <1>1, <1>p, <1>3, <1>4, <1>5

LEMMA FetchTypes ==
    ASSUME ListenTypes, NEW c \in Chains, Fetch(c) \/ Refetch(c)
    PROVE  ListenTypes'
<1> USE DEF tables, memory, transaction, history
<1>1. CASE Fetch(c)
  <2>1. /\ UNCHANGED <<log, last, rows, done, handled, addr, currentBlock, events, fresh,
          upto, cur, index, tx, txLast, refetched>>
        /\ pc' = [pc EXCEPT ![c] = "storing"]
        /\ GetPastEvents(c, c, addr[c], TRUE, last[c], upto[c])
      BY <1>1 DEF Fetch
  <2>2. last[c] \in Int /\ upto[c] \in Int
      BY ListenerAssumption DEF ListenTypes, TypeOK
  <2>3. got' \in [Chains -> Seq(Event)] /\ dropped' \in SUBSET Event /\ faults' \in 0..MaxFaults
      BY <2>1, <2>2, PastEventsTypes
  <2>4. "storing" \in Places \ Handling
      BY DEF Places, Fetching, Handling
  <2> QED
      BY <2>1, <2>3, <2>4, PlacesStay DEF ListenTypes, TypeOK
<1>2. CASE Refetch(c)
  <2>1. /\ UNCHANGED <<log, last, rows, done, handled, addr, currentBlock, events, fresh,
          upto, cur, index, tx, txLast, refetched>>
        /\ pc' = [pc EXCEPT ![c] = "inserting"] /\ pc[c] = "replacing"
        /\ GetPastEvents(c, cur[c][1], addr[cur[c][1]], FALSE, cur[c][2], currentBlock)
      BY <1>2 DEF Refetch
  <2>2. cur[c] \in Event
      BY <2>1 DEF ListenTypes, Handling
  <2>3. cur[c][1] \in Chains /\ cur[c][2] \in Int
      BY <2>2 DEF Event
  <2>4. currentBlock \in Int
      BY ListenerAssumption DEF ListenTypes, TypeOK
  <2>5. got' \in [Chains -> Seq(Event)] /\ dropped' \in SUBSET Event /\ faults' \in 0..MaxFaults
      BY <2>1, <2>3, <2>4, PastEventsTypes
  <2>6. "inserting" \in Places /\ pc \in [Chains -> Places] /\ cur' = cur
        /\ cur \in [Chains -> Event \cup {<<>>}]
      BY <2>1 DEF Places, Handling, ListenTypes, TypeOK
  <2>7. pc' \in [Chains -> Places]
      BY <2>1, <2>6
  <2>8. \A d \in Chains : pc'[d] \in Handling => cur'[d] \in Event
      BY <2>1, <2>2, <2>6 DEF ListenTypes
  <2> QED
      BY <2>1, <2>5, <2>6, <2>7, <2>8 DEF ListenTypes, TypeOK
<1> QED
    BY <1>1, <1>2

LEMMA StoringTypes ==
    ASSUME ListenTypes, NEW c \in Chains, Store(c)
    PROVE  ListenTypes'
<1>1. /\ UNCHANGED <<log, last, rows, done, handled, addr, currentBlock, events, fresh,
          cur, index, dropped, refetched, faults>>
      /\ tx' = [tx EXCEPT ![c] = [tx[c] EXCEPT ![c] = got[c]]]
      /\ txLast' = [txLast EXCEPT ![c] = currentBlock]
      /\ got' = [got EXCEPT ![c] = <<>>] /\ upto' = [upto EXCEPT ![c] = 0]
      /\ pc' = [pc EXCEPT ![c] = "listing"]
    BY DEF Store, CheckedBlock, tables, memory, history
<1>2. /\ tx \in [Chains -> [Chains -> Seq(Event)]] /\ got \in [Chains -> Seq(Event)]
      /\ txLast \in [Chains -> (0 - Confirmations)..MaxBlocks]
      /\ upto \in [Chains -> (0 - Confirmations)..MaxBlocks]
      /\ currentBlock \in (0 - Confirmations)..MaxBlocks
    BY DEF ListenTypes, TypeOK
<1>3. "listing" \in Places \ Handling
    BY DEF Places, Fetching, Handling
<1>4. tx' \in [Chains -> [Chains -> Seq(Event)]]
    BY <1>1, <1>2
<1>5. 0 \in (0 - Confirmations)..MaxBlocks /\ <<>> \in Seq(Event)
    BY ListenerAssumption, EmptySeq
<1>6. /\ got' \in [Chains -> Seq(Event)]
      /\ txLast' \in [Chains -> (0 - Confirmations)..MaxBlocks]
      /\ upto' \in [Chains -> (0 - Confirmations)..MaxBlocks]
    BY <1>1, <1>2, <1>5
<1> QED
    BY <1>1, <1>3, <1>4, <1>6, PlacesStay DEF ListenTypes, TypeOK

(* What a handler that threw left: in the range it was to fetch, or fetched. *)
LEMMA UnstoredIs ==
    ASSUME ListenTypes, NEW c \in Chains, cur[c][1] \in Chains
    PROVE  Unstored(c) \subseteq InRange(cur[c][1], cur[c][2], currentBlock) \cup Range(got[c])
<1> DEFINE new == Emitted(cur[c][1], addr[cur[c][1]], FALSE, cur[c][2], currentBlock)
<1>1. Range(new) \subseteq InRange(cur[c][1], cur[c][2], currentBlock)
  <2>1. PICK chain, v, hub, i, j :
            /\ chain \in Chains /\ chain = cur[c][1] /\ v = addr[chain]
            /\ hub = FALSE /\ i = cur[c][2] /\ j = currentBlock
      OBVIOUS
  <2>2. new = Emitted(chain, v, hub, i, j)
      BY <2>1
  <2> HIDE DEF new
  <2>3. chain \in Chains
      BY <2>1
  <2>4. Range(Emitted(chain, v, hub, i, j)) =
            {e \in InRange(chain, i, j) : IF Changed(e) THEN hub ELSE Registered(chain, e[2]) = v}
      BY <2>3, EmittedIs
  <2>5. Range(new) \subseteq InRange(chain, i, j)
      BY <2>2, <2>4
  <2> QED
      BY <2>1, <2>5
<1> HIDE DEF new
<1>2. \/ pc[c] = "replacing" /\ Unstored(c) = Range(new)
      \/ pc[c] = "inserting" /\ Unstored(c) = Range(got[c])
      \/ Unstored(c) = {}
    BY DEF Unstored, new
<1> QED
    BY <1>1, <1>2

LEMMA LoopStepTypes ==
    ASSUME ListenTypes, NEW c \in Chains,
           List(c) \/ Handled(c) \/ HandlerFails(c) \/ Inserted(c)
    PROVE  ListenTypes'
<1> USE DEF tables, transaction, history
<1>1. /\ rows \in [Chains -> Seq(Event)] /\ tx \in [Chains -> [Chains -> Seq(Event)]]
      /\ events \in Seq(Event) /\ fresh \in Seq(Event) /\ index \in [Chains -> Nat]
      /\ got \in [Chains -> Seq(Event)]
    BY DEF ListenTypes, TypeOK
<1>2. NextIndex(c) \in Nat /\ NextIndex(c) >= 1
    BY <1>1 DEF NextIndex
<1>3. pc[c] \in Handling => cur[c] \in Event
    BY DEF ListenTypes
<1>4. CASE List(c)
  <2>1. Unprocessed(c) \in Seq(Event)
    <3>1. rows[c] \in Seq(Event) /\ tx[c][c] \in Seq(Event)
        BY <1>1
    <3>2. rows[c] \o tx[c][c] \in Seq(Event)
        BY <3>1, JoinedRange
    <3> QED
        BY <3>2, SortedIs DEF Unprocessed
  <2>2. Loop(c, Unprocessed(c), 1, fresh)
      BY <1>4 DEF List
  <2>3. LoopTypes
      BY <1>1, <2>1, <2>2, LoopHasTypes
  <2>4. UNCHANGED <<log, last, rows, done, handled, currentBlock, upto, got, tx, txLast, dropped,
                    refetched, faults>>
      BY <1>4 DEF List
  <2> QED
      BY <2>3, <2>4 DEF LoopTypes, ListenTypes, TypeOK
<1>5. CASE Handled(c)
  <2>1. LoopTypes
    <3>1. Loop(c, events, NextIndex(c), fresh)
        BY <1>5 DEF Handled
    <3> QED
        BY <1>1, <1>2, <3>1, LoopHasTypes
  <2>2. /\ UNCHANGED <<log, last, rows, done, currentBlock, upto, got, tx, txLast, dropped,
                       refetched, faults>>
        /\ handled' = handled \cup {cur[c]} /\ pc[c] \in Handling
      BY <1>5 DEF Handled, Handling
  <2> QED
      BY <2>1, <2>2, <1>3 DEF LoopTypes, ListenTypes, TypeOK
<1>6. CASE HandlerFails(c)
  <2>1. LoopTypes
    <3>1. Loop(c, events, NextIndex(c), fresh)
        BY <1>6 DEF HandlerFails
    <3> QED
        BY <1>1, <1>2, <3>1, LoopHasTypes
  <2>2. /\ UNCHANGED <<log, last, rows, done, handled, currentBlock, upto, tx, txLast, refetched>>
        /\ dropped' = dropped \cup {cur[c]} \cup Unstored(c) /\ pc[c] \in Handling
        /\ faults < MaxFaults /\ faults' = faults + 1
        /\ got' = [got EXCEPT ![c] = <<>>]
      BY <1>6 DEF HandlerFails
  <2>3. faults' \in 0..MaxFaults
      BY <2>2, ListenerAssumption DEF ListenTypes, TypeOK
  <2>4. got' \in [Chains -> Seq(Event)]
      BY <2>2, <1>1, EmptySeq
  <2>5. Unstored(c) \subseteq Event
    <3>1. cur[c][1] \in Chains
        BY <1>3, <2>2 DEF Event
    <3>2. Unstored(c) \subseteq InRange(cur[c][1], cur[c][2], currentBlock) \cup Range(got[c])
        BY <3>1, UnstoredIs
    <3>3. Range(got[c]) \subseteq Event
        BY <1>1, ListRange
    <3> QED
        BY <3>1, <3>2, <3>3, InRangeIs
  <2> QED
      BY <2>1, <2>2, <2>3, <2>4, <2>5, <1>3 DEF LoopTypes, ListenTypes, TypeOK
<1>7. CASE Inserted(c)
  <2>1. LoopTypes
    <3>1. PICK new \in Seq(Event) : new = (IF got[c] = <<>> THEN fresh ELSE got[c])
        BY <1>1
    <3>2. Loop(c, events, NextIndex(c), new)
        BY <1>7, <3>1 DEF Inserted
    <3> QED
        BY <1>1, <1>2, <3>2, LoopHasTypes
  <2>2. /\ UNCHANGED <<log, last, rows, done, currentBlock, upto, txLast, dropped, faults>>
        /\ handled' = handled \cup {cur[c]} /\ pc[c] \in Handling
        /\ refetched' = refetched \cup Range(got[c]) /\ got' = [got EXCEPT ![c] = <<>>]
        /\ tx' = [tx EXCEPT ![c] = [tx[c] EXCEPT ![cur[c][1]] = tx[c][cur[c][1]] \o got[c]]]
      BY <1>7 DEF Inserted, Handling
  <2>3. got[c] \in Seq(Event) /\ Range(got[c]) \subseteq Event
      BY <1>1, ListRange
  <2>4. tx' \in [Chains -> [Chains -> Seq(Event)]]
    <3>1. cur[c][1] \in Chains
        BY <1>3, <2>2 DEF Event
    <3>2. tx[c][cur[c][1]] \o got[c] \in Seq(Event)
        BY <3>1, <1>1, JoinedRange
    <3> QED
        BY <3>1, <3>2, <2>2, <1>1
  <2>5. got' \in [Chains -> Seq(Event)]
      BY <2>2, <1>1, EmptySeq
  <2> QED
      BY <2>1, <2>2, <2>3, <2>4, <2>5, <1>3 DEF LoopTypes, ListenTypes, TypeOK
<1> QED
    BY <1>4, <1>5, <1>6, <1>7

LEMMA RunEndTypes ==
    ASSUME ListenTypes, NEW c \in Chains, Commit(c) \/ Mark(c) \/ RunFails(c)
    PROVE  ListenTypes'
<1> USE DEF memory, transaction, history
<1>1. /\ rows \in [Chains -> Seq(Event)] /\ tx \in [Chains -> [Chains -> Seq(Event)]]
      /\ got \in [Chains -> Seq(Event)] /\ done \in SUBSET Event
      /\ last \in [Chains -> (0 - Confirmations)..MaxBlocks]
      /\ txLast \in [Chains -> (0 - Confirmations)..MaxBlocks]
      /\ upto \in [Chains -> (0 - Confirmations)..MaxBlocks]
    BY DEF ListenTypes, TypeOK
<1>2. 0 \in (0 - Confirmations)..MaxBlocks /\ <<>> \in Seq(Event) /\ NoRows \in [Chains -> Seq(Event)]
    BY ListenerAssumption, EmptySeq DEF NoRows
<1>3. {"marking", "idle", "queued"} \subseteq Places \ Handling
    BY DEF Places, Fetching, Handling
<1>4. CASE Commit(c)
  <2>1. /\ UNCHANGED <<log, done, handled, addr, currentBlock, events, fresh, upto, got, cur, index,
                       dropped, refetched, faults>>
        /\ rows' = [d \in Chains |-> rows[d] \o tx[c][d]]
        /\ last' = [last EXCEPT ![c] = txLast[c]]
        /\ tx' = [tx EXCEPT ![c] = NoRows] /\ txLast' = [txLast EXCEPT ![c] = 0]
        /\ pc' = [pc EXCEPT ![c] = "marking"]
      BY <1>4 DEF Commit
  <2>2. rows' \in [Chains -> Seq(Event)]
    <3>1. \A d \in Chains : rows[d] \o tx[c][d] \in Seq(Event)
        BY <1>1, JoinedRange
    <3> QED
        BY <3>1, <2>1
  <2>3. /\ tx' \in [Chains -> [Chains -> Seq(Event)]]
        /\ last' \in [Chains -> (0 - Confirmations)..MaxBlocks]
        /\ txLast' \in [Chains -> (0 - Confirmations)..MaxBlocks]
      BY <2>1, <1>1, <1>2
  <2> QED
      BY <2>1, <2>2, <2>3, <1>3, PlacesStay DEF ListenTypes, TypeOK
<1>5. CASE Mark(c)
  <2>1. /\ UNCHANGED <<log, last, handled, addr, currentBlock, events, fresh, upto, got, cur, index,
                       tx, txLast, dropped, refetched, faults>>
        /\ done' = done \cup Range(rows[c]) /\ rows' = [rows EXCEPT ![c] = <<>>]
        /\ pc' = [pc EXCEPT ![c] = "idle"]
      BY <1>5 DEF Mark
  <2>2. rows' \in [Chains -> Seq(Event)] /\ done' \in SUBSET Event
    <3>1. Range(rows[c]) \subseteq Event
        BY <1>1, ListRange
    <3> QED
        BY <2>1, <3>1, <1>1, <1>2
  <2> QED
      BY <2>1, <2>2, <1>3, PlacesStay DEF ListenTypes, TypeOK
<1>6. CASE RunFails(c)
  <2>1. /\ UNCHANGED <<log, last, rows, done, handled, addr, currentBlock, events, fresh, cur, index,
                       dropped, refetched>>
        /\ faults < MaxFaults /\ faults' = faults + 1
        /\ tx' = [tx EXCEPT ![c] = NoRows] /\ txLast' = [txLast EXCEPT ![c] = 0]
        /\ got' = [got EXCEPT ![c] = <<>>] /\ upto' = [upto EXCEPT ![c] = 0]
        /\ pc' = [pc EXCEPT ![c] = "queued"]
      BY <1>6 DEF RunFails, tables
  <2>2. faults' \in 0..MaxFaults
      BY <2>1, ListenerAssumption DEF ListenTypes, TypeOK
  <2>3. /\ tx' \in [Chains -> [Chains -> Seq(Event)]] /\ got' \in [Chains -> Seq(Event)]
        /\ upto' \in [Chains -> (0 - Confirmations)..MaxBlocks]
        /\ txLast' \in [Chains -> (0 - Confirmations)..MaxBlocks]
      BY <2>1, <1>1, <1>2
  <2> QED
      BY <2>1, <2>2, <2>3, <1>3, PlacesStay DEF ListenTypes, TypeOK
<1> QED
    BY <1>4, <1>5, <1>6

LEMMA CrashTypes == ASSUME ListenTypes, Crash PROVE ListenTypes'
<1>1. /\ UNCHANGED <<log, last, rows, done, handled, dropped, refetched>>
      /\ faults < MaxFaults /\ faults' = faults + 1
      /\ addr' = [c \in Chains |-> Registered(c, Len(log[c]))]
      /\ currentBlock' = 0 /\ events' = <<>> /\ fresh' = <<>>
      /\ pc' = [c \in Chains |-> IF pc[c] = "idle" THEN "idle" ELSE "queued"]
      /\ tx' = [c \in Chains |-> NoRows] /\ txLast' = [c \in Chains |-> 0]
      /\ got' = [c \in Chains |-> <<>>] /\ upto' = [c \in Chains |-> 0]
      /\ cur' = [c \in Chains |-> <<>>] /\ index' = [c \in Chains |-> 0]
    BY DEF Crash, tables, history
<1>2. 0 \in (0 - Confirmations)..MaxBlocks /\ <<>> \in Seq(Event) /\ NoRows \in [Chains -> Seq(Event)]
    BY ListenerAssumption, EmptySeq DEF NoRows
<1>3. \A c \in Chains : Registered(c, Len(log[c])) \in 0..MaxBlocks
  <2> TAKE c \in Chains
  <2>1. Len(log[c]) \in Int /\ Len(log[c]) >= 0 /\ Len(log[c]) \in 0..MaxBlocks /\ MaxBlocks \in Nat
      BY LogIs
  <2>2. Registered(c, Len(log[c])) \in 0..Len(log[c])
      BY <2>1, RegisteredIs
  <2> QED
      BY <2>1, <2>2
<1>4. {"idle", "queued"} \subseteq Places \ Handling
    BY DEF Places, Fetching, Handling
<1>5. /\ addr' \in [Chains -> 0..MaxBlocks] /\ tx' \in [Chains -> [Chains -> Seq(Event)]]
      /\ txLast' \in [Chains -> (0 - Confirmations)..MaxBlocks] /\ got' \in [Chains -> Seq(Event)]
      /\ upto' \in [Chains -> (0 - Confirmations)..MaxBlocks]
      /\ cur' \in [Chains -> Event \cup {<<>>}] /\ index' \in [Chains -> Nat]
    BY <1>1, <1>2, <1>3
<1>6. pc' \in [Chains -> Places] /\ \A c \in Chains : pc'[c] \notin Handling
    BY <1>1, <1>4
<1>7. faults' \in 0..MaxFaults
    BY <1>1, ListenerAssumption DEF ListenTypes, TypeOK
<1> QED
    BY <1>1, <1>2, <1>5, <1>6, <1>7 DEF ListenTypes, TypeOK

LEMMA ListenTypesStep == ListenTypes /\ [Next]_vars => ListenTypes'
<1> SUFFICES ASSUME ListenTypes, [Next]_vars PROVE ListenTypes'
    OBVIOUS
<1>1. CASE UNCHANGED vars
    BY <1>1 DEF vars, ListenTypes, TypeOK
<1>2. CASE Crash
    BY <1>2, CrashTypes
<1>3. ASSUME NEW c \in Chains, (\E kind \in Kinds : Emit(c, kind)) \/ Step(c) \/ HandlerFails(c) \/ RunFails(c)
      PROVE  ListenTypes'
  <2>1. CASE \E kind \in Kinds : Emit(c, kind)
      BY <2>1, EmitTypes
  <2>2. CASE Step(c)
      BY <2>2, ReadTypes, FetchTypes, StoringTypes, LoopStepTypes, RunEndTypes DEF Step
  <2>3. CASE HandlerFails(c) \/ RunFails(c)
      BY <2>3, LoopStepTypes, RunEndTypes
  <2> QED
      BY <2>1, <2>2, <2>3, <1>3
<1> QED
    BY <1>1, <1>2, <1>3 DEF Next

(* What the commands of the listener write has its type, for any chains.    *)
THEOREM ListenerTypeCorrect == Spec => []TypeOK
<1>1. ListenTypes => TypeOK
    BY DEF ListenTypes
<1> QED
    BY <1>1, ListenTypesInit, ListenTypesStep, PTL DEF Spec

-----------------------------------------------------------------------------
(* The inductive invariant.                                                 *)

Dealt == handled \cup dropped \cup refetched
Stored(c) == Range(rows[c]) \cup Range(tx[c][c])
ChangesIn(S) == {e \in S : Changed(e)}
Pending(c) == Rest(events, index[c] + 1)
Calm == Changeless \/ NoChangeMissed

LEMMA SameLog ==
    ASSUME log' = log
    PROVE  /\ \A c, b : Registered(c, b)' = Registered(c, b)
           /\ \A e : Changed(e)' = Changed(e)
           /\ \A S : ChangesIn(S)' = ChangesIn(S)
           /\ \A c, i, j : InRange(c, i, j)' = InRange(c, i, j)
           /\ \A c : Blocks(c)' = Blocks(c) /\ Confirmed(c)' = Confirmed(c)
           /\ Changeless' = Changeless
<1>1. \A c, b : Registered(c, b)' = Registered(c, b)
    BY DEF Registered
<1>2. \A e : Changed(e)' = Changed(e)
    BY DEF Changed
<1>3. \A S : ChangesIn(S)' = ChangesIn(S)
    BY DEF ChangesIn, Changed
<1>4. \A c, i, j : InRange(c, i, j)' = InRange(c, i, j)
    BY DEF InRange
<1>5. \A c : Blocks(c)' = Blocks(c) /\ Confirmed(c)' = Confirmed(c)
    BY DEF Blocks, Confirmed
<1>6. Changeless' = Changeless
    BY DEF Changeless, Changed
<1> QED
    BY <1>1, <1>2, <1>3, <1>4, <1>5, <1>6

(* The loop is through, or takes the earliest event of those before it.     *)
Through(c, R, evs, new) ==
    /\ R = {} /\ pc'[c] = "committing" /\ addr' = addr /\ events' = evs /\ fresh' = new

TakesEarliest(c, R, new) ==
    /\ cur'[c] \in R /\ \A f \in R : cur'[c][2] <= f[2]
    /\ R \ {cur'[c]} \subseteq Pending(c)' /\ Pending(c)' \subseteq R \cup Range(new)
    /\ index'[c] \in DOMAIN events' /\ Ascending(events', index'[c] + 1)
    /\ fresh' = <<>>
    /\ \/ /\ Changed(cur'[c]) /\ addr[c] # Registered(c, cur'[c][2])
          /\ addr'[c] = Registered(c, cur'[c][2]) /\ pc'[c] = "replacing"
       \/ /\ Changed(cur'[c]) => addr[c] = Registered(c, cur'[c][2])
          /\ addr' = addr /\ pc'[c] \in {"adding", "passing"}
          /\ pc'[c] = "adding" <=> ~Changed(cur'[c])

LEMMA LoopTakes ==
    ASSUME OneChain, ListenTypes, NEW c \in Chains, NEW evs \in Seq(Event), NEW i \in Nat, i >= 1,
           NEW new \in Seq(Event), Loop(c, evs, i, new), Ascending(evs, i),
           NEW R, R = Rest(evs, i)
    PROVE  /\ Range(events') \subseteq Range(evs) \cup Range(new)
           /\ Through(c, R, evs, new) \/ TakesEarliest(c, R, new)
<1>1. /\ addr \in [Chains -> 0..MaxBlocks] /\ index \in [Chains -> Nat]
      /\ pc \in [Chains -> Places] /\ cur \in [Chains -> Event \cup {<<>>}]
    BY DEF ListenTypes, TypeOK
<1>2. Len(evs) \in Nat
    OBVIOUS
<1>3. CASE i > Len(evs)
  <2>1. /\ events' = evs /\ fresh' = new /\ addr' = addr
        /\ pc' = [pc EXCEPT ![c] = "committing"]
      BY <1>3 DEF Loop
  <2>2. R = {}
      BY <1>3, <1>2 DEF Rest
  <2>3. pc'[c] = "committing"
      BY <2>1, <1>1
  <2> QED
      BY <2>1, <2>2, <2>3 DEF Through
<1>4. CASE ~(i > Len(evs))
  <2>1. i \in 1..Len(evs)
      BY <1>4, <1>2
  <2> DEFINE ms == Merged(evs, i, new)
  <2>2. /\ events' = ms /\ fresh' = <<>>
        /\ cur' = [cur EXCEPT ![c] = evs[i]] /\ index' = [index EXCEPT ![c] = i]
        /\ addr' = (IF Replaces(evs[i])
                    THEN [addr EXCEPT ![evs[i][1]] = Registered(evs[i][1], evs[i][2])] ELSE addr)
        /\ pc' = [pc EXCEPT ![c] = IF Replaces(evs[i]) THEN "replacing"
                                   ELSE IF Changed(evs[i]) THEN "passing" ELSE "adding"]
      BY <1>4 DEF Loop
  <2>3. /\ ms \in Seq(Event) /\ Len(ms) = Len(evs) + Len(new) /\ Range(ms) = Range(evs) \cup Range(new)
        /\ Ascending(ms, i + 1)
        /\ Rest(evs, i) \ {evs[i]} \subseteq Rest(ms, i + 1)
        /\ Rest(ms, i + 1) \subseteq Rest(evs, i) \cup Range(new)
      BY <2>1, MergedIs
  <2> HIDE DEF ms
  <2>4. cur'[c] = evs[i] /\ index'[c] = i /\ pc'[c] = (IF Replaces(evs[i]) THEN "replacing"
                                   ELSE IF Changed(evs[i]) THEN "passing" ELSE "adding")
      BY <2>2, <1>1
  <2>5. evs[i] \in R /\ \A f \in R : evs[i][2] <= f[2]
      BY <2>1, <1>2 DEF Rest, Ascending
  <2>6. Pending(c)' = Rest(ms, i + 1)
      BY <2>2, <2>4 DEF Pending, Rest
  <2>7. index'[c] \in DOMAIN events'
    <3>1. DOMAIN ms = 1..Len(ms) /\ Len(new) \in Nat
        BY <2>3
    <3> QED
        BY <3>1, <2>1, <2>2, <2>3, <2>4, <1>2
  <2>8. evs[i] \in Event /\ evs[i][1] = c
    <3>1. evs[i] \in Event
        BY <2>1, ElementOfSeq
    <3> QED
        BY <3>1 DEF Event, OneChain
  <2>9. \/ /\ Changed(evs[i]) /\ addr[c] # Registered(c, evs[i][2])
           /\ addr'[c] = Registered(c, evs[i][2]) /\ pc'[c] = "replacing"
        \/ /\ Changed(evs[i]) => addr[c] = Registered(c, evs[i][2])
           /\ addr' = addr /\ pc'[c] \in {"adding", "passing"}
           /\ pc'[c] = "adding" <=> ~Changed(evs[i])
    <3>1. CASE Replaces(evs[i])
        BY <3>1, <2>2, <2>4, <2>8, <1>1 DEF Replaces
    <3>2. CASE ~Replaces(evs[i])
        BY <3>2, <2>2, <2>4, <2>8 DEF Replaces
    <3> QED
        BY <3>1, <3>2
  <2>10. TakesEarliest(c, R, new)
    <3>1. R \ {evs[i]} \subseteq Pending(c)' /\ Pending(c)' \subseteq R \cup Range(new)
        BY <2>3, <2>6
    <3>2. Ascending(events', index'[c] + 1)
        BY <2>2, <2>3, <2>4
    <3> QED
        BY <2>2, <2>4, <2>5, <2>7, <2>9, <3>1, <3>2 DEF TakesEarliest
  <2> QED
      BY <2>2, <2>3, <2>10
<1> QED
    BY <1>2, <1>3, <1>4

LEMMA MinimumExists ==
    ASSUME NEW S \in SUBSET Nat, S # {}
    PROVE  \E n \in S : \A k \in S : n <= k
<1>1. PICK n \in S : \A k \in S : ~(<<k, n>> \in OpToRel(<, Nat))
    BY WFMin, NatLessThanWellFounded, Zenon
<1>2. \A k \in S : ~(k < n)
    BY <1>1, Zenon DEF OpToRel
<1> QED BY <1>2

LEMMA MaximumExists ==
    ASSUME NEW m \in Nat, NEW S \in SUBSET (0..m), S # {}
    PROVE  \E n \in S : \A k \in S : k <= n
<1> DEFINE T == {m - k : k \in S}
<1>1. T \in SUBSET Nat /\ T # {}
    <2>1. \A k \in S : m - k \in Nat
        OBVIOUS
    <2>2. PICK k : k \in S
        OBVIOUS
    <2>3. m - k \in T
        BY <2>2
    <2>4. \A x \in T : x \in Nat
        BY <2>1
    <2> QED BY ONLY <2>3, <2>4
<1>2. PICK x \in T : \A y \in T : x <= y
    <2> HIDE DEF T
    <2> QED BY <1>1, MinimumExists
<1>3. PICK n \in S : x = m - n
    OBVIOUS
<1>4. \A k \in S : m - n <= m - k
    BY <1>2, <1>3
<1> QED BY <1>4

(* The contract of a block is that of the last change before it.            *)
LEMMA LastChange ==
    ASSUME NEW c, NEW b \in Nat, Registered(c, b) >= 1
    PROVE  \E d \in 1..b : log[c][d] = "changed" /\ Registered(c, d) = Registered(c, b)
<1> DEFINE S == {k \in 1..b : log[c][k] = "changed"}
<1>1. S # {}
  <2>1. SUFFICES ASSUME S = {} PROVE FALSE
      OBVIOUS
  <2>2. Registered(c, b) = Cardinality({})
      BY <2>1 DEF Registered
  <2>3. Cardinality({}) = 0
      BY FS_EmptySet
  <2> QED
      BY <2>2, <2>3
<1>2. S \in SUBSET (0..b)
    OBVIOUS
<1>3. PICK d \in S : \A k \in S : k <= d
  <2> HIDE DEF S
  <2> QED
      BY <1>1, <1>2, MaximumExists
<1>4. {k \in 1..d : log[c][k] = "changed"} = S
    BY <1>3
<1>5. Registered(c, d) = Registered(c, b)
    BY <1>4 DEF Registered
<1> QED
    BY <1>3, <1>5

(* Of the table, the transaction and the history: what is stored was        *)
(* emitted up to the last checked block, and there every change is.         *)
Steady(c) ==
    /\ Range(rows[c]) \cup done \subseteq InRange(c, 0, last[c])
    /\ Range(tx[c][c]) \subseteq InRange(c, 0, txLast[c])
    /\ last[c] <= 0 \/ last[c] <= txLast[c]
    /\ ChangesIn(InRange(c, 0, last[c])) \subseteq Range(rows[c]) \cup done \cup dropped
    /\ ChangesIn(InRange(c, last[c], txLast[c])) \subseteq Range(tx[c][c]) \cup dropped

(* While the loop has the events R before it, and knows the contract a.     *)
Ready(c, R, a) ==
    /\ Range(tx[c][c]) \subseteq Dealt \cup R
    /\ R \subseteq Blocks(c) /\ ChangesIn(R) \subseteq Stored(c)
    /\ \A e \in ChangesIn(done \cup Stored(c)) :
          e \in R \/ (a >= Registered(c, e[2]) /\ \A f \in ChangesIn(R) : e[2] <= f[2])
    /\ Calm =>
          /\ a <= Registered(c, txLast[c])
          /\ \A e \in InRange(c, last[c], txLast[c]) :
                e \in Range(tx[c][c]) \cup dropped \/ (~Changed(e) /\ Registered(c, e[2]) > a)
    /\ Changeless => R \subseteq Stored(c)

(* While it awaits the handler of an event.                                 *)
HandlingInv(c) ==
    /\ Range(tx[c][c]) \subseteq Dealt \cup Pending(c) \cup {cur[c]}
    /\ ChangesIn(Pending(c) \cup {cur[c]}) \subseteq Stored(c)
    /\ \A e \in ChangesIn(done \cup Stored(c)) :
          \/ e \in Pending(c)
          \/ addr[c] >= Registered(c, e[2]) /\ \A f \in ChangesIn(Pending(c)) : e[2] <= f[2]
    /\ Calm =>
          /\ addr[c] <= Registered(c, txLast[c])
          /\ \A e \in InRange(c, last[c], txLast[c]) :
                \/ e \in Range(tx[c][c]) \cup dropped
                \/ ~Changed(e) /\ Registered(c, e[2]) > addr[c]
                \/ /\ pc[c] = "replacing" /\ ~Changed(e) /\ cur[c][2] < e[2]
                   /\ Registered(c, e[2]) = addr[c]
                \/ pc[c] = "inserting" /\ e \in Range(got[c])
    /\ Changeless => /\ Pending(c) \cup {cur[c]} \subseteq Stored(c)
                     /\ \A f \in Pending(c) : cur[c][2] <= f[2]

(* Where a command is.                                                      *)
CursorInv(c) ==
    /\ pc[c] \in Handling =>
          /\ index[c] \in DOMAIN events /\ Ascending(events, index[c] + 1)
          /\ cur[c] \in Blocks(c)
          /\ pc[c] = "adding" <=> ~Changed(cur[c])
    /\ pc[c] \in {"replacing", "inserting"} => addr[c] = Registered(c, cur[c][2])
    /\ pc[c] = "inserting" =>
          \A e \in Range(got[c]) : ~Changed(e) /\ cur[c][2] < e[2] /\ e[2] <= currentBlock

LEMMA LoopKeeps ==
    ASSUME OneChain, ListenTypes, ListenTypes', log' = log, NEW c \in Chains,
           NEW R, NEW a, a = addr[c], NEW new,
           ChangesIn(Range(new)) = {}, Changeless => Range(new) = {}, R \subseteq Blocks(c),
           Steady(c)', Ready(c, R, a)', TakesEarliest(c, R, new)
    PROVE  HandlingInv(c)' /\ CursorInv(c)' /\ pc'[c] \in Handling /\ (Changeless => addr' = addr)
<1> DEFINE p == Pending(c)'
           x == cur'[c]
           b == addr'[c]
           la == last'[c]
           tl == txLast'[c]
           stored == Stored(c)'
           inTx == Range(tx'[c][c])
<1> HIDE DEF p, x, b, la, tl, stored, inTx
<1>1. /\ inTx \subseteq Dealt' \cup R
      /\ ChangesIn(R) \subseteq stored
      /\ \A e \in ChangesIn(done' \cup stored) :
            e \in R \/ (a >= Registered(c, e[2]) /\ \A f \in ChangesIn(R) : e[2] <= f[2])
      /\ Calm' => a <= Registered(c, tl)
      /\ Calm' => \A e \in InRange(c, la, tl) :
                    e \in inTx \cup dropped' \/ (~Changed(e) /\ Registered(c, e[2]) > a)
      /\ Changeless => R \subseteq stored
  <2>1. /\ inTx \subseteq Dealt' \cup R
        /\ ChangesIn(R)' \subseteq stored
        /\ \A e \in ChangesIn(done \cup Stored(c))' :
              e \in R \/ (a >= Registered(c, e[2])' /\ \A f \in ChangesIn(R)' : e[2] <= f[2])
        /\ Calm' => a <= Registered(c, txLast[c])'
        /\ Calm' => \A e \in InRange(c, last[c], txLast[c])' :
                      e \in inTx \cup dropped' \/ (~Changed(e)' /\ Registered(c, e[2])' > a)
        /\ Changeless' => R \subseteq stored
      BY DEF Ready, inTx, stored
  <2>2. /\ ChangesIn(R)' = ChangesIn(R)
        /\ ChangesIn(done \cup Stored(c))' = ChangesIn(done' \cup stored)
        /\ Registered(c, txLast[c])' = Registered(c, tl)
        /\ InRange(c, last[c], txLast[c])' = InRange(c, la, tl)
        /\ Changeless' = Changeless
      BY SameLog DEF stored, la, tl
  <2>3. \A e : Registered(c, e[2])' = Registered(c, e[2]) /\ Changed(e)' = Changed(e)
      BY SameLog
  <2>4. \A e \in ChangesIn(done' \cup stored) :
            e \in R \/ (a >= Registered(c, e[2]) /\ \A f \in ChangesIn(R) : e[2] <= f[2])
      BY <2>1, <2>2, <2>3
  <2>5. Calm' => \A e \in InRange(c, la, tl) :
                  e \in inTx \cup dropped' \/ (~Changed(e) /\ Registered(c, e[2]) > a)
      BY <2>1, <2>2, <2>3
  <2> QED
      BY <2>1, <2>2, <2>4, <2>5
<1>2. /\ Range(rows'[c]) \cup done' \subseteq InRange(c, 0, la)
      /\ inTx \subseteq InRange(c, 0, tl)
      /\ la <= 0 \/ la <= tl
      /\ ChangesIn(InRange(c, 0, la)) \subseteq Range(rows'[c]) \cup done' \cup dropped'
      /\ ChangesIn(InRange(c, la, tl)) \subseteq inTx \cup dropped'
    BY SameLog DEF Steady, inTx, la, tl
<1>3. /\ x \in R /\ \A f \in R : x[2] <= f[2]
      /\ R \ {x} \subseteq p /\ p \subseteq R \cup Range(new)
      /\ \/ Changed(x) /\ a # Registered(c, x[2]) /\ b = Registered(c, x[2]) /\ pc'[c] = "replacing"
         \/ /\ Changed(x) => a = Registered(c, x[2])
            /\ b = a /\ addr' = addr /\ pc'[c] \in {"adding", "passing"}
            /\ pc'[c] = "adding" <=> ~Changed(x)
    BY DEF TakesEarliest, p, x, b
<1>4. la \in Int /\ tl \in Int /\ a \in Nat /\ b \in Nat
    <2>1. last'[c] \in Int /\ txLast'[c] \in Int /\ addr[c] \in Nat /\ addr'[c] \in Nat
        BY ListenerAssumption DEF ListenTypes, TypeOK
    <2> QED BY <2>1 DEF la, tl, b
<1>5. stored = Range(rows'[c]) \cup inTx
    BY DEF stored, inTx, Stored
<1>6. \A e \in Blocks(c) : e[2] \in Nat /\ e[2] >= 1 /\ e[2] <= Len(log[c]) /\ e = <<c, e[2]>>
                           /\ Registered(c, e[2]) \in Nat
    BY LogIs, RegisteredIs
<1>7. \A e, f \in Blocks(c) : e[2] <= f[2] => Registered(c, e[2]) <= Registered(c, f[2])
    BY <1>6, RegisteredIs
<1>8. \A e, f \in Blocks(c) : Changed(f) /\ e[2] < f[2] => Registered(c, e[2]) < Registered(c, f[2])
  <2> SUFFICES ASSUME NEW e \in Blocks(c), NEW f \in Blocks(c), Changed(f), e[2] < f[2]
               PROVE  Registered(c, e[2]) < Registered(c, f[2])
      OBVIOUS
  <2>1. e[2] \in Int /\ f[2] \in Int /\ f[2] >= 1 /\ f = <<c, f[2]>>
      BY <1>6
  <2>2. log[c][f[2]] = "changed"
      BY <2>1 DEF Changed
  <2> QED
      BY <2>1, <2>2, RegisteredIs
<1>9. ChangesIn(p) \subseteq ChangesIn(R) /\ \A e \in ChangesIn(R) : e \in R /\ Changed(e)
    BY <1>3 DEF ChangesIn
<1>10. done' \cup stored \subseteq Blocks(c)
    BY <1>2, <1>5, InRangeIs
<1>11. x \in Blocks(c) /\ x \in R
    BY <1>3
<1>12. b >= a \/ Changed(x)
    BY <1>3, <1>4
<1>13. \A e \in ChangesIn(done' \cup stored) :
          e \in p \/ (b >= Registered(c, e[2]) /\ \A f \in ChangesIn(p) : e[2] <= f[2])
  <2> SUFFICES ASSUME NEW e \in ChangesIn(done' \cup stored), e \notin p
               PROVE  b >= Registered(c, e[2]) /\ \A f \in ChangesIn(p) : e[2] <= f[2]
      OBVIOUS
  <2>1. e \in Blocks(c) /\ Changed(e)
      BY <1>10 DEF ChangesIn
  <2>2. CASE e \in R
    <3>1. e = x
        BY <2>2, <1>3
    <3>2. b = Registered(c, e[2])
        BY <3>1, <2>1, <1>3
    <3> QED
        BY <3>1, <3>2, <1>3, <1>4, <1>9
  <2>3. CASE e \notin R
    <3>1. a >= Registered(c, e[2]) /\ \A f \in ChangesIn(R) : e[2] <= f[2]
        BY <2>3, <1>1
    <3>2. CASE b = a
        BY <3>1, <3>2, <1>9
    <3>3. CASE Changed(x) /\ b = Registered(c, x[2])
      <4>1. x \in ChangesIn(R)
          BY <3>3, <1>3 DEF ChangesIn
      <4>2. Registered(c, e[2]) <= Registered(c, x[2])
          BY <4>1, <3>1, <2>1, <1>7, <1>11
      <4> QED
          BY <4>2, <3>1, <3>3, <1>9
    <3> QED
        BY <3>2, <3>3, <1>3
  <2> QED
      BY <2>2, <2>3
<1>14. ASSUME Calm', Changed(x), b = Registered(c, x[2])
       PROVE  b <= Registered(c, tl)
  <2>1. x \in ChangesIn(R)
      BY <1>14, <1>3 DEF ChangesIn
  <2>2. x \in stored
      BY <2>1, <1>1
  <2>3. x[2] <= tl
    <3>1. x \in InRange(c, 0, la) \/ x \in InRange(c, 0, tl)
        BY <2>2, <1>2, <1>5
    <3>2. x[2] \in Nat /\ x[2] >= 1 /\ (x[2] <= la \/ x[2] <= tl)
        BY <3>1, <1>6, <1>11, InRangeIs
    <3> QED
        BY <3>2, <1>2, <1>4
  <2> QED
      BY <2>3, <1>4, <1>6, <1>11, <1>14, RegisteredIs
<1>15. ASSUME Calm', Changed(x), b = Registered(c, x[2]), pc'[c] = "replacing",
              NEW e \in InRange(c, la, tl), e \notin inTx \cup dropped'
       PROVE  ~Changed(e) /\ (Registered(c, e[2]) > b \/ (x[2] < e[2] /\ Registered(c, e[2]) = b))
  <2>1. ~Changed(e) /\ Registered(c, e[2]) > a
      BY <1>1, <1>15
  <2>2. e \in Blocks(c) /\ la < e[2] /\ e[2] <= tl
      BY <1>15, InRangeIs
  <2>3. e[2] \in Nat /\ x[2] \in Nat /\ Registered(c, e[2]) \in Nat /\ Registered(c, x[2]) \in Nat
      BY <2>2, <1>6, <1>11
  <2>4. Registered(c, e[2]) >= b
    <3> SUFFICES ASSUME Registered(c, e[2]) < b PROVE FALSE
        BY <2>3, <1>4
    <3>1. e[2] < x[2]
        BY <2>2, <2>3, <1>7, <1>11, <1>15
    <3>2. PICK k \in 1..e[2] : log[c][k] = "changed" /\ Registered(c, k) = Registered(c, e[2])
      <4>1. Registered(c, e[2]) >= 1
          BY <2>1, <2>3, <1>4
      <4> QED
          BY <4>1, <2>3, LastChange
    <3>3. k \in 1..Len(log[c]) /\ k \in Nat /\ k <= e[2] /\ k <= tl
        BY <2>2, <2>3, <1>4, <1>6, LogIs
    <3> DEFINE d == <<c, k>>
    <3>4. d \in Blocks(c) /\ d[2] = k /\ Changed(d)
        BY <3>2, <3>3, LogIs DEF Changed
    <3> HIDE DEF d
    <3>5. d \in ChangesIn(done' \cup stored)
      <4>1. d \notin dropped'
        <5>1. NoChangeMissed'
          <6>1. ~Changeless
              BY <3>3, <3>4, LogIs DEF Changeless, d
          <6> QED
              BY <6>1, <1>15, SameLog DEF Calm
        <5>2. \A f \in dropped' : ~Changed(f)
            BY <5>1, SameLog DEF NoChangeMissed
        <5> QED
            BY <5>2, <3>4
      <4>2. CASE k <= la
        <5>1. d \in InRange(c, 0, la)
            BY <4>2, <3>3, <3>4, <1>6, InRangeIs
        <5>2. d \in Range(rows'[c]) \cup done'
            BY <5>1, <4>1, <3>4, <1>2 DEF ChangesIn
        <5> QED
            BY <5>2, <3>4, <1>5 DEF ChangesIn
      <4>3. CASE la < k
        <5>1. d \in InRange(c, la, tl)
            BY <4>3, <3>3, <3>4, InRangeIs
        <5>2. d \in inTx
            BY <5>1, <4>1, <3>4, <1>2 DEF ChangesIn
        <5> QED
            BY <5>2, <3>4, <1>5 DEF ChangesIn
      <4> QED
          BY <4>2, <4>3, <3>3, <1>4
    <3>6. d \in R
      <4>1. d \in R \/ a >= Registered(c, d[2])
          BY <3>5, <1>1
      <4>2. ~(a >= Registered(c, k))
          BY <3>2, <2>1, <2>3, <1>4
      <4> QED
          BY <4>1, <4>2, <3>4
    <3>7. x[2] <= k
        BY <3>6, <3>4, <1>3
    <3> QED
        BY <3>1, <3>3, <3>7, <2>3
  <2>5. Registered(c, e[2]) = b => x[2] < e[2]
    <3> SUFFICES ASSUME Registered(c, e[2]) = b, ~(x[2] < e[2]) PROVE FALSE
        OBVIOUS
    <3>1. x[2] # e[2]
      <4>1. x = <<c, x[2]>> /\ e = <<c, e[2]>>
          BY <2>2, <1>6, <1>11
      <4> QED
          BY <4>1, <2>1, <1>15
    <3>2. e[2] < x[2]
        BY <3>1, <2>3
    <3>3. Registered(c, e[2]) < Registered(c, x[2])
        BY <3>2, <2>2, <1>8, <1>11, <1>15
    <3> QED
        BY <3>3, <1>15, <2>3
  <2> QED
      BY <2>1, <2>3, <2>4, <2>5, <1>4
<1>16. HandlingInv(c)'
  <2>1. inTx \subseteq Dealt' \cup p \cup {x}
      BY <1>1, <1>3
  <2>2. ChangesIn(p \cup {x}) \subseteq stored
      BY <1>1, <1>3 DEF ChangesIn
  <2>3. Calm' => b <= Registered(c, tl)
      BY <1>1, <1>3, <1>14
  <2>4. Calm' => \A e \in InRange(c, la, tl) :
                \/ e \in inTx \cup dropped'
                \/ ~Changed(e) /\ Registered(c, e[2]) > b
                \/ pc'[c] = "replacing" /\ ~Changed(e) /\ x[2] < e[2] /\ Registered(c, e[2]) = b
      BY <1>1, <1>3, <1>15
  <2>5. Changeless => p \cup {x} \subseteq stored /\ \A f \in p : x[2] <= f[2]
    <3>1. Changeless => p \subseteq R
        BY <1>3
    <3> QED
        BY <3>1, <1>1, <1>3
  <2>6. (Range(tx[c][c]) \subseteq Dealt \cup Pending(c) \cup {cur[c]})'
      BY <2>1 DEF inTx, p, x
  <2>7. (ChangesIn(Pending(c) \cup {cur[c]}) \subseteq Stored(c))'
      BY <2>2, SameLog DEF p, x, stored
  <2>8. (\A e \in ChangesIn(done \cup Stored(c)) :
          \/ e \in Pending(c)
          \/ addr[c] >= Registered(c, e[2]) /\ \A f \in ChangesIn(Pending(c)) : e[2] <= f[2])'
    <3>1. ChangesIn(done \cup Stored(c))' = ChangesIn(done' \cup stored)
        BY SameLog DEF stored
    <3>2. ChangesIn(Pending(c))' = ChangesIn(p)
        BY SameLog DEF p
    <3>3. \A e : Registered(c, e[2])' = Registered(c, e[2])
        BY SameLog
    <3> QED
        BY <1>13, <3>1, <3>2, <3>3 DEF p, b
  <2>9. (Calm =>
          /\ addr[c] <= Registered(c, txLast[c])
          /\ \A e \in InRange(c, last[c], txLast[c]) :
                \/ e \in Range(tx[c][c]) \cup dropped
                \/ ~Changed(e) /\ Registered(c, e[2]) > addr[c]
                \/ /\ pc[c] = "replacing" /\ ~Changed(e) /\ cur[c][2] < e[2]
                   /\ Registered(c, e[2]) = addr[c]
                \/ pc[c] = "inserting" /\ e \in Range(got[c]))'
    <3>1. Registered(c, txLast[c])' = Registered(c, tl)
          /\ InRange(c, last[c], txLast[c])' = InRange(c, la, tl)
        BY SameLog DEF la, tl
    <3>2. \A e : Registered(c, e[2])' = Registered(c, e[2]) /\ Changed(e)' = Changed(e)
        BY SameLog
    <3> QED
        BY <2>3, <2>4, <3>1, <3>2 DEF b, x, inTx
  <2>10. (Changeless => /\ Pending(c) \cup {cur[c]} \subseteq Stored(c)
                       /\ \A f \in Pending(c) : cur[c][2] <= f[2])'
      BY <2>5, SameLog DEF p, x, stored
  <2> QED
      BY <2>6, <2>7, <2>8, <2>9, <2>10 DEF HandlingInv
<1>17. CursorInv(c)'
  <2>1. /\ index'[c] \in DOMAIN events' /\ Ascending(events', index'[c] + 1)
        /\ x \in Blocks(c) /\ (pc'[c] = "adding" <=> ~Changed(x))
      BY <1>3, <1>11 DEF TakesEarliest
  <2>2. pc'[c] = "replacing" => b = Registered(c, x[2])
      BY <1>3
  <2>3. pc'[c] # "inserting"
      BY <1>3
  <2>4. Ascending(events, index[c] + 1)'
      BY <2>1 DEF Ascending
  <2> QED
      BY <2>1, <2>2, <2>3, <2>4, SameLog DEF CursorInv, b, x
<1>18. pc'[c] \in Handling
    BY <1>3 DEF Handling
<1>19. Changeless => addr' = addr
  <2>1. Changeless => ~Changed(x)
      BY <1>6, <1>11, LogIs DEF Changeless
  <2> QED
      BY <2>1, <1>3
<1> QED
    BY <1>16, <1>17, <1>18, <1>19

(* What is named was emitted, and is confirmed.                             *)
BlocksInv(c) ==
    /\ Range(rows[c]) \cup done \subseteq InRange(c, 0, last[c])
    /\ Range(tx[c][c]) \subseteq InRange(c, 0, txLast[c])
    /\ Range(events) \cup Range(fresh) \cup Range(got[c]) \subseteq Blocks(c)
    /\ handled \cup dropped \cup refetched \subseteq Blocks(c)
    /\ last[c] <= 0 \/ last[c] <= Confirmed(c)
    /\ currentBlock <= 0 \/ currentBlock <= Confirmed(c)

(* How far a run of the command has come.                                   *)
RunInv(c) ==
    /\ pc[c] \in Fetching \cup {"idle", "marking"} => pc[c] = "listing" \/ tx[c][c] = <<>>
    /\ pc[c] \in Fetching \cup Handling \cup {"committing"} =>
          pc[c] = "queued" \/ last[c] <= 0 \/ last[c] <= currentBlock
    /\ pc[c] \in {"fetching", "storing"} => upto[c] = currentBlock
    /\ pc[c] = "storing" => \A e \in Range(got[c]) : last[c] < e[2] /\ e[2] <= upto[c]
    /\ pc[c] \in Handling \cup {"listing", "committing"} => txLast[c] = currentBlock

(* What is stored was dealt with, but for what the transaction inserts.     *)
DealtInv(c) ==
    /\ done \cup Range(rows[c]) \subseteq Dealt
    /\ Range(fresh) \subseteq refetched /\ ChangesIn(Range(fresh)) = {}

(* No change of the contract goes unseen, and they are handled in order.    *)
ChangesInv(c) ==
    /\ ChangesIn(InRange(c, 0, last[c])) \subseteq Range(rows[c]) \cup done \cup dropped
    /\ \A d \in ChangesIn(done), e \in ChangesIn(Range(rows[c])) : d[2] < e[2]
    /\ \A e \in ChangesIn(Range(tx[c][c])) : last[c] < e[2]
    /\ pc[c] = "storing" =>
          ChangesIn(InRange(c, last[c], upto[c])) \subseteq Range(got[c]) \cup dropped
    /\ pc[c] \in Handling \cup {"listing", "committing"} =>
          ChangesIn(InRange(c, last[c], txLast[c])) \subseteq Range(tx[c][c]) \cup dropped
    /\ pc[c] \notin Handling =>
          \A e \in ChangesIn(done \cup Range(rows[c])) : addr[c] >= Registered(c, e[2])

(* While nothing was missed: what is not stored is of a later contract.     *)
CoverInv(c) ==
    /\ Changeless => fresh = <<>> /\ refetched = {} /\ addr[c] = 0
    /\ Calm =>
          /\ InRange(c, 0, last[c]) \subseteq Range(rows[c]) \cup done \cup dropped
          /\ pc[c] \notin Handling \cup {"committing"} => addr[c] <= Registered(c, last[c])
          /\ pc[c] = "storing" => \A e \in InRange(c, last[c], upto[c]) :
                e \in Range(got[c]) \cup dropped \/ (~Changed(e) /\ Registered(c, e[2]) > addr[c])
          /\ pc[c] = "listing" => \A e \in InRange(c, last[c], txLast[c]) :
                \/ e \in Range(tx[c][c]) \cup dropped
                \/ ~Changed(e) /\ Registered(c, e[2]) > addr[c]

ChainInv(c) ==
    /\ BlocksInv(c) /\ RunInv(c) /\ CursorInv(c) /\ DealtInv(c) /\ ChangesInv(c) /\ CoverInv(c)
    /\ pc[c] \in Handling => HandlingInv(c)
    /\ pc[c] = "committing" => Ready(c, {}, addr[c])

ListenerIInv == ListenTypes /\ \A c \in Chains : ChainInv(c)

(* Every step that goes on with the loop.                                   *)
LEMMA LoopGoesOn ==
    ASSUME OneChain, ListenTypes, ListenTypes', NEW c \in Chains, ChainInv(c),
           pc[c] \in Handling \cup {"listing"},
           UNCHANGED <<log, last, rows, done, currentBlock, txLast>>,
           Range(got'[c]) \subseteq Range(got[c]),
           Dealt' \subseteq Blocks(c), Dealt \subseteq Dealt', dropped \subseteq dropped', Calm' => Calm,
           NEW N, Range(tx'[c][c]) = Range(tx[c][c]) \cup N, N \subseteq InRange(c, 0, txLast[c]),
           ChangesIn(N) = {},
           NEW evs \in Seq(Event), NEW i \in Nat, i >= 1, Range(evs) \subseteq Blocks(c),
           Ascending(evs, i),
           NEW new \in Seq(Event), Range(new) \subseteq Blocks(c), Range(new) \subseteq refetched',
           ChangesIn(Range(new)) = {}, Changeless => new = <<>> /\ refetched' = {},
           Loop(c, evs, i, new),
           NEW R, R = Rest(evs, i), NEW a, a = addr[c], Ready(c, R, a)'
    PROVE  ChainInv(c)'
<1>1. Range(events') \subseteq Range(evs) \cup Range(new)
      /\ (Through(c, R, evs, new) \/ TakesEarliest(c, R, new))
    BY LoopTakes
<1>2. ChangesIn(Range(tx'[c][c])) = ChangesIn(Range(tx[c][c]))
    BY DEF ChangesIn
<1>3. ChangesIn(InRange(c, last[c], txLast[c])) \subseteq Range(tx[c][c]) \cup dropped
      /\ txLast[c] = currentBlock /\ (last[c] <= 0 \/ last[c] <= currentBlock)
    BY DEF ChainInv, ChangesInv, RunInv, Handling, Fetching
<1>4. Steady(c)'
  <2>1. Range(rows[c]) \cup done \subseteq InRange(c, 0, last[c])
        /\ Range(tx'[c][c]) \subseteq InRange(c, 0, txLast[c])
        /\ ChangesIn(InRange(c, 0, last[c])) \subseteq Range(rows[c]) \cup done \cup dropped'
        /\ ChangesIn(InRange(c, last[c], txLast[c])) \subseteq Range(tx'[c][c]) \cup dropped'
      BY <1>3 DEF ChainInv, BlocksInv, ChangesInv
  <2>2. /\ InRange(c, 0, last[c])' = InRange(c, 0, last[c])
        /\ InRange(c, 0, txLast[c])' = InRange(c, 0, txLast[c])
        /\ InRange(c, last[c], txLast[c])' = InRange(c, last[c], txLast[c])
        /\ ChangesIn(InRange(c, 0, last[c]))' = ChangesIn(InRange(c, 0, last[c]))
        /\ ChangesIn(InRange(c, last[c], txLast[c]))' = ChangesIn(InRange(c, last[c], txLast[c]))
      BY SameLog
  <2> QED
      BY <2>1, <2>2, <1>3 DEF Steady
<1>5. R \subseteq Blocks(c)
  <2>1. Range(evs) = {evs[j] : j \in 1..Len(evs)}
      BY ListRange
  <2>2. \A j \in i..Len(evs) : j \in 1..Len(evs)
      OBVIOUS
  <2> QED
      BY <2>1, <2>2 DEF Rest
<1>6. Changeless => Range(new) = {}
    BY ListRange
<1>7. /\ pc'[c] \in Handling \cup {"committing"} /\ CursorInv(c)'
      /\ pc'[c] \in Handling => HandlingInv(c)'
      /\ pc'[c] = "committing" => Ready(c, {}, addr[c])'
      /\ Range(fresh') \subseteq Range(new) /\ (Changeless => fresh' = <<>> /\ addr' = addr)
  <2>1. CASE TakesEarliest(c, R, new)
    <3>1. HandlingInv(c)' /\ CursorInv(c)' /\ pc'[c] \in Handling /\ (Changeless => addr' = addr)
        BY <2>1, <1>4, <1>5, <1>6, LoopKeeps
    <3>2. fresh' = <<>> /\ Range(fresh') = {}
        BY <2>1, ListRange DEF TakesEarliest
    <3>3. "committing" \notin Handling
        BY DEF Handling
    <3> QED
        BY <3>1, <3>2, <3>3
  <2>2. CASE Through(c, R, evs, new)
    <3>1. R = {} /\ pc'[c] = "committing" /\ addr' = addr /\ fresh' = new
        BY <2>2 DEF Through
    <3>2. Ready(c, {}, addr[c])'
      <4>1. Ready(c, R, a)' /\ R = {} /\ a = addr'[c]
          BY <3>1
      <4> QED
          BY <4>1 DEF Ready
    <3>3. "committing" \notin Handling /\ CursorInv(c)'
        BY <3>1 DEF Handling, CursorInv
    <3> QED
        BY <3>1, <3>2, <3>3
  <2> QED
      BY <1>1, <2>1, <2>2
<1>8. pc'[c] \notin Fetching \cup {"idle", "marking"} /\ pc'[c] # "queued"
    BY <1>7 DEF Fetching, Handling
<1>9. BlocksInv(c)'
  <2>1. /\ Range(rows'[c]) \cup done' \subseteq InRange(c, 0, last[c])'
        /\ Range(tx'[c][c]) \subseteq InRange(c, 0, txLast[c])'
      BY <1>4 DEF Steady
  <2>2. Range(events') \cup Range(fresh') \cup Range(got'[c]) \subseteq Blocks(c)
      BY <1>1, <1>7 DEF ChainInv, BlocksInv
  <2>3. handled' \cup dropped' \cup refetched' \subseteq Blocks(c)
      BY DEF Dealt
  <2>4. last[c] <= 0 \/ last[c] <= Confirmed(c)
      BY DEF ChainInv, BlocksInv
  <2>5. currentBlock <= 0 \/ currentBlock <= Confirmed(c)
      BY DEF ChainInv, BlocksInv
  <2> QED
      BY <2>1, <2>2, <2>3, <2>4, <2>5, SameLog DEF BlocksInv
<1>10. RunInv(c)'
    BY <1>3, <1>7, <1>8 DEF RunInv, Fetching
<1>11. DealtInv(c)'
  <2>1. done \cup Range(rows[c]) \subseteq Dealt'
      BY DEF ChainInv, DealtInv
  <2>2. Range(fresh') \subseteq refetched' /\ ChangesIn(Range(fresh')) = {}
      BY <1>7 DEF ChangesIn
  <2> QED
      BY <2>1, <2>2, SameLog DEF DealtInv
<1>12. ChangesInv(c)'
  <2>1. ChangesIn(InRange(c, 0, last[c]))' \subseteq Range(rows'[c]) \cup done' \cup dropped'
        /\ ChangesIn(InRange(c, last[c], txLast[c]))' \subseteq Range(tx'[c][c]) \cup dropped'
      BY <1>4 DEF Steady
  <2>2. \A d \in ChangesIn(done), e \in ChangesIn(Range(rows[c])) : d[2] < e[2]
      BY DEF ChainInv, ChangesInv
  <2>3. \A e \in ChangesIn(Range(tx'[c][c])) : last[c] < e[2]
      BY <1>2 DEF ChainInv, ChangesInv
  <2>4. pc'[c] = "committing" =>
            \A e \in ChangesIn(done' \cup Range(rows'[c])) : addr'[c] >= Registered(c, e[2])
    <3>1. SUFFICES ASSUME pc'[c] = "committing", NEW e \in ChangesIn(done' \cup Range(rows'[c]))
                   PROVE  addr'[c] >= Registered(c, e[2])
        OBVIOUS
    <3>2. e \in ChangesIn(done' \cup Stored(c)')
        BY DEF ChangesIn, Stored
    <3>3. \A f \in ChangesIn(done \cup Stored(c))' : f \in {} \/ addr'[c] >= Registered(c, f[2])'
        BY <3>1, <1>7 DEF Ready
    <3>4. e \in ChangesIn(done \cup Stored(c))'
        BY <3>2, SameLog
    <3>5. Registered(c, e[2])' = Registered(c, e[2])
        BY SameLog
    <3> QED
        BY <3>3, <3>4, <3>5
  <2>5. /\ ChangesIn(done)' = ChangesIn(done') /\ ChangesIn(Range(rows[c]))' = ChangesIn(Range(rows'[c]))
        /\ ChangesIn(Range(tx[c][c]))' = ChangesIn(Range(tx'[c][c]))
        /\ ChangesIn(done \cup Range(rows[c]))' = ChangesIn(done' \cup Range(rows'[c]))
        /\ \A e : Registered(c, e[2])' = Registered(c, e[2])
      BY SameLog
  <2>6. pc'[c] # "storing" /\ (pc'[c] \in Handling \/ pc'[c] = "committing")
      BY <1>7, <1>8 DEF Fetching
  <2> QED
      BY <2>1, <2>2, <2>3, <2>4, <2>5, <2>6 DEF ChangesInv
<1>13. CoverInv(c)'
  <2>1. Changeless => fresh' = <<>> /\ refetched' = {} /\ addr'[c] = 0
      BY <1>7 DEF ChainInv, CoverInv
  <2>2. Calm' => InRange(c, 0, last[c]) \subseteq Range(rows[c]) \cup done \cup dropped'
      BY DEF ChainInv, CoverInv
  <2>3. pc'[c] # "storing" /\ pc'[c] # "listing" /\ pc'[c] \in Handling \cup {"committing"}
      BY <1>7, <1>8 DEF Fetching
  <2> QED
      BY <2>1, <2>2, <2>3, SameLog DEF CoverInv
<1> QED
    BY <1>7, <1>9, <1>10, <1>11, <1>12, <1>13 DEF ChainInv

LEMMA ListenerInit == ASSUME OneChain, Init, NEW c \in Chains PROVE ChainInv(c)
<1>1. /\ log[c] = <<>> /\ last[c] = 0 /\ rows[c] = <<>> /\ done = {} /\ handled = {} /\ addr[c] = 0
      /\ currentBlock = 0 /\ events = <<>> /\ fresh = <<>> /\ pc[c] = "idle" /\ got[c] = <<>>
      /\ tx[c][c] = <<>> /\ dropped = {} /\ refetched = {}
    BY DEF Init, NoRows
<1>2. Range(<<>>) = {}
    BY DEF Range
<1>3. /\ "idle" \notin Handling /\ "idle" \notin Fetching
    BY DEF Handling, Fetching
<1>4. \A S : S = {} => ChangesIn(S) = {}
    BY DEF ChangesIn
<1>5. InRange(c, 0, last[c]) = {}
    BY <1>1 DEF InRange
<1>6. Registered(c, last[c]) = 0
    BY <1>1, RegisteredIs
<1>7. BlocksInv(c)
    BY <1>1, <1>2 DEF BlocksInv
<1>8. RunInv(c) /\ CursorInv(c)
    BY <1>1, <1>3 DEF RunInv, CursorInv
<1>9. DealtInv(c)
    BY <1>1, <1>2, <1>4 DEF DealtInv
<1>10. ChangesInv(c)
  <2>1. ChangesIn(done) = {} /\ ChangesIn(Range(rows[c])) = {} /\ ChangesIn(Range(tx[c][c])) = {}
        /\ ChangesIn(done \cup Range(rows[c])) = {} /\ ChangesIn(InRange(c, 0, last[c])) = {}
      BY <1>1, <1>2, <1>4, <1>5
  <2> QED
      BY <2>1, <1>1, <1>3 DEF ChangesInv
<1>11. CoverInv(c)
    BY <1>1, <1>5, <1>6 DEF CoverInv
<1> QED
    BY <1>1, <1>3, <1>7, <1>8, <1>9, <1>10, <1>11 DEF ChainInv

LEMMA OutsideLoop ==
    ASSUME NEW c \in Chains, pc'[c] \notin Handling \cup {"committing"}
    PROVE  CursorInv(c)' /\ (pc[c] \in Handling => HandlingInv(c))' /\ (pc[c] = "committing" => Ready(c, {}, addr[c]))'
<1>1. pc'[c] \notin {"replacing", "inserting"}
    BY DEF Handling
<1> QED
    BY <1>1 DEF CursorInv

LEMMA PlacesApart ==
    /\ {"idle", "queued", "reading", "fetching", "storing", "listing", "marking", "committing"}
           \cap Handling = {}
    /\ Fetching = {"queued", "reading", "fetching", "storing", "listing"}
    /\ Handling = {"adding", "passing", "replacing", "inserting"}
BY DEF Handling, Fetching

LEMMA EmptyRange == Range(<<>>) = {}
BY DEF Range

(* The invariants after a step in which no block was emitted.               *)
LEMMA ChangesAgain ==
    ASSUME log' = log, NEW c \in Chains,
           ChangesIn(InRange(c, 0, last'[c])) \subseteq Range(rows'[c]) \cup done' \cup dropped',
           \A d \in ChangesIn(done'), e \in ChangesIn(Range(rows'[c])) : d[2] < e[2],
           \A e \in ChangesIn(Range(tx'[c][c])) : last'[c] < e[2],
           pc'[c] = "storing" =>
               ChangesIn(InRange(c, last'[c], upto'[c])) \subseteq Range(got'[c]) \cup dropped',
           pc'[c] \in Handling \cup {"listing", "committing"} =>
               ChangesIn(InRange(c, last'[c], txLast'[c])) \subseteq Range(tx'[c][c]) \cup dropped',
           pc'[c] \notin Handling =>
               \A e \in ChangesIn(done' \cup Range(rows'[c])) : addr'[c] >= Registered(c, e[2])
    PROVE  ChangesInv(c)'
<1>1. /\ ChangesIn(InRange(c, 0, last[c]))' = ChangesIn(InRange(c, 0, last'[c]))
      /\ ChangesIn(done)' = ChangesIn(done') /\ ChangesIn(Range(rows[c]))' = ChangesIn(Range(rows'[c]))
      /\ ChangesIn(Range(tx[c][c]))' = ChangesIn(Range(tx'[c][c]))
      /\ ChangesIn(InRange(c, last[c], upto[c]))' = ChangesIn(InRange(c, last'[c], upto'[c]))
      /\ ChangesIn(InRange(c, last[c], txLast[c]))' = ChangesIn(InRange(c, last'[c], txLast'[c]))
      /\ ChangesIn(done \cup Range(rows[c]))' = ChangesIn(done' \cup Range(rows'[c]))
      /\ \A e : Registered(c, e[2])' = Registered(c, e[2])
    BY SameLog
<1> QED
    BY <1>1 DEF ChangesInv

LEMMA CoverAgain ==
    ASSUME log' = log, NEW c \in Chains,
           Changeless => fresh' = <<>> /\ refetched' = {} /\ addr'[c] = 0,
           Calm' => InRange(c, 0, last'[c]) \subseteq Range(rows'[c]) \cup done' \cup dropped',
           Calm' /\ pc'[c] \notin Handling \cup {"committing"} => addr'[c] <= Registered(c, last'[c]),
           Calm' /\ pc'[c] = "storing" => \A e \in InRange(c, last'[c], upto'[c]) :
                e \in Range(got'[c]) \cup dropped' \/ (~Changed(e) /\ Registered(c, e[2]) > addr'[c]),
           Calm' /\ pc'[c] = "listing" => \A e \in InRange(c, last'[c], txLast'[c]) :
                \/ e \in Range(tx'[c][c]) \cup dropped'
                \/ ~Changed(e) /\ Registered(c, e[2]) > addr'[c]
    PROVE  CoverInv(c)'
<1>1. /\ InRange(c, 0, last[c])' = InRange(c, 0, last'[c])
      /\ InRange(c, last[c], upto[c])' = InRange(c, last'[c], upto'[c])
      /\ InRange(c, last[c], txLast[c])' = InRange(c, last'[c], txLast'[c])
      /\ Registered(c, last[c])' = Registered(c, last'[c])
      /\ \A e : Registered(c, e[2])' = Registered(c, e[2]) /\ Changed(e)' = Changed(e)
      /\ Changeless' = Changeless
    BY SameLog
<1> QED
    BY <1>1 DEF CoverInv

LEMMA BlockNumbers ==
    ASSUME ListenTypes, NEW c \in Chains
    PROVE  /\ last[c] \in Int /\ txLast[c] \in Int /\ upto[c] \in Int /\ currentBlock \in Int
           /\ addr[c] \in Nat /\ Confirmed(c) \in Int /\ Confirmed(c) <= Len(log[c])
           /\ Len(log[c]) \in Nat /\ Confirmed(c) \in (0 - Confirmations)..MaxBlocks
BY ListenerAssumption DEF ListenTypes, TypeOK, Confirmed

(* The command is queued, reads the block number and the last checked one.  *)
LEMMA ReadKeeps ==
    ASSUME OneChain, ListenTypes, NEW c \in Chains, ChainInv(c), Tick(c) \/ GetBlock(c) \/ ReadLast(c)
    PROVE  ChainInv(c)'
<1>1. UNCHANGED <<log, last, rows, done, handled, addr, events, fresh, got, cur, index, tx, txLast,
                  dropped, refetched, faults>>
    BY DEF Tick, GetBlock, ReadLast, tables, memory, transaction, history
<1>2. /\ pc[c] \in {"idle", "queued", "reading"} /\ pc'[c] \in {"queued", "reading", "fetching"}
      /\ pc[c] = "idle" => pc'[c] = "queued" /\ currentBlock' = currentBlock
      /\ pc[c] = "queued" => pc'[c] = "reading" /\ currentBlock' = Confirmed(c)
      /\ pc[c] = "reading" => pc'[c] = "fetching" /\ currentBlock' = currentBlock
                              /\ upto'[c] = currentBlock
  <2>1. pc \in [Chains -> Places] /\ DOMAIN upto = Chains
      BY DEF ListenTypes, TypeOK
  <2> QED
      BY <2>1 DEF Tick, GetBlock, ReadLast, memory
<1>3. Dealt' = Dealt /\ Calm' = Calm
    BY <1>1, SameLog DEF Dealt, Calm, NoChangeMissed
<1>4. BlocksInv(c)'
  <2>1. currentBlock' <= 0 \/ currentBlock' <= Confirmed(c)
      BY <1>2, BlockNumbers DEF ChainInv, BlocksInv
  <2> QED
      BY <2>1, <1>1, SameLog DEF ChainInv, BlocksInv
<1>5. RunInv(c)'
  <2>1. tx'[c][c] = <<>>
      BY <1>1, <1>2, PlacesApart DEF ChainInv, RunInv
  <2>2. pc'[c] # "queued" => last[c] <= 0 \/ last[c] <= currentBlock'
      BY <1>2, PlacesApart DEF ChainInv, RunInv, BlocksInv
  <2> QED
      BY <2>1, <2>2, <1>1, <1>2, PlacesApart DEF RunInv
<1>6. DealtInv(c)'
    BY <1>1, <1>3, SameLog DEF ChainInv, DealtInv
<1>7. ChangesInv(c)'
  <2>1. pc'[c] # "storing" /\ pc'[c] \notin Handling \cup {"listing", "committing"} /\ pc[c] \notin Handling
      BY <1>2, PlacesApart
  <2>2. ChangesInv(c)
      BY DEF ChainInv
  <2> QED
      BY <2>1, <2>2, <1>1, ChangesAgain DEF ChangesInv
<1>8. CoverInv(c)'
    BY <1>1, <1>2, <1>3, SameLog, PlacesApart DEF ChainInv, CoverInv
<1> QED
    BY <1>2, <1>4, <1>5, <1>6, <1>7, <1>8, OutsideLoop, PlacesApart DEF ChainInv

LEMMA StoreKeeps ==
    ASSUME OneChain, ListenTypes, NEW c \in Chains, ChainInv(c), Store(c)
    PROVE  ChainInv(c)'
<1>1. UNCHANGED <<log, last, rows, done, handled, addr, currentBlock, events, fresh, cur, index,
                  dropped, refetched, faults>>
    BY DEF Store, tables, memory, history
<1>2. /\ pc[c] = "storing" /\ pc'[c] = "listing" /\ tx'[c][c] = got[c] /\ txLast'[c] = currentBlock
      /\ got'[c] = <<>>
  <2>1. /\ pc \in [Chains -> Places] /\ DOMAIN txLast = Chains /\ got \in [Chains -> Seq(Event)]
        /\ tx \in [Chains -> [Chains -> Seq(Event)]]
      BY DEF ListenTypes, TypeOK
  <2> QED
      BY <2>1 DEF Store, CheckedBlock
<1>3. Dealt' = Dealt /\ Calm' = Calm
    BY <1>1, SameLog DEF Dealt, Calm, NoChangeMissed
<1>4. /\ upto[c] = currentBlock /\ (last[c] <= 0 \/ last[c] <= currentBlock)
      /\ \A e \in Range(got[c]) : last[c] < e[2] /\ e[2] <= upto[c]
      /\ ChangesIn(InRange(c, last[c], upto[c])) \subseteq Range(got[c]) \cup dropped
      /\ Range(got[c]) \subseteq Blocks(c)
    BY <1>2, PlacesApart DEF ChainInv, RunInv, ChangesInv, BlocksInv
<1>5. BlocksInv(c)'
  <2>1. Range(tx'[c][c]) \subseteq InRange(c, 0, txLast'[c])
    <3>1. \A e \in Blocks(c) : e[2] \in Nat /\ 0 < e[2]
        BY LogIs
    <3> QED
        BY <3>1, <1>2, <1>4, InRangeIs
  <2>2. Range(got'[c]) = {}
      BY <1>2, EmptyRange
  <2> QED
      BY <2>1, <2>2, <1>1, SameLog DEF ChainInv, BlocksInv
<1>6. RunInv(c)'
    BY <1>1, <1>2, <1>4, PlacesApart DEF RunInv
<1>7. DealtInv(c)'
    BY <1>1, <1>3, SameLog DEF ChainInv, DealtInv
<1>8. ChangesInv(c)'
  <2>1. \A e \in ChangesIn(Range(tx'[c][c])) : last[c] < e[2]
      BY <1>2, <1>4 DEF ChangesIn
  <2>2. ChangesIn(InRange(c, last[c], txLast'[c])) \subseteq Range(tx'[c][c]) \cup dropped
      BY <1>2, <1>4
  <2>3. pc'[c] # "storing" /\ pc'[c] \notin Handling /\ pc[c] \notin Handling
      BY <1>2, PlacesApart
  <2>4. ChangesInv(c)
      BY DEF ChainInv
  <2> QED
      BY <2>1, <2>2, <2>3, <2>4, <1>1, ChangesAgain DEF ChangesInv
<1>9. CoverInv(c)'
  <2>1. Calm => \A e \in InRange(c, last[c], txLast'[c]) :
                \/ e \in Range(tx'[c][c]) \cup dropped
                \/ ~Changed(e) /\ Registered(c, e[2]) > addr[c]
      BY <1>2, <1>4 DEF ChainInv, CoverInv
  <2>2. InRange(c, last[c], txLast[c])' = InRange(c, last[c], txLast'[c])
      BY <1>1, SameLog
  <2> QED
      BY <2>1, <2>2, <1>1, <1>2, <1>3, SameLog, PlacesApart DEF ChainInv, CoverInv
<1> QED
    BY <1>2, <1>5, <1>6, <1>7, <1>8, <1>9, OutsideLoop, PlacesApart DEF ChainInv

LEMMA CalmBefore ==
    ASSUME ListenTypes, ListenTypes', log' = log, dropped \subseteq dropped', faults' >= faults
    PROVE  Calm' => Calm
<1>1. faults \in Nat /\ faults' \in Nat
    BY DEF ListenTypes, TypeOK
<1>2. NoChangeMissed' => NoChangeMissed
    BY <1>1, SameLog DEF NoChangeMissed
<1> QED
    BY <1>2, SameLog DEF Calm

LEMMA FetchKeeps ==
    ASSUME OneChain, ListenTypes, ListenTypes', NEW c \in Chains, ChainInv(c), Fetch(c)
    PROVE  ChainInv(c)'
<1>1. UNCHANGED <<log, last, rows, done, handled, addr, currentBlock, events, fresh, upto, cur, index,
                  tx, txLast, refetched>>
    BY DEF Fetch, tables, memory, transaction
<1>2. /\ pc[c] = "fetching" /\ pc'[c] = "storing"
      /\ GetPastEvents(c, c, addr[c], TRUE, last[c], upto[c])
  <2>1. pc \in [Chains -> Places]
      BY DEF ListenTypes, TypeOK
  <2> QED
      BY <2>1 DEF Fetch
<1>n. last[c] \in Int /\ upto[c] \in Int /\ addr[c] \in Nat
    BY BlockNumbers
<1>h. PICK hub : hub = TRUE
    OBVIOUS
<1>3. faults' >= faults
      /\ \E end \in Int : /\ got'[c] = Emitted(c, addr[c], hub, last[c], end)
                          /\ dropped' = dropped \cup InRange(c, end, upto[c])
                          /\ end <= upto[c] /\ (last[c] <= end \/ end = upto[c])
  <2>1. PICK v, i, j : v = addr[c] /\ i = last[c] /\ j = upto[c]
      OBVIOUS
  <2>2. GetPastEvents(c, c, v, hub, i, j) /\ i \in Int /\ j \in Int
      BY <2>1, <1>2, <1>h, <1>n
  <2>3. faults' >= faults
        /\ \E end \in Int : /\ got'[c] = Emitted(c, v, hub, i, end)
                            /\ dropped' = dropped \cup InRange(c, end, j)
                            /\ end <= j /\ (i <= end \/ end = j)
      BY <2>2, PastEventsTypes
  <2> QED
      BY <2>1, <2>3
<1>4. PICK end \in Int : /\ got'[c] = Emitted(c, addr[c], hub, last[c], end)
                         /\ dropped' = dropped \cup InRange(c, end, upto[c])
                         /\ end <= upto[c] /\ (last[c] <= end \/ end = upto[c])
    BY <1>3
<1>5. Range(got'[c]) = {e \in InRange(c, last[c], end) : Changed(e) \/ Registered(c, e[2]) = addr[c]}
  <2>1. Range(got'[c]) = {e \in InRange(c, last[c], end) :
                             IF Changed(e) THEN hub ELSE Registered(c, e[2]) = addr[c]}
      BY <1>4, EmittedIs
  <2> QED
      BY <2>1, <1>h
<1>6. Calm' => Calm
    BY <1>1, <1>3, <1>4, CalmBefore
<1>7. /\ upto[c] = currentBlock /\ (last[c] <= 0 \/ last[c] <= currentBlock)
    BY <1>2, PlacesApart DEF ChainInv, RunInv
<1>8. \A e \in Range(got'[c]) : e \in Blocks(c) /\ last[c] < e[2] /\ e[2] <= upto[c]
  <2> SUFFICES ASSUME NEW e \in Range(got'[c])
               PROVE  e \in Blocks(c) /\ last[c] < e[2] /\ e[2] <= upto[c]
      OBVIOUS
  <2>1. e \in InRange(c, last[c], end)
      BY <1>5
  <2>2. e \in Blocks(c) /\ last[c] < e[2] /\ e[2] <= end
      BY <2>1, InRangeIs
  <2>3. e[2] \in Int
      BY <2>2, LogIs
  <2> QED
      BY <2>2, <2>3, <1>4, <1>n
(* What is asked for is in the answer or lost, or of another contract.      *)
<1>9. \A e \in InRange(c, last[c], upto[c]) :
          \/ e \in Range(got'[c]) \cup dropped'
          \/ ~Changed(e) /\ Registered(c, e[2]) # addr[c]
  <2> SUFFICES ASSUME NEW e \in InRange(c, last[c], upto[c]), e \notin dropped'
               PROVE  e \in Range(got'[c]) \/ (~Changed(e) /\ Registered(c, e[2]) # addr[c])
      OBVIOUS
  <2>1. e \in Blocks(c) /\ last[c] < e[2] /\ e[2] <= upto[c] /\ e[2] \in Int
      BY InRangeIs, LogIs
  <2>2. ~(end < e[2])
      BY <2>1, <1>4, InRangeIs
  <2>3. e \in InRange(c, last[c], end)
      BY <2>1, <2>2, InRangeIs
  <2> QED
      BY <2>3, <1>5
<1>10. BlocksInv(c)'
  <2>1. dropped' \subseteq Blocks(c)
      BY <1>4, InRangeIs DEF ChainInv, BlocksInv
  <2>2. Range(got'[c]) \subseteq Blocks(c)
      BY <1>8
  <2> QED
      BY <2>1, <2>2, <1>1, SameLog DEF ChainInv, BlocksInv
<1>11. RunInv(c)'
  <2>1. tx[c][c] = <<>>
      BY <1>2, PlacesApart DEF ChainInv, RunInv
  <2> QED
      BY <2>1, <1>1, <1>2, <1>7, <1>8, PlacesApart DEF RunInv
<1>12. DealtInv(c)'
  <2>1. Dealt \subseteq Dealt'
      BY <1>1, <1>4 DEF Dealt
  <2> QED
      BY <2>1, <1>1, SameLog DEF ChainInv, DealtInv
<1>13. ChangesInv(c)'
  <2>1. ChangesIn(InRange(c, last[c], upto[c])) \subseteq Range(got'[c]) \cup dropped'
      BY <1>9 DEF ChangesIn
  <2>2. pc'[c] \notin Handling \cup {"listing", "committing"} /\ pc[c] \notin Handling
      BY <1>2, PlacesApart
  <2>3. ChangesInv(c) /\ dropped \subseteq dropped'
      BY <1>4 DEF ChainInv
  <2> QED
      BY <2>1, <2>2, <2>3, <1>1, ChangesAgain DEF ChangesInv
<1>14. CoverInv(c)'
  <2>1. CoverInv(c) /\ dropped \subseteq dropped' /\ pc[c] \notin Handling \cup {"committing"}
      BY <1>2, <1>4, PlacesApart DEF ChainInv
  <2>2. Calm => addr[c] <= Registered(c, last[c])
      BY <2>1 DEF CoverInv
  <2>3. Calm' => \A e \in InRange(c, last[c], upto[c]) :
                e \in Range(got'[c]) \cup dropped' \/ (~Changed(e) /\ Registered(c, e[2]) > addr[c])
    <3> SUFFICES ASSUME Calm', NEW e \in InRange(c, last[c], upto[c]), e \notin Range(got'[c]) \cup dropped'
                 PROVE  ~Changed(e) /\ Registered(c, e[2]) > addr[c]
        OBVIOUS
    <3>1. ~Changed(e) /\ Registered(c, e[2]) # addr[c]
        BY <1>9
    <3>2. e[2] \in Int /\ last[c] <= e[2]
        BY InRangeIs, LogIs, <1>n
    <3>3. Registered(c, last[c]) <= Registered(c, e[2]) /\ Registered(c, e[2]) \in Nat
          /\ Registered(c, last[c]) \in Nat
        BY <3>2, <1>n, RegisteredIs
    <3> QED
        BY <3>1, <3>3, <2>2, <1>6, <1>n
  <2>4. pc'[c] # "listing"
      BY <1>2
  <2> QED
      BY <2>1, <2>2, <2>3, <2>4, <1>1, <1>6, CoverAgain DEF CoverInv
<1> QED
    BY <1>2, <1>10, <1>11, <1>12, <1>13, <1>14, OutsideLoop, PlacesApart DEF ChainInv

LEMMA ReadyAgain ==
    ASSUME log' = log, NEW c \in Chains, NEW R, NEW a, R \subseteq Blocks(c),
           Range(tx'[c][c]) \subseteq Dealt' \cup R, ChangesIn(R) \subseteq Stored(c)',
           \A e \in ChangesIn(done' \cup Stored(c)') :
              e \in R \/ (a >= Registered(c, e[2]) /\ \A f \in ChangesIn(R) : e[2] <= f[2]),
           Calm' => a <= Registered(c, txLast'[c]),
           Calm' => \A e \in InRange(c, last'[c], txLast'[c]) :
              e \in Range(tx'[c][c]) \cup dropped' \/ (~Changed(e) /\ Registered(c, e[2]) > a),
           Changeless => R \subseteq Stored(c)'
    PROVE  Ready(c, R, a)'
<1>1. /\ InRange(c, last[c], txLast[c])' = InRange(c, last'[c], txLast'[c])
      /\ ChangesIn(done \cup Stored(c))' = ChangesIn(done' \cup Stored(c)')
      /\ ChangesIn(R)' = ChangesIn(R) /\ Blocks(c)' = Blocks(c)
      /\ Registered(c, txLast[c])' = Registered(c, txLast'[c])
      /\ \A e : Registered(c, e[2])' = Registered(c, e[2]) /\ Changed(e)' = Changed(e)
      /\ Changeless' = Changeless
    BY SameLog
<1> QED
    BY <1>1 DEF Ready

LEMMA ListKeeps ==
    ASSUME OneChain, ListenTypes, ListenTypes', NEW c \in Chains, ChainInv(c), List(c)
    PROVE  ChainInv(c)'
<1>1. UNCHANGED <<log, last, rows, done, handled, currentBlock, upto, got, tx, txLast, dropped,
                  refetched, faults>>
    BY DEF List, tables, transaction, history
<1>2. /\ rows[c] \in Seq(Event) /\ tx[c][c] \in Seq(Event) /\ fresh \in Seq(Event)
      /\ last[c] \in Int /\ txLast[c] \in Int /\ addr[c] \in Nat
    BY BlockNumbers DEF ListenTypes, TypeOK
<1>3. PICK evs, new, R, a :
          evs = Unprocessed(c) /\ new = fresh /\ R = Rest(evs, 1) /\ a = addr[c]
    OBVIOUS
<1>i. PICK i, N : i = 1 /\ N = {}
    OBVIOUS
<1>4. Loop(c, evs, 1, new) /\ pc[c] = "listing"
    BY <1>3 DEF List
<1>5. evs \in Seq(Event) /\ Range(evs) = Stored(c) /\ Ascending(evs, 1)
  <2>1. rows[c] \o tx[c][c] \in Seq(Event) /\ Range(rows[c] \o tx[c][c]) = Stored(c)
      BY <1>2, JoinedRange DEF Stored
  <2> QED
      BY <2>1, <1>3, SortedIs DEF Unprocessed
<1>6. R = Stored(c)
    BY <1>3, <1>5, ListRange DEF Rest
<1>7. /\ Range(rows[c]) \cup done \subseteq InRange(c, 0, last[c])
      /\ Range(tx[c][c]) \subseteq InRange(c, 0, txLast[c])
      /\ Range(fresh) \subseteq Blocks(c) /\ Dealt \subseteq Blocks(c)
      /\ last[c] <= 0 \/ last[c] <= txLast[c]
      /\ Range(fresh) \subseteq refetched /\ ChangesIn(Range(fresh)) = {}
      /\ \A d \in ChangesIn(done), e \in ChangesIn(Range(rows[c])) : d[2] < e[2]
      /\ \A e \in ChangesIn(Range(tx[c][c])) : last[c] < e[2]
      /\ \A e \in ChangesIn(done \cup Range(rows[c])) : addr[c] >= Registered(c, e[2])
      /\ Changeless => fresh = <<>> /\ refetched = {}
      /\ Calm => addr[c] <= Registered(c, last[c])
      /\ Calm => \A e \in InRange(c, last[c], txLast[c]) :
             e \in Range(tx[c][c]) \cup dropped \/ (~Changed(e) /\ Registered(c, e[2]) > addr[c])
    BY <1>4, PlacesApart DEF ChainInv, BlocksInv, RunInv, DealtInv, ChangesInv, CoverInv, Dealt
<1>8. Stored(c) \subseteq Blocks(c)
    BY <1>7, InRangeIs DEF Stored
<1>9. Stored(c)' = Stored(c) /\ Dealt' = Dealt /\ Calm' = Calm
    BY <1>1, SameLog DEF Stored, Dealt, Calm, NoChangeMissed
<1>10. Ready(c, R, a)'
  <2>1. \A e \in ChangesIn(done \cup Stored(c)) :
              e \in R \/ (a >= Registered(c, e[2]) /\ \A f \in ChangesIn(R) : e[2] <= f[2])
    <3> SUFFICES ASSUME NEW e \in ChangesIn(done \cup Stored(c)), e \notin R
                 PROVE  a >= Registered(c, e[2]) /\ \A f \in ChangesIn(R) : e[2] <= f[2]
        OBVIOUS
    <3>1. e \in ChangesIn(done) /\ e \in ChangesIn(done \cup Range(rows[c])) /\ e \in done
        BY <1>6 DEF ChangesIn
    <3>2. e \in Blocks(c) /\ e[2] \in Int /\ e[2] <= last[c]
        BY <3>1, <1>7, InRangeIs, LogIs
    <3>3. ASSUME NEW f \in ChangesIn(R) PROVE e[2] <= f[2]
      <4>1. f \in ChangesIn(Range(rows[c])) \/ f \in ChangesIn(Range(tx[c][c]))
          BY <1>6 DEF ChangesIn, Stored
      <4>2. f[2] \in Int
          BY <1>6, <1>8, LogIs DEF ChangesIn
      <4>3. e[2] < f[2] \/ last[c] < f[2]
          BY <4>1, <3>1, <1>7
      <4> QED
          BY <4>2, <4>3, <3>2, <1>2
    <3> QED
        BY <3>1, <3>3, <1>3, <1>7
  <2>2. Calm => a <= Registered(c, txLast[c])
    <3>1. Registered(c, last[c]) <= Registered(c, txLast[c]) /\ Registered(c, last[c]) \in Nat
          /\ Registered(c, txLast[c]) \in Nat
      <4>1. CASE last[c] <= txLast[c]
          BY <4>1, <1>2, RegisteredIs
      <4>2. CASE last[c] <= 0
        <5>1. Registered(c, last[c]) <= Registered(c, 0) /\ Registered(c, 0) \in 0..0
            BY <4>2, <1>2, RegisteredIs
        <5>2. Registered(c, txLast[c]) \in Nat /\ Registered(c, last[c]) \in Nat
            BY <1>2, RegisteredIs
        <5> QED
            BY <5>1, <5>2
      <4> QED
          BY <4>1, <4>2, <1>7
    <3> QED
        BY <3>1, <1>2, <1>3, <1>7
  <2>3. ChangesIn(R) \subseteq Stored(c) /\ Range(tx[c][c]) \subseteq Dealt \cup R
      BY <1>6 DEF ChangesIn, Stored
  <2> QED
      BY <2>1, <2>2, <2>3, <1>1, <1>3, <1>6, <1>7, <1>8, <1>9, ReadyAgain
<1>11. /\ UNCHANGED <<log, last, rows, done, currentBlock, txLast>>
       /\ Range(got'[c]) \subseteq Range(got[c]) /\ Dealt' \subseteq Blocks(c) /\ Dealt \subseteq Dealt'
       /\ dropped \subseteq dropped' /\ (Calm' => Calm)
       /\ Range(tx'[c][c]) = Range(tx[c][c]) \cup {} /\ ChangesIn({}) = {}
       /\ pc[c] \in Handling \cup {"listing"}
    BY <1>1, <1>4, <1>7, <1>9 DEF ChangesIn
<1>12. /\ Range(evs) \subseteq Blocks(c) /\ Range(new) \subseteq Blocks(c) /\ Range(new) \subseteq refetched'
       /\ ChangesIn(Range(new)) = {} /\ (Changeless => new = <<>> /\ refetched' = {})
       /\ new \in Seq(Event)
    BY <1>1, <1>2, <1>3, <1>5, <1>7, <1>8
<1>13. /\ i \in Nat /\ i >= 1 /\ R = Rest(evs, i) /\ a = addr[c] /\ Loop(c, evs, i, new)
       /\ Ascending(evs, i) /\ evs \in Seq(Event)
       /\ Range(tx'[c][c]) = Range(tx[c][c]) \cup N /\ N \subseteq InRange(c, 0, txLast[c])
       /\ ChangesIn(N) = {}
    BY <1>i, <1>3, <1>4, <1>5, <1>11
<1> QED
    BY <1>10, <1>11, <1>12, <1>13, LoopGoesOn

(* The handler of an event returned or threw.                               *)
LEMMA HandledKeeps ==
    ASSUME OneChain, ListenTypes, ListenTypes', NEW c \in Chains, ChainInv(c), Handled(c) \/ HandlerFails(c)
    PROVE  ChainInv(c)'
<1>1. /\ UNCHANGED <<log, last, rows, done, currentBlock, upto, tx, txLast, refetched>>
      /\ dropped \subseteq dropped' /\ faults' >= faults
      /\ pc[c] \in Handling /\ Loop(c, events, NextIndex(c), fresh)
      /\ pc[c] \in {"adding", "passing"} \/ faults' > 0
      /\ got' = got \/ got' = [got EXCEPT ![c] = <<>>]
  <2>1. faults \in Nat
      BY DEF ListenTypes, TypeOK
  <2> QED
      BY <2>1, PlacesApart DEF Handled, HandlerFails, tables, transaction, history
<1>d. PICK D : D \subseteq Blocks(c) /\ Dealt' = Dealt \cup {cur[c]} \cup D
  <2>1. CASE Handled(c)
    <3>1. Dealt' = Dealt \cup {cur[c]} \cup {}
        BY <2>1 DEF Handled, history, Dealt
    <3> QED
        BY <3>1
  <2>2. CASE HandlerFails(c)
    <3>1. Dealt' = Dealt \cup {cur[c]} \cup Unstored(c)
        BY <2>2 DEF HandlerFails, Dealt
    <3>2. cur[c] \in Blocks(c) /\ Range(got[c]) \subseteq Blocks(c)
        BY <1>1 DEF ChainInv, CursorInv, BlocksInv
    <3>3. cur[c][1] = c
        BY <3>2, LogIs
    <3>4. Unstored(c) \subseteq InRange(c, cur[c][2], currentBlock) \cup Range(got[c])
        BY <3>3, UnstoredIs
    <3>5. Unstored(c) \subseteq Blocks(c)
        BY <3>2, <3>4, InRangeIs
    <3> QED
        BY <3>1, <3>5
  <2> QED
      BY <2>1, <2>2
<1>2. events \in Seq(Event) /\ fresh \in Seq(Event) /\ index[c] \in Nat /\ addr[c] \in Nat
    BY DEF ListenTypes, TypeOK
<1>3. PICK evs, i, new, R, a, N :
          /\ evs = events /\ i = NextIndex(c) /\ new = fresh /\ R = Pending(c) /\ a = addr[c] /\ N = {}
    OBVIOUS
<1>4. /\ i \in Nat /\ i >= 1 /\ i = index[c] + 1 /\ R = Rest(evs, i) /\ evs \in Seq(Event)
      /\ new \in Seq(Event) /\ Loop(c, evs, i, new)
    BY <1>1, <1>2, <1>3 DEF NextIndex, Pending
<1>5. Calm' => pc[c] # "replacing" /\ pc[c] # "inserting"
  <2> SUFFICES ASSUME pc[c] \in {"replacing", "inserting"} PROVE ~Calm'
      OBVIOUS
  <2>1. pc[c] # "adding" /\ pc[c] # "passing"
      OBVIOUS
  <2>2. cur[c] \in Blocks(c) /\ Changed(cur[c])
      BY <1>1, <2>1 DEF ChainInv, CursorInv
  <2>3. cur[c] = <<c, cur[c][2]>> /\ cur[c][2] \in DOMAIN log[c]
      BY <2>2, LogIs
  <2>4. ~Changeless
    <3>1. \E b \in DOMAIN log[c] : Changed(<<c, b>>)
        BY <2>2, <2>3
    <3> QED
        BY <3>1 DEF Changeless
  <2>5. ~Changeless' /\ faults' # 0
    <3>1. faults' > 0
        BY <1>1, <2>1
    <3>2. ~Changeless'
        BY <1>1, <2>4, SameLog
    <3> QED
        BY <3>1, <3>2
  <2> QED
      BY <2>5 DEF Calm, NoChangeMissed
<1>6. /\ Range(events) \subseteq Blocks(c) /\ Range(fresh) \subseteq Blocks(c) /\ Dealt \subseteq Blocks(c)
      /\ Range(fresh) \subseteq refetched /\ ChangesIn(Range(fresh)) = {}
      /\ Ascending(events, index[c] + 1) /\ cur[c] \in Blocks(c)
      /\ Changeless => fresh = <<>> /\ refetched = {}
      /\ HandlingInv(c)
    BY <1>1 DEF ChainInv, BlocksInv, DealtInv, CursorInv, CoverInv, Dealt
<1>7. Calm' => Calm
    BY <1>1, CalmBefore
<1>8. Stored(c)' = Stored(c)
    BY <1>1 DEF Stored
<1>9. R \subseteq Blocks(c)
  <2>1. Range(evs) = {evs[j] : j \in 1..Len(evs)}
      BY <1>4, ListRange
  <2>2. \A j \in i..Len(evs) : j \in 1..Len(evs)
      BY <1>4
  <2> QED
      BY <2>1, <2>2, <1>3, <1>4, <1>6 DEF Rest
<1>10. Ready(c, R, a)'
  <2>1. Range(tx'[c][c]) \subseteq Dealt' \cup R
      BY <1>1, <1>d, <1>3, <1>6 DEF HandlingInv
  <2>2. ChangesIn(R) \subseteq Stored(c)' /\ (Changeless => R \subseteq Stored(c)')
      BY <1>3, <1>6, <1>8 DEF HandlingInv, ChangesIn
  <2>3. \A e \in ChangesIn(done' \cup Stored(c)') :
              e \in R \/ (a >= Registered(c, e[2]) /\ \A f \in ChangesIn(R) : e[2] <= f[2])
      BY <1>1, <1>3, <1>6, <1>8 DEF HandlingInv
  <2>4. Calm' => a <= Registered(c, txLast'[c])
      BY <1>1, <1>3, <1>6, <1>7 DEF HandlingInv
  <2>5. Calm' => \A e \in InRange(c, last'[c], txLast'[c]) :
              e \in Range(tx'[c][c]) \cup dropped' \/ (~Changed(e) /\ Registered(c, e[2]) > a)
      BY <1>1, <1>3, <1>5, <1>6, <1>7 DEF HandlingInv
  <2> QED
      BY <2>1, <2>2, <2>3, <2>4, <2>5, <1>1, <1>9, ReadyAgain
<1>11. /\ UNCHANGED <<log, last, rows, done, currentBlock, txLast>>
       /\ Range(got'[c]) \subseteq Range(got[c]) /\ Dealt' \subseteq Blocks(c) /\ Dealt \subseteq Dealt'
       /\ dropped \subseteq dropped' /\ (Calm' => Calm)
       /\ Range(tx'[c][c]) = Range(tx[c][c]) \cup N /\ N \subseteq InRange(c, 0, txLast[c])
       /\ ChangesIn(N) = {} /\ pc[c] \in Handling \cup {"listing"}
  <2>1. Range(got'[c]) \subseteq Range(got[c])
    <3>1. got \in [Chains -> Seq(Event)]
        BY DEF ListenTypes, TypeOK
    <3> QED
        BY <1>1, <3>1, EmptyRange
  <2> QED
      BY <2>1, <1>1, <1>d, <1>3, <1>6, <1>7 DEF ChangesIn
<1>12. /\ Range(evs) \subseteq Blocks(c) /\ Range(new) \subseteq Blocks(c) /\ Range(new) \subseteq refetched'
       /\ ChangesIn(Range(new)) = {} /\ (Changeless => new = <<>> /\ refetched' = {})
       /\ Ascending(evs, i) /\ a = addr[c]
    BY <1>1, <1>3, <1>4, <1>6
<1> QED
    BY <1>4, <1>10, <1>11, <1>12, LoopGoesOn

LEMMA HandlingAgain ==
    ASSUME log' = log, NEW c \in Chains,
           Range(tx'[c][c]) \subseteq Dealt' \cup Pending(c)' \cup {cur'[c]},
           ChangesIn(Pending(c)' \cup {cur'[c]}) \subseteq Stored(c)',
           \A e \in ChangesIn(done' \cup Stored(c)') :
              \/ e \in Pending(c)'
              \/ addr'[c] >= Registered(c, e[2]) /\ \A f \in ChangesIn(Pending(c)') : e[2] <= f[2],
           Calm' => addr'[c] <= Registered(c, txLast'[c]),
           Calm' => \A e \in InRange(c, last'[c], txLast'[c]) :
                \/ e \in Range(tx'[c][c]) \cup dropped'
                \/ ~Changed(e) /\ Registered(c, e[2]) > addr'[c]
                \/ /\ pc'[c] = "replacing" /\ ~Changed(e) /\ cur'[c][2] < e[2]
                   /\ Registered(c, e[2]) = addr'[c]
                \/ pc'[c] = "inserting" /\ e \in Range(got'[c]),
           Changeless => /\ Pending(c)' \cup {cur'[c]} \subseteq Stored(c)'
                         /\ \A f \in Pending(c)' : cur'[c][2] <= f[2]
    PROVE  HandlingInv(c)'
<1>1. /\ InRange(c, last[c], txLast[c])' = InRange(c, last'[c], txLast'[c])
      /\ ChangesIn(done \cup Stored(c))' = ChangesIn(done' \cup Stored(c)')
      /\ ChangesIn(Pending(c) \cup {cur[c]})' = ChangesIn(Pending(c)' \cup {cur'[c]})
      /\ ChangesIn(Pending(c))' = ChangesIn(Pending(c)')
      /\ Registered(c, txLast[c])' = Registered(c, txLast'[c])
      /\ \A e : Registered(c, e[2])' = Registered(c, e[2]) /\ Changed(e)' = Changed(e)
      /\ Changeless' = Changeless
    BY SameLog
<1> QED
    BY <1>1 DEF HandlingInv

(* The events of a contract that a change replaced the other with.          *)
LEMMA RefetchKeeps ==
    ASSUME OneChain, ListenTypes, ListenTypes', NEW c \in Chains, ChainInv(c), Refetch(c)
    PROVE  ChainInv(c)'
<1>1. UNCHANGED <<log, last, rows, done, handled, addr, currentBlock, events, fresh, upto, cur, index,
                  tx, txLast, refetched>>
    BY DEF Refetch, tables, memory, transaction
<1>2. /\ pc[c] = "replacing" /\ pc'[c] = "inserting"
      /\ GetPastEvents(c, cur[c][1], addr[cur[c][1]], FALSE, cur[c][2], currentBlock)
  <2>1. pc \in [Chains -> Places]
      BY DEF ListenTypes, TypeOK
  <2> QED
      BY <2>1 DEF Refetch
<1>3. /\ HandlingInv(c) /\ CursorInv(c) /\ cur[c] \in Blocks(c) /\ addr[c] = Registered(c, cur[c][2])
      /\ Changed(cur[c]) /\ txLast[c] = currentBlock
    BY <1>2, PlacesApart DEF ChainInv, CursorInv, RunInv
<1>4. /\ cur[c][1] = c /\ cur[c][2] \in Int /\ cur[c][2] >= 1 /\ currentBlock \in Int /\ addr[c] \in Nat
      /\ last[c] \in Int /\ txLast[c] \in Int
    BY <1>3, LogIs, BlockNumbers
<1>5. PICK v, hub, i, j : v = addr[c] /\ hub = FALSE /\ i = cur[c][2] /\ j = currentBlock
    OBVIOUS
<1>6. faults' >= faults
      /\ \E end \in Int : /\ got'[c] = Emitted(c, v, hub, i, end)
                          /\ dropped' = dropped \cup InRange(c, end, j)
                          /\ end <= j /\ (i <= end \/ end = j)
  <2>1. GetPastEvents(c, c, v, hub, i, j) /\ i \in Int /\ j \in Int
      BY <1>2, <1>4, <1>5
  <2> QED
      BY <2>1, PastEventsTypes
<1>7. PICK end \in Int : /\ got'[c] = Emitted(c, v, hub, i, end)
                         /\ dropped' = dropped \cup InRange(c, end, j)
                         /\ end <= j /\ (i <= end \/ end = j)
    BY <1>6
<1>8. Range(got'[c]) = {e \in InRange(c, i, end) : ~Changed(e) /\ Registered(c, e[2]) = addr[c]}
  <2>1. Range(got'[c]) = {e \in InRange(c, i, end) : IF Changed(e) THEN hub ELSE Registered(c, e[2]) = v}
      BY <1>7, EmittedIs
  <2> QED
      BY <2>1, <1>5
<1>9. Calm' => Calm
    BY <1>1, <1>6, <1>7, CalmBefore
<1>10. \A e \in Range(got'[c]) : e \in Blocks(c) /\ ~Changed(e) /\ cur[c][2] < e[2] /\ e[2] <= currentBlock
  <2> SUFFICES ASSUME NEW e \in Range(got'[c])
               PROVE  e \in Blocks(c) /\ ~Changed(e) /\ cur[c][2] < e[2] /\ e[2] <= currentBlock
      OBVIOUS
  <2>1. e \in InRange(c, i, end) /\ ~Changed(e)
      BY <1>8
  <2>2. e \in Blocks(c) /\ i < e[2] /\ e[2] <= end
      BY <2>1, InRangeIs
  <2>3. e[2] \in Int
      BY <2>2, LogIs
  <2> QED
      BY <2>1, <2>2, <2>3, <1>4, <1>5, <1>7
<1>11. ~Changeless
  <2>1. cur[c] = <<c, cur[c][2]>> /\ cur[c][2] \in DOMAIN log[c]
      BY <1>3, LogIs
  <2> QED
      BY <2>1, <1>3 DEF Changeless
<1>12. BlocksInv(c)'
  <2>1. dropped' \subseteq Blocks(c)
      BY <1>7, InRangeIs DEF ChainInv, BlocksInv
  <2>2. Range(got'[c]) \subseteq Blocks(c)
      BY <1>10
  <2> QED
      BY <2>1, <2>2, <1>1, SameLog DEF ChainInv, BlocksInv
<1>13. RunInv(c)'
    BY <1>1, <1>2, PlacesApart DEF ChainInv, RunInv
<1>14. Dealt \subseteq Dealt' /\ dropped \subseteq dropped'
    BY <1>1, <1>7 DEF Dealt
<1>15. DealtInv(c)'
    BY <1>1, <1>14, SameLog DEF ChainInv, DealtInv
<1>16. ChangesInv(c)'
  <2>1. pc'[c] # "storing" /\ pc'[c] \in Handling /\ pc[c] \in Handling
      BY <1>2, PlacesApart
  <2>2. ChangesInv(c)
      BY DEF ChainInv
  <2> QED
      BY <2>1, <2>2, <1>1, <1>14, ChangesAgain DEF ChangesInv
<1>17. CoverInv(c)'
  <2>1. pc'[c] # "storing" /\ pc'[c] # "listing" /\ pc'[c] \in Handling
      BY <1>2, PlacesApart
  <2>2. CoverInv(c)
      BY DEF ChainInv
  <2> QED
      BY <2>1, <2>2, <1>1, <1>9, <1>11, <1>14, CoverAgain DEF CoverInv
<1>18. Pending(c)' = Pending(c) /\ Stored(c)' = Stored(c)
    BY <1>1 DEF Pending, Stored, Rest
<1>19. HandlingInv(c)'
  <2>1. Calm' => \A e \in InRange(c, last[c], txLast[c]) :
                \/ e \in Range(tx[c][c]) \cup dropped'
                \/ ~Changed(e) /\ Registered(c, e[2]) > addr[c]
                \/ e \in Range(got'[c])
    <3> SUFFICES ASSUME Calm', NEW e \in InRange(c, last[c], txLast[c]),
                        e \notin Range(tx[c][c]) \cup dropped',
                        ~(~Changed(e) /\ Registered(c, e[2]) > addr[c])
                 PROVE  e \in Range(got'[c])
        OBVIOUS
    <3>1. ~Changed(e) /\ cur[c][2] < e[2] /\ Registered(c, e[2]) = addr[c]
        BY <1>2, <1>3, <1>9, <1>14 DEF HandlingInv
    <3>2. e \in Blocks(c) /\ e[2] \in Int /\ e[2] <= currentBlock
        BY <1>3, InRangeIs, LogIs
    <3>3. ~(end < e[2])
        BY <3>2, <1>5, <1>7, InRangeIs
    <3>4. e \in InRange(c, i, end)
        BY <3>1, <3>2, <3>3, <1>5, InRangeIs
    <3> QED
        BY <3>1, <3>4, <1>8
  <2>2. /\ Range(tx[c][c]) \subseteq Dealt' \cup Pending(c) \cup {cur[c]}
        /\ ChangesIn(Pending(c) \cup {cur[c]}) \subseteq Stored(c)
        /\ \A e \in ChangesIn(done \cup Stored(c)) :
              \/ e \in Pending(c)
              \/ addr[c] >= Registered(c, e[2]) /\ \A f \in ChangesIn(Pending(c)) : e[2] <= f[2]
        /\ Calm' => addr[c] <= Registered(c, txLast[c])
      BY <1>3, <1>9, <1>14 DEF HandlingInv
  <2> QED
      BY <2>1, <2>2, <1>1, <1>2, <1>11, <1>18, HandlingAgain
<1>20. CursorInv(c)'
  <2>1. Ascending(events, index[c] + 1)' = Ascending(events, index[c] + 1)
      BY <1>1 DEF Ascending
  <2>2. index[c] \in DOMAIN events /\ Ascending(events, index[c] + 1)
      BY <1>2, <1>3, PlacesApart DEF CursorInv
  <2> QED
      BY <2>1, <2>2, <1>1, <1>2, <1>3, <1>10, SameLog DEF CursorInv
<1> QED
    BY <1>2, <1>12, <1>13, <1>15, <1>16, <1>17, <1>19, <1>20, PlacesApart DEF ChainInv

(* ... are stored, and the loop goes on.                                    *)
LEMMA InsertedKeeps ==
    ASSUME OneChain, ListenTypes, ListenTypes', NEW c \in Chains, ChainInv(c), Inserted(c)
    PROVE  ChainInv(c)'
<1>1. /\ UNCHANGED <<log, last, rows, done, currentBlock, upto, txLast, dropped, faults>>
      /\ handled' = handled \cup {cur[c]} /\ refetched' = refetched \cup Range(got[c])
      /\ pc[c] = "inserting" /\ got' = [got EXCEPT ![c] = <<>>]
      /\ tx' = [tx EXCEPT ![c] = [tx[c] EXCEPT ![cur[c][1]] = tx[c][cur[c][1]] \o got[c]]]
      /\ Loop(c, events, NextIndex(c), IF got[c] = <<>> THEN fresh ELSE got[c])
    BY DEF Inserted, tables
<1>2. /\ events \in Seq(Event) /\ fresh \in Seq(Event) /\ got \in [Chains -> Seq(Event)]
      /\ index[c] \in Nat /\ addr[c] \in Nat /\ tx \in [Chains -> [Chains -> Seq(Event)]]
      /\ last[c] \in Int /\ txLast[c] \in Int
    BY BlockNumbers DEF ListenTypes, TypeOK
<1>3. PICK evs, i, new, R, a, N :
          /\ evs = events /\ i = NextIndex(c) /\ new = (IF got[c] = <<>> THEN fresh ELSE got[c])
          /\ R = Pending(c) /\ a = addr[c] /\ N = Range(got[c])
    OBVIOUS
<1>4. /\ i \in Nat /\ i >= 1 /\ i = index[c] + 1 /\ R = Rest(evs, i) /\ evs \in Seq(Event)
      /\ new \in Seq(Event) /\ Loop(c, evs, i, new)
    BY <1>1, <1>2, <1>3 DEF NextIndex, Pending
<1>5. /\ Range(events) \subseteq Blocks(c) /\ Range(fresh) \subseteq Blocks(c) /\ Dealt \subseteq Blocks(c)
      /\ Range(got[c]) \subseteq Blocks(c)
      /\ Range(fresh) \subseteq refetched /\ ChangesIn(Range(fresh)) = {}
      /\ Ascending(events, index[c] + 1) /\ cur[c] \in Blocks(c) /\ Changed(cur[c])
      /\ \A e \in Range(got[c]) : ~Changed(e) /\ cur[c][2] < e[2] /\ e[2] <= currentBlock
      /\ txLast[c] = currentBlock
      /\ HandlingInv(c)
    BY <1>1, PlacesApart DEF ChainInv, BlocksInv, DealtInv, CursorInv, RunInv, Dealt
<1>6. ~Changeless
  <2>1. cur[c] = <<c, cur[c][2]>> /\ cur[c][2] \in DOMAIN log[c]
      BY <1>5, LogIs
  <2> QED
      BY <2>1, <1>5 DEF Changeless
<1>7. /\ Range(tx'[c][c]) = Range(tx[c][c]) \cup N /\ Range(got'[c]) = {}
      /\ N \subseteq Blocks(c) /\ N \subseteq InRange(c, 0, txLast[c]) /\ ChangesIn(N) = {}
  <2>1. cur[c][1] = c /\ cur[c][2] \in Int /\ cur[c][2] >= 1
      BY <1>5, LogIs
  <2>2. tx'[c][c] = tx[c][c] \o got[c] /\ got'[c] = <<>>
      BY <2>1, <1>1, <1>2
  <2>3. Range(tx'[c][c]) = Range(tx[c][c]) \cup Range(got[c])
      BY <2>2, <1>2, JoinedRange
  <2>4. \A e \in Blocks(c) : e[2] \in Int /\ 0 < e[2]
      BY LogIs
  <2>5. N \subseteq InRange(c, 0, txLast[c])
      BY <2>4, <1>3, <1>5, InRangeIs
  <2> QED
      BY <2>2, <2>3, <2>5, <1>3, <1>5, EmptyRange DEF ChangesIn
<1>8. Calm' => Calm
    BY <1>1, SameLog DEF Calm, NoChangeMissed
<1>9. Dealt' = Dealt \cup {cur[c]} \cup N
    BY <1>1, <1>3 DEF Dealt
<1>10. Stored(c)' = Stored(c) \cup N
    BY <1>1, <1>7 DEF Stored
<1>11. R \subseteq Blocks(c)
  <2>1. Range(evs) = {evs[j] : j \in 1..Len(evs)}
      BY <1>4, ListRange
  <2>2. \A j \in i..Len(evs) : j \in 1..Len(evs)
      BY <1>4
  <2> QED
      BY <2>1, <2>2, <1>3, <1>4, <1>5 DEF Rest
<1>12. Ready(c, R, a)'
  <2>1. Range(tx'[c][c]) \subseteq Dealt' \cup R
      BY <1>3, <1>5, <1>7, <1>9 DEF HandlingInv
  <2>2. ChangesIn(R) \subseteq Stored(c)'
      BY <1>3, <1>5, <1>10 DEF HandlingInv, ChangesIn
  <2>3. \A e \in ChangesIn(done' \cup Stored(c)') :
              e \in R \/ (a >= Registered(c, e[2]) /\ \A f \in ChangesIn(R) : e[2] <= f[2])
    <3>1. ChangesIn(done' \cup Stored(c)') = ChangesIn(done \cup Stored(c))
        BY <1>1, <1>7, <1>10 DEF ChangesIn
    <3> QED
        BY <3>1, <1>3, <1>5 DEF HandlingInv
  <2>4. Calm' => a <= Registered(c, txLast'[c])
      BY <1>1, <1>3, <1>5, <1>8 DEF HandlingInv
  <2>5. Calm' => \A e \in InRange(c, last'[c], txLast'[c]) :
              e \in Range(tx'[c][c]) \cup dropped' \/ (~Changed(e) /\ Registered(c, e[2]) > a)
      BY <1>1, <1>3, <1>5, <1>7, <1>8 DEF HandlingInv
  <2> QED
      BY <2>1, <2>2, <2>3, <2>4, <2>5, <1>1, <1>6, <1>11, ReadyAgain
<1>13. /\ UNCHANGED <<log, last, rows, done, currentBlock, txLast>>
       /\ Range(got'[c]) \subseteq Range(got[c]) /\ Dealt' \subseteq Blocks(c) /\ Dealt \subseteq Dealt'
       /\ dropped \subseteq dropped'
       /\ pc[c] \in Handling \cup {"listing"}
    BY <1>1, <1>3, <1>5, <1>7, <1>9, PlacesApart
<1>14. /\ Range(evs) \subseteq Blocks(c) /\ Range(new) \subseteq Blocks(c) /\ Range(new) \subseteq refetched'
       /\ ChangesIn(Range(new)) = {} /\ (Changeless => new = <<>> /\ refetched' = {})
       /\ Ascending(evs, i) /\ a = addr[c]
    BY <1>1, <1>3, <1>4, <1>5, <1>6, <1>7
<1> QED
    BY <1>4, <1>7, <1>8, <1>12, <1>13, <1>14, LoopGoesOn

(* The contract of a stored change is that of every later block, up to the  *)
(* next one.                                                                *)
LEMMA KnownChange ==
    ASSUME ListenTypes, NEW c \in Chains, ChainInv(c), Calm, pc[c] = "committing",
           NEW e \in InRange(c, last[c], txLast[c]), Registered(c, e[2]) >= 1
    PROVE  \E d \in ChangesIn(done \cup Stored(c)) : Registered(c, d[2]) = Registered(c, e[2])
<1>1. e \in Blocks(c) /\ e[2] \in Nat /\ e[2] <= txLast[c] /\ e[2] <= Len(log[c])
    BY InRangeIs, LogIs
<1>2. PICK k \in 1..e[2] : log[c][k] = "changed" /\ Registered(c, k) = Registered(c, e[2])
    BY <1>1, LastChange
<1>3. k \in 1..Len(log[c]) /\ k \in Int /\ k >= 1 /\ k <= txLast[c] /\ last[c] \in Int
    BY <1>1, <1>2, LogIs, BlockNumbers
<1> DEFINE d == <<c, k>>
<1>4. d \in Blocks(c) /\ d[2] = k /\ Changed(d)
    BY <1>2, <1>3, LogIs DEF Changed
<1>5. d \notin dropped
  <2>1. ~Changeless
      BY <1>3, <1>4, LogIs DEF Changeless
  <2> QED
      BY <2>1, <1>4 DEF Calm, NoChangeMissed
<1> HIDE DEF d
<1>6. d \in done \cup Stored(c)
  <2>1. CASE k <= last[c]
    <3>1. d \in ChangesIn(InRange(c, 0, last[c]))
        BY <2>1, <1>3, <1>4, InRangeIs DEF ChangesIn
    <3> QED
        BY <3>1, <1>5 DEF ChainInv, ChangesInv, Stored
  <2>2. CASE last[c] < k
    <3>1. d \in ChangesIn(InRange(c, last[c], txLast[c]))
        BY <2>2, <1>3, <1>4, InRangeIs DEF ChangesIn
    <3> QED
        BY <3>1, <1>5 DEF ChainInv, ChangesInv, Stored
  <2> QED
      BY <2>1, <2>2, <1>3
<1> QED
    BY <1>2, <1>4, <1>6 DEF ChangesIn

LEMMA CommitKeeps ==
    ASSUME OneChain, ListenTypes, ListenTypes', NEW c \in Chains, ChainInv(c), Commit(c)
    PROVE  ChainInv(c)'
<1>1. UNCHANGED <<log, done, handled, addr, currentBlock, events, fresh, upto, got, cur, index,
                  dropped, refetched, faults>>
    BY DEF Commit, memory, history
<1>2. /\ pc[c] = "committing" /\ pc'[c] = "marking" /\ last'[c] = txLast[c] /\ tx'[c][c] = <<>>
      /\ rows'[c] = rows[c] \o tx[c][c] /\ txLast'[c] = 0
  <2>1. /\ pc \in [Chains -> Places] /\ DOMAIN last = Chains /\ DOMAIN txLast = Chains
        /\ tx \in [Chains -> [Chains -> Seq(Event)]]
      BY DEF ListenTypes, TypeOK
  <2> QED
      BY <2>1 DEF Commit, NoRows
<1>3. /\ Range(rows'[c]) = Stored(c) /\ Range(tx'[c][c]) = {}
  <2>1. rows[c] \in Seq(Event) /\ tx[c][c] \in Seq(Event)
      BY DEF ListenTypes, TypeOK
  <2> QED
      BY <2>1, <1>2, JoinedRange, EmptyRange DEF Stored
<1>4. Dealt' = Dealt /\ Calm' = Calm
    BY <1>1, SameLog DEF Dealt, Calm, NoChangeMissed
<1>5. /\ Ready(c, {}, addr[c]) /\ txLast[c] = currentBlock /\ (last[c] <= 0 \/ last[c] <= currentBlock)
      /\ Range(rows[c]) \cup done \subseteq InRange(c, 0, last[c])
      /\ Range(tx[c][c]) \subseteq InRange(c, 0, txLast[c])
      /\ currentBlock <= 0 \/ currentBlock <= Confirmed(c)
      /\ BlocksInv(c) /\ RunInv(c) /\ DealtInv(c) /\ ChangesInv(c) /\ CoverInv(c)
    BY <1>2, PlacesApart DEF ChainInv, BlocksInv, RunInv
<1>n. last[c] \in Int /\ txLast[c] \in Int /\ addr[c] \in Nat /\ currentBlock \in Int
    BY BlockNumbers
<1>6. InRange(c, 0, last[c]) \subseteq InRange(c, 0, txLast[c])
  <2> SUFFICES ASSUME NEW e \in InRange(c, 0, last[c]) PROVE e \in InRange(c, 0, txLast[c])
      OBVIOUS
  <2>1. e \in Blocks(c) /\ e[2] \in Int /\ 0 < e[2] /\ e[2] <= last[c]
      BY InRangeIs, LogIs
  <2>2. e[2] <= txLast[c]
      BY <2>1, <1>5, <1>n
  <2> QED
      BY <2>1, <2>2, InRangeIs
<1>7. \A e \in InRange(c, 0, txLast[c]) : e \in InRange(c, 0, last[c]) \/ e \in InRange(c, last[c], txLast[c])
  <2> TAKE e \in InRange(c, 0, txLast[c])
  <2>1. e \in Blocks(c) /\ e[2] \in Int /\ 0 < e[2] /\ e[2] <= txLast[c]
      BY InRangeIs, LogIs
  <2>2. e[2] <= last[c] \/ last[c] < e[2]
      BY <2>1, <1>n
  <2> QED
      BY <2>1, <2>2, InRangeIs
<1>8. BlocksInv(c)'
  <2>1. Range(rows'[c]) \cup done' \subseteq InRange(c, 0, last'[c])
      BY <1>1, <1>2, <1>3, <1>5, <1>6 DEF Stored
  <2>2. last'[c] <= 0 \/ last'[c] <= Confirmed(c)
      BY <1>2, <1>5
  <2> QED
      BY <2>1, <2>2, <1>1, <1>3, <1>5, SameLog DEF BlocksInv
<1>9. RunInv(c)'
    BY <1>2, PlacesApart DEF RunInv
<1>10. DealtInv(c)'
  <2>1. Range(tx[c][c]) \subseteq Dealt
      BY <1>5 DEF Ready
  <2> QED
      BY <2>1, <1>1, <1>3, <1>4, <1>5, SameLog DEF DealtInv, Stored
<1>11. ChangesInv(c)'
  <2>1. ChangesIn(InRange(c, 0, last'[c])) \subseteq Range(rows'[c]) \cup done \cup dropped
    <3> SUFFICES ASSUME NEW e \in ChangesIn(InRange(c, 0, txLast[c]))
                 PROVE  e \in Stored(c) \cup done \cup dropped
        BY <1>2, <1>3
    <3>1. e \in ChangesIn(InRange(c, 0, last[c])) \/ e \in ChangesIn(InRange(c, last[c], txLast[c]))
        BY <1>7 DEF ChangesIn
    <3>2. ChangesIn(InRange(c, last[c], txLast[c])) \subseteq Range(tx[c][c]) \cup dropped
        BY <1>2, <1>5 DEF ChangesInv
    <3> QED
        BY <3>1, <3>2, <1>5 DEF ChangesInv, Stored
  <2>2. \A d \in ChangesIn(done), e \in ChangesIn(Range(rows'[c])) : d[2] < e[2]
    <3> SUFFICES ASSUME NEW d \in ChangesIn(done), NEW e \in ChangesIn(Range(rows'[c]))
                 PROVE  d[2] < e[2]
        OBVIOUS
    <3>1. e \in ChangesIn(Range(rows[c])) \/ e \in ChangesIn(Range(tx[c][c]))
        BY <1>3 DEF ChangesIn, Stored
    <3>2. d \in Blocks(c) /\ d[2] \in Int /\ d[2] <= last[c]
        BY <1>5, InRangeIs, LogIs DEF ChangesIn
    <3>3. e \in Blocks(c) /\ e[2] \in Int
        BY <1>3, <1>5, InRangeIs, LogIs DEF ChangesIn, Stored
    <3>4. d[2] < e[2] \/ last[c] < e[2]
        BY <3>1, <1>5 DEF ChangesInv
    <3> QED
        BY <3>2, <3>3, <3>4, <1>n
  <2>3. ChangesIn(Range(tx'[c][c])) = {}
      BY <1>3 DEF ChangesIn
  <2>4. \A e \in ChangesIn(done \cup Range(rows'[c])) : addr[c] >= Registered(c, e[2])
      BY <1>3, <1>5 DEF Ready
  <2>5. pc'[c] # "storing" /\ pc'[c] \notin Handling \cup {"listing", "committing"}
      BY <1>2, PlacesApart
  <2> QED
      BY <2>1, <2>2, <2>3, <2>4, <2>5, <1>1, ChangesAgain
<1>12. CoverInv(c)'
  <2>1. Calm => InRange(c, 0, last'[c]) \subseteq Range(rows'[c]) \cup done \cup dropped
    <3> SUFFICES ASSUME Calm, NEW e \in InRange(c, 0, txLast[c])
                 PROVE  e \in Stored(c) \cup done \cup dropped
        BY <1>2, <1>3
    <3>1. CASE e \in InRange(c, 0, last[c])
        BY <3>1, <1>5 DEF CoverInv, Stored
    <3>2. CASE e \in InRange(c, last[c], txLast[c])
      <4> SUFFICES ASSUME ~Changed(e), Registered(c, e[2]) > addr[c] PROVE FALSE
          BY <3>2, <1>5 DEF Ready, Stored
      <4>1. e[2] \in Int /\ Registered(c, e[2]) \in Nat
          BY <3>2, InRangeIs, LogIs, RegisteredIs
      <4>2. PICK d \in ChangesIn(done \cup Stored(c)) : Registered(c, d[2]) = Registered(c, e[2])
        <5>1. Registered(c, e[2]) >= 1
            BY <4>1, <1>n
        <5> QED
            BY <5>1, <3>2, <1>2, KnownChange
      <4>3. addr[c] >= Registered(c, d[2])
          BY <4>2, <1>5 DEF Ready
      <4> QED
          BY <4>1, <4>2, <4>3, <1>n
    <3> QED
        BY <3>1, <3>2, <1>7
  <2>2. Calm => addr[c] <= Registered(c, last'[c])
      BY <1>2, <1>5 DEF Ready
  <2>3. pc'[c] # "storing" /\ pc'[c] # "listing"
      BY <1>2
  <2>4. Changeless => fresh = <<>> /\ refetched = {} /\ addr[c] = 0
      BY <1>5 DEF CoverInv
  <2> QED
      BY <2>1, <2>2, <2>3, <2>4, <1>1, <1>4, CoverAgain
<1> QED
    BY <1>2, <1>8, <1>9, <1>10, <1>11, <1>12, OutsideLoop, PlacesApart DEF ChainInv

LEMMA MarkKeeps ==
    ASSUME OneChain, ListenTypes, NEW c \in Chains, ChainInv(c), Mark(c)
    PROVE  ChainInv(c)'
<1>1. UNCHANGED <<log, last, handled, addr, currentBlock, events, fresh, upto, got, cur, index,
                  tx, txLast, dropped, refetched, faults>>
    BY DEF Mark, memory, transaction, history
<1>2. /\ pc[c] = "marking" /\ pc'[c] = "idle" /\ rows'[c] = <<>> /\ done' = done \cup Range(rows[c])
  <2>1. pc \in [Chains -> Places] /\ rows \in [Chains -> Seq(Event)]
      BY DEF ListenTypes, TypeOK
  <2> QED
      BY <2>1 DEF Mark
<1>3. Range(rows'[c]) = {} /\ done' \cup Range(rows'[c]) = done \cup Range(rows[c])
    BY <1>2, EmptyRange
<1>4. Dealt' = Dealt /\ Calm' = Calm
    BY <1>1, SameLog DEF Dealt, Calm, NoChangeMissed
<1>5. /\ BlocksInv(c) /\ RunInv(c) /\ DealtInv(c) /\ ChangesInv(c) /\ CoverInv(c)
      /\ pc[c] \notin Handling \cup {"committing"} /\ pc'[c] \notin Handling \cup {"listing", "committing"}
      /\ pc'[c] # "storing"
    BY <1>2, PlacesApart DEF ChainInv
<1>6. BlocksInv(c)'
    BY <1>1, <1>3, <1>5, SameLog DEF BlocksInv
<1>7. RunInv(c)'
    BY <1>1, <1>2, <1>5, PlacesApart DEF RunInv
<1>8. DealtInv(c)'
    BY <1>1, <1>3, <1>4, <1>5, SameLog DEF DealtInv
<1>9. ChangesInv(c)'
  <2>1. ChangesIn(Range(rows'[c])) = {}
      BY <1>3 DEF ChangesIn
  <2>2. ChangesIn(InRange(c, 0, last[c])) \subseteq Range(rows'[c]) \cup done' \cup dropped
      BY <1>3, <1>5 DEF ChangesInv
  <2>3. \A e \in ChangesIn(done' \cup Range(rows'[c])) : addr[c] >= Registered(c, e[2])
      BY <1>3, <1>5 DEF ChangesInv
  <2>4. \A e \in ChangesIn(Range(tx[c][c])) : last[c] < e[2]
      BY <1>5 DEF ChangesInv
  <2> QED
      BY <2>1, <2>2, <2>3, <2>4, <1>1, <1>5, ChangesAgain
<1>10. CoverInv(c)'
    BY <1>1, <1>2, <1>3, <1>4, <1>5, CoverAgain DEF CoverInv
<1> QED
    BY <1>2, <1>6, <1>7, <1>8, <1>9, <1>10, OutsideLoop, PlacesApart DEF ChainInv

LEMMA RunFailsKeeps ==
    ASSUME OneChain, ListenTypes, ListenTypes', NEW c \in Chains, ChainInv(c), RunFails(c)
    PROVE  ChainInv(c)'
<1>1. UNCHANGED <<log, last, rows, done, handled, addr, currentBlock, events, fresh, cur, index,
                  dropped, refetched>>
    BY DEF RunFails, tables, memory, history
<1>2. /\ pc[c] \in Fetching \cup {"committing", "marking"} /\ pc'[c] = "queued"
      /\ tx'[c][c] = <<>> /\ got'[c] = <<>>
  <2>1. /\ pc \in [Chains -> Places] /\ got \in [Chains -> Seq(Event)]
        /\ tx \in [Chains -> [Chains -> Seq(Event)]]
      BY DEF ListenTypes, TypeOK
  <2>2. tx' = [tx EXCEPT ![c] = [d \in Chains |-> <<>>]]
      BY DEF RunFails, NoRows
  <2>3. tx'[c] = [d \in Chains |-> <<>>]
      BY <2>1, <2>2
  <2>4. tx'[c][c] = <<>>
      BY <2>3
  <2> QED
      BY <2>1, <2>4 DEF RunFails
<1>3. Range(tx'[c][c]) = {} /\ Range(got'[c]) = {}
    BY <1>2, EmptyRange
<1>4. Dealt' = Dealt
    BY <1>1 DEF Dealt
<1>5. /\ BlocksInv(c) /\ RunInv(c) /\ DealtInv(c) /\ ChangesInv(c) /\ CoverInv(c)
      /\ pc[c] \notin Handling /\ pc'[c] \notin Handling \cup {"listing", "committing"}
      /\ pc'[c] # "storing"
    BY <1>2, PlacesApart DEF ChainInv
<1>6. ~NoChangeMissed'
  <2>1. faults' = faults + 1 /\ faults \in Nat
      BY DEF RunFails, ListenTypes, TypeOK
  <2> QED
      BY <2>1 DEF NoChangeMissed
<1>7. BlocksInv(c)'
    BY <1>1, <1>3, <1>5, SameLog DEF BlocksInv
<1>8. RunInv(c)'
    BY <1>2, PlacesApart DEF RunInv
<1>9. DealtInv(c)'
    BY <1>1, <1>4, <1>5, SameLog DEF DealtInv
<1>10. ChangesInv(c)'
  <2>1. ChangesIn(Range(tx'[c][c])) = {}
      BY <1>3 DEF ChangesIn
  <2> QED
      BY <2>1, <1>1, <1>5, ChangesAgain DEF ChangesInv
<1>11. CoverInv(c)'
  <2>1. Calm' => Changeless
      BY <1>1, <1>6, SameLog DEF Calm
  <2>2. Calm' => Calm
      BY <2>1 DEF Calm
  <2>3. Calm' => addr[c] <= Registered(c, last[c])
    <3>1. Registered(c, last[c]) \in Nat
        BY BlockNumbers, RegisteredIs
    <3> QED
        BY <3>1, <2>1, <1>5 DEF CoverInv
  <2> QED
      BY <2>2, <2>3, <1>1, <1>2, <1>5, CoverAgain DEF CoverInv
<1> QED
    BY <1>2, <1>7, <1>8, <1>9, <1>10, <1>11, OutsideLoop, PlacesApart DEF ChainInv

LEMMA CrashKeeps ==
    ASSUME OneChain, ListenTypes, ListenTypes', NEW c \in Chains, ChainInv(c), Crash
    PROVE  ChainInv(c)'
<1>1. UNCHANGED <<log, last, rows, done, handled, dropped, refetched>>
    BY DEF Crash, tables, history
<1>2. /\ addr'[c] = Registered(c, Len(log[c])) /\ currentBlock' = 0 /\ events' = <<>> /\ fresh' = <<>>
      /\ pc'[c] = (IF pc[c] = "idle" THEN "idle" ELSE "queued")
      /\ tx'[c][c] = <<>> /\ got'[c] = <<>> /\ faults' = faults + 1 /\ faults \in Nat
  <2>1. faults \in Nat
      BY DEF ListenTypes, TypeOK
  <2> QED
      BY <2>1 DEF Crash, NoRows
<1>3. Range(tx'[c][c]) = {} /\ Range(got'[c]) = {} /\ Range(events') = {} /\ Range(fresh') = {}
    BY <1>2, EmptyRange
<1>4. Dealt' = Dealt
    BY <1>1 DEF Dealt
<1>5. BlocksInv(c) /\ DealtInv(c) /\ ChangesInv(c) /\ CoverInv(c)
    BY DEF ChainInv
<1>6. pc'[c] \in {"idle", "queued"} /\ pc'[c] \notin Handling \cup {"listing", "committing"}
      /\ pc'[c] # "storing"
    BY <1>2, PlacesApart
<1>7. Calm' => Changeless /\ Calm
  <2>1. ~NoChangeMissed'
      BY <1>2 DEF NoChangeMissed
  <2> QED
      BY <2>1, <1>1, SameLog DEF Calm
<1>8. /\ Len(log[c]) \in Int /\ Len(log[c]) >= 0 /\ last[c] \in Int
      /\ Registered(c, Len(log[c])) \in Nat /\ Registered(c, last[c]) \in Nat
    BY BlockNumbers, RegisteredIs
<1>9. Changeless => Registered(c, Len(log[c])) = 0
  <2> SUFFICES ASSUME Changeless, Registered(c, Len(log[c])) >= 1 PROVE FALSE
      BY <1>8
  <2>1. PICK k \in 1..Len(log[c]) : log[c][k] = "changed"
      BY <1>8, LastChange
  <2> QED
      BY <2>1, LogIs DEF Changeless, Changed
<1>10. BlocksInv(c)'
    BY <1>1, <1>2, <1>3, <1>5, SameLog DEF BlocksInv
<1>11. RunInv(c)'
    BY <1>2, <1>6, PlacesApart DEF RunInv
<1>12. DealtInv(c)'
  <2>1. ChangesIn(Range(fresh')) = {}
      BY <1>3 DEF ChangesIn
  <2> QED
      BY <2>1, <1>1, <1>3, <1>4, <1>5, SameLog DEF DealtInv
<1>13. ChangesInv(c)'
  <2>1. ChangesIn(Range(tx'[c][c])) = {}
      BY <1>3 DEF ChangesIn
  <2>2. \A e \in ChangesIn(done \cup Range(rows[c])) : addr'[c] >= Registered(c, e[2])
    <3> SUFFICES ASSUME NEW e \in ChangesIn(done \cup Range(rows[c]))
                 PROVE  addr'[c] >= Registered(c, e[2])
        OBVIOUS
    <3>1. e \in Blocks(c) /\ e[2] \in Int /\ e[2] <= Len(log[c])
        BY <1>5, InRangeIs, LogIs DEF BlocksInv, ChangesIn
    <3>2. Registered(c, e[2]) <= Registered(c, Len(log[c])) /\ Registered(c, e[2]) \in Nat
        BY <3>1, <1>8, RegisteredIs
    <3> QED
        BY <3>2, <1>2, <1>8
  <2>3. ChangesIn(InRange(c, 0, last[c])) \subseteq Range(rows[c]) \cup done \cup dropped
        /\ \A d \in ChangesIn(done), e \in ChangesIn(Range(rows[c])) : d[2] < e[2]
      BY <1>5 DEF ChangesInv
  <2> QED
      BY <2>1, <2>2, <2>3, <1>1, <1>6, ChangesAgain
<1>14. CoverInv(c)'
  <2>1. Calm' => addr'[c] <= Registered(c, last[c])
      BY <1>2, <1>7, <1>8, <1>9
  <2>2. Changeless => fresh' = <<>> /\ refetched' = {} /\ addr'[c] = 0
      BY <1>1, <1>2, <1>5, <1>9 DEF CoverInv
  <2>3. pc'[c] # "listing" /\ pc'[c] \notin Handling \cup {"committing"}
      BY <1>6
  <2>4. Calm' => InRange(c, 0, last[c]) \subseteq Range(rows[c]) \cup done \cup dropped
      BY <1>5, <1>7 DEF CoverInv
  <2> QED
      BY <2>1, <2>2, <2>3, <2>4, <1>1, <1>6, CoverAgain
<1> QED
    BY <1>6, <1>10, <1>11, <1>12, <1>13, <1>14, OutsideLoop DEF ChainInv

(* The chain grows: of the blocks that are there nothing changes.           *)
LEMMA LogGrows ==
    ASSUME ListenTypes, NEW c \in Chains, NEW d \in Chains, NEW kind \in Kinds, Emit(d, kind)
    PROVE  /\ \A e \in Blocks(c) : Changed(e)' = Changed(e)
           /\ Blocks(c) \subseteq Blocks(c)'
           /\ \A S \in SUBSET Blocks(c) : ChangesIn(S)' = ChangesIn(S)
           /\ \A b \in Int : b <= Len(log[c]) => Registered(c, b)' = Registered(c, b)
           /\ \A i, j \in Int : /\ InRange(c, i, j) \subseteq InRange(c, i, j)'
                                /\ j <= Len(log[c]) => InRange(c, i, j)' = InRange(c, i, j)
           /\ Confirmed(c) <= Confirmed(c)'
<1>1. /\ log \in [Chains -> Seq(Kinds)] /\ log' = [log EXCEPT ![d] = Append(log[d], kind)]
    BY DEF ListenTypes, TypeOK, Emit
<1>2. /\ log[c] \in Seq(Kinds) /\ log[d] \in Seq(Kinds) /\ Len(log[c]) \in Nat
    BY <1>1
<1>3. /\ Len(log'[c]) \in Nat /\ Len(log[c]) <= Len(log'[c])
      /\ \A k \in 1..Len(log[c]) : log'[c][k] = log[c][k]
  <2>1. CASE c # d
      BY <2>1, <1>1, <1>2
  <2>2. CASE c = d
    <3>1. log'[c] = Append(log[c], kind)
        BY <2>2, <1>1
    <3>2. /\ Append(log[c], kind) \in Seq(Kinds) /\ Len(Append(log[c], kind)) = Len(log[c]) + 1
          /\ \A k \in 1..Len(log[c]) : Append(log[c], kind)[k] = log[c][k]
        BY <1>2, AppendProperties
    <3> QED
        BY <3>1, <3>2, <1>2
  <2> QED
      BY <2>1, <2>2
<1>4. \A e \in Blocks(c) : e[1] = c /\ e[2] \in 1..Len(log[c]) /\ e = <<c, e[2]>>
    BY LogIs
<1>5. \A e \in Blocks(c) : Changed(e)' = Changed(e)
    BY <1>3, <1>4 DEF Changed
<1>6. Blocks(c) \subseteq Blocks(c)'
    BY <1>2, <1>3 DEF Blocks
<1>7. \A S \in SUBSET Blocks(c) : ChangesIn(S)' = ChangesIn(S)
    BY <1>5 DEF ChangesIn
<1>8. ASSUME NEW b \in Int, b <= Len(log[c]) PROVE Registered(c, b)' = Registered(c, b)
  <2>1. \A k \in 1..b : k \in 1..Len(log[c])
      BY <1>8, <1>2
  <2>2. {k \in 1..b : log'[c][k] = "changed"} = {k \in 1..b : log[c][k] = "changed"}
      BY <2>1, <1>3
  <2> QED
      BY <2>2 DEF Registered
<1>9. \A i, j : InRange(c, i, j) = {e \in Blocks(c) : i < e[2] /\ e[2] <= j}
                /\ InRange(c, i, j)' = {e \in Blocks(c)' : i < e[2] /\ e[2] <= j}
    BY DEF InRange, Blocks
<1>10. ASSUME NEW i \in Int, NEW j \in Int, j <= Len(log[c]) PROVE InRange(c, i, j)' \subseteq InRange(c, i, j)
  <2> SUFFICES ASSUME NEW e \in InRange(c, i, j)' PROVE e \in InRange(c, i, j)
      OBVIOUS
  <2>1. e \in {c} \X (1..Len(log'[c])) /\ i < e[2] /\ e[2] <= j
      BY DEF InRange
  <2>2. e \in {c} \X (1..Len(log[c]))
      BY <2>1, <1>2, <1>3, <1>10
  <2> QED
      BY <2>1, <2>2, <1>9 DEF Blocks
<1>11. Confirmed(c) <= Confirmed(c)'
    BY <1>2, <1>3, ListenerAssumption DEF Confirmed
<1>12. \A i, j \in Int : InRange(c, i, j) \subseteq InRange(c, i, j)'
    BY <1>6, <1>9
<1>13. \A i, j \in Int : j <= Len(log[c]) => InRange(c, i, j)' = InRange(c, i, j)
  <2> SUFFICES ASSUME NEW i \in Int, NEW j \in Int, j <= Len(log[c])
               PROVE  InRange(c, i, j)' = InRange(c, i, j)
      OBVIOUS
  <2>1. InRange(c, i, j)' \subseteq InRange(c, i, j)
      BY <1>10
  <2>2. InRange(c, i, j) \subseteq InRange(c, i, j)'
      BY <1>12
  <2> QED
      BY <2>1, <2>2
<1>14. \A b \in Int : b <= Len(log[c]) => Registered(c, b)' = Registered(c, b)
    BY <1>8
<1> QED
    BY <1>5, <1>6, <1>7, <1>11, <1>12, <1>13, <1>14

LEMMA EmitKeeps ==
    ASSUME ListenTypes, NEW c \in Chains, ChainInv(c),
           NEW d \in Chains, NEW kind \in Kinds, Emit(d, kind)
    PROVE  ChainInv(c)'
<1>1. UNCHANGED <<last, rows, done, handled, addr, currentBlock, events, fresh, pc, upto, got, cur,
                  index, tx, txLast, dropped, refetched, faults>>
    BY DEF Emit, tables, memory, transaction, history
<1>2. /\ \A e \in Blocks(c) : Changed(e)' = Changed(e)
      /\ Blocks(c) \subseteq Blocks(c)'
      /\ \A S \in SUBSET Blocks(c) : ChangesIn(S)' = ChangesIn(S)
      /\ \A b \in Int : b <= Len(log[c]) => Registered(c, b)' = Registered(c, b)
      /\ \A i, j \in Int : InRange(c, i, j) \subseteq InRange(c, i, j)'
      /\ \A i, j \in Int : j <= Len(log[c]) => InRange(c, i, j)' = InRange(c, i, j)
      /\ Confirmed(c) <= Confirmed(c)'
    BY LogGrows
<1>3. /\ BlocksInv(c) /\ RunInv(c) /\ DealtInv(c) /\ ChangesInv(c) /\ CoverInv(c) /\ CursorInv(c)
      /\ (pc[c] \in Handling => HandlingInv(c))
      /\ (pc[c] = "committing" => Ready(c, {}, addr[c]))
    BY DEF ChainInv
<1>4. /\ Range(rows[c]) \cup done \subseteq Blocks(c) /\ Range(tx[c][c]) \subseteq Blocks(c)
      /\ Range(events) \cup Range(fresh) \cup Range(got[c]) \subseteq Blocks(c)
      /\ Dealt \subseteq Blocks(c) /\ dropped \subseteq Blocks(c)
    BY <1>3, InRangeIs DEF BlocksInv, Dealt
<1>5. Changeless' => Changeless
  <2> SUFFICES ASSUME Changeless', NEW x \in Chains, NEW b \in DOMAIN log[x], Changed(<<x, b>>)
               PROVE  FALSE
      BY DEF Changeless
  <2>1. Changed(<<x, b>>)' = Changed(<<x, b>>) /\ <<x, b>> \in Blocks(x)'
    <3>1. <<x, b>> \in Blocks(x)
        BY LogIs
    <3>2. /\ \A e \in Blocks(x) : Changed(e)' = Changed(e)
          /\ Blocks(x) \subseteq Blocks(x)'
        BY LogGrows
    <3> QED
        BY <3>1, <3>2
  <2>2. b \in DOMAIN log'[x]
    <3>1. ListenTypes'
        BY EmitTypes
    <3>2. DOMAIN log'[x] = 1..Len(log'[x])
        BY <3>1 DEF ListenTypes, TypeOK
    <3>3. b \in 1..Len(log'[x])
        BY <2>1 DEF Blocks
    <3> QED
        BY <3>2, <3>3
  <2> QED
      BY <2>1, <2>2 DEF Changeless
<1>6. Calm' => Calm
  <2>1. NoChangeMissed' => NoChangeMissed
      BY <1>1, <1>2, <1>4 DEF NoChangeMissed
  <2> QED
      BY <2>1, <1>5 DEF Calm
<1>7. /\ last[c] \in Int /\ last[c] <= Len(log[c])
      /\ currentBlock \in Int /\ currentBlock <= Len(log[c])
      /\ txLast[c] \in Int /\ upto[c] \in Int /\ 0 \in Int
      /\ pc[c] \in {"fetching", "storing"} => upto[c] <= Len(log[c])
      /\ pc[c] \in Handling \cup {"listing", "committing"} => txLast[c] <= Len(log[c])
  <2>1. /\ last[c] \in Int /\ currentBlock \in Int /\ txLast[c] \in Int /\ upto[c] \in Int
        /\ Confirmed(c) \in Int /\ Confirmed(c) <= Len(log[c]) /\ Len(log[c]) \in Nat
      BY BlockNumbers
  <2>2. /\ last[c] <= 0 \/ last[c] <= Confirmed(c)
        /\ currentBlock <= 0 \/ currentBlock <= Confirmed(c)
      BY <1>3 DEF BlocksInv
  <2>3. last[c] <= Len(log[c]) /\ currentBlock <= Len(log[c])
      BY <2>1, <2>2
  <2> QED
      BY <2>1, <2>3, <1>3 DEF RunInv
<1>8. /\ ChangesIn(done \cup Range(rows[c]))' = ChangesIn(done \cup Range(rows[c]))
      /\ ChangesIn(done \cup Stored(c))' = ChangesIn(done \cup Stored(c))
      /\ ChangesIn(done)' = ChangesIn(done)
      /\ ChangesIn(Range(rows[c]))' = ChangesIn(Range(rows[c]))
      /\ ChangesIn(Range(tx[c][c]))' = ChangesIn(Range(tx[c][c]))
      /\ ChangesIn(Range(fresh))' = ChangesIn(Range(fresh))
      /\ ChangesIn({})' = ChangesIn({})
  <2>1. done \cup Stored(c) \subseteq Blocks(c)
      BY <1>4 DEF Stored
  <2>2. (done \cup Stored(c))' = done \cup Stored(c)
      BY <1>1 DEF Stored
  <2> HIDE DEF Stored
  <2> QED
      BY <1>1, <1>2, <1>4, <2>1, <2>2
<1>9. \A e \in Blocks(c) : /\ e[2] \in Int /\ e[2] <= Len(log[c])
                           /\ Registered(c, e[2])' = Registered(c, e[2]) /\ Changed(e)' = Changed(e)
  <2>1. \A e \in Blocks(c) : e[2] \in 1..Len(log[c]) /\ Len(log[c]) \in Nat
      BY LogIs
  <2>2. \A e \in Blocks(c) : e[2] \in Int /\ e[2] <= Len(log[c])
      BY <2>1
  <2> QED
      BY <2>2, <1>2
<1>10. \A i, j : InRange(c, i, j) \subseteq Blocks(c)
    BY InRangeIs
<1>11. BlocksInv(c)'
  <2>1. /\ Range(rows[c]) \cup done \subseteq InRange(c, 0, last[c])'
        /\ Range(tx[c][c]) \subseteq InRange(c, 0, txLast[c])'
      BY <1>1, <1>2, <1>3, <1>7 DEF BlocksInv
  <2>2. (last[c] <= 0 \/ last[c] <= Confirmed(c)') /\ (currentBlock <= 0 \/ currentBlock <= Confirmed(c)')
    <3>1. Confirmed(c)' \in Int /\ Confirmed(c) \in Int
      <4>1. ListenTypes'
          BY EmitTypes
      <4>2. log'[c] \in Seq(Kinds) /\ log[c] \in Seq(Kinds)
          BY <4>1 DEF ListenTypes, TypeOK
      <4> QED
          BY <4>2, ListenerAssumption DEF Confirmed
    <3> QED
        BY <3>1, <1>2, <1>3, <1>7 DEF BlocksInv
  <2> QED
      BY <2>1, <2>2, <1>1, <1>2, <1>4 DEF BlocksInv, Dealt
<1>12. RunInv(c)'
    BY <1>1, <1>3 DEF RunInv
<1>13. DealtInv(c)'
    BY <1>1, <1>3, <1>8 DEF DealtInv, Dealt
<1>14. ChangesInv(c)'
  <2>1. ChangesIn(InRange(c, 0, last[c]))' = ChangesIn(InRange(c, 0, last[c]))
      BY <1>1, <1>2, <1>7, <1>10
  <2>2. pc[c] = "storing" =>
            ChangesIn(InRange(c, last[c], upto[c]))' = ChangesIn(InRange(c, last[c], upto[c]))
      BY <1>1, <1>2, <1>7, <1>10
  <2>3. pc[c] \in Handling \cup {"listing", "committing"} =>
            ChangesIn(InRange(c, last[c], txLast[c]))' = ChangesIn(InRange(c, last[c], txLast[c]))
      BY <1>1, <1>2, <1>7, <1>10
  <2>4. \A e \in ChangesIn(done \cup Range(rows[c])) : Registered(c, e[2])' = Registered(c, e[2])
      BY <1>4, <1>9 DEF ChangesIn
  <2> QED
      BY <2>1, <2>2, <2>3, <2>4, <1>1, <1>3, <1>8 DEF ChangesInv
<1>15. CoverInv(c)'
  <2>1. InRange(c, 0, last[c])' = InRange(c, 0, last[c])
        /\ Registered(c, last[c])' = Registered(c, last[c])
      BY <1>1, <1>2, <1>7
  <2>2. pc[c] = "storing" => InRange(c, last[c], upto[c])' = InRange(c, last[c], upto[c])
      BY <1>1, <1>2, <1>7
  <2>3. pc[c] = "listing" => InRange(c, last[c], txLast[c])' = InRange(c, last[c], txLast[c])
      BY <1>1, <1>2, <1>7
  <2>4. \A i, j : \A e \in InRange(c, i, j) :
            Registered(c, e[2])' = Registered(c, e[2]) /\ Changed(e)' = Changed(e)
      BY <1>9, <1>10
  <2> QED
      BY <2>1, <2>2, <2>3, <2>4, <1>1, <1>3, <1>5, <1>6 DEF CoverInv
<1>16. CursorInv(c)'
  <2>1. Ascending(events, index[c] + 1)' = Ascending(events, index[c] + 1)
      BY <1>1 DEF Ascending
  <2>2. pc[c] \in Handling => /\ cur[c] \in Blocks(c) /\ cur[c] \in Blocks(c)'
                              /\ Changed(cur[c])' = Changed(cur[c])
                              /\ Registered(c, cur[c][2])' = Registered(c, cur[c][2])
      BY <1>1, <1>2, <1>3, <1>9 DEF CursorInv
  <2>3. \A e \in Range(got[c]) : Changed(e)' = Changed(e)
      BY <1>4, <1>9
  <2>4. pc[c] \in {"replacing", "inserting"} => pc[c] \in Handling
      BY DEF Handling
  <2> QED
      BY <2>1, <2>2, <2>3, <2>4, <1>1, <1>3 DEF CursorInv
<1>17. \A S \in SUBSET Blocks(c) : \A e \in ChangesIn(S) : e \in Blocks(c)
    BY DEF ChangesIn
<1>18. Dealt' = Dealt /\ Stored(c)' = Stored(c) /\ Pending(c)' = Pending(c)
    BY <1>1 DEF Dealt, Stored, Pending, Rest
<1>19. done \cup Stored(c) \subseteq Blocks(c)
    BY <1>4 DEF Stored
<1>20. ASSUME pc[c] \in Handling \cup {"committing"}
       PROVE  /\ InRange(c, last[c], txLast[c])' = InRange(c, last[c], txLast[c])
              /\ Registered(c, txLast[c])' = Registered(c, txLast[c])
    BY <1>1, <1>2, <1>7, <1>20
<1>21. \A e \in ChangesIn(done \cup Stored(c)) : Registered(c, e[2])' = Registered(c, e[2])
    BY <1>9, <1>17, <1>19
<1>22. \A i, j : \A e \in InRange(c, i, j) :
            Registered(c, e[2])' = Registered(c, e[2]) /\ Changed(e)' = Changed(e)
    BY <1>9, <1>10
<1>23. pc[c] \in Handling => HandlingInv(c)'
  <2> SUFFICES ASSUME pc[c] \in Handling PROVE HandlingInv(c)'
      OBVIOUS
  <2>1. HandlingInv(c) /\ cur[c] \in Blocks(c)
      BY <1>3 DEF CursorInv
  <2>2. Pending(c) \subseteq Blocks(c)
    <3>1. index[c] \in DOMAIN events /\ events \in Seq(Event)
        BY <1>3 DEF CursorInv, ListenTypes, TypeOK
    <3>2. Range(events) = {events[j] : j \in 1..Len(events)} /\ Len(events) \in Nat
        BY <3>1, ListRange
    <3>3. index[c] \in 1..Len(events)
        BY <3>1
    <3>4. \A j \in (index[c] + 1)..Len(events) : j \in 1..Len(events)
        BY <3>2, <3>3
    <3> QED
        BY <3>2, <3>4, <1>4 DEF Pending, Rest
  <2>3. /\ ChangesIn(Pending(c) \cup {cur[c]})' = ChangesIn(Pending(c) \cup {cur[c]})
        /\ ChangesIn(Pending(c))' = ChangesIn(Pending(c))
      BY <2>1, <2>2, <1>1, <1>2, <1>18
  <2>4. Range(tx[c][c]) \subseteq Dealt \cup Pending(c) \cup {cur[c]}
      BY <2>1 DEF HandlingInv
  <2>5. ChangesIn(Pending(c) \cup {cur[c]})' \subseteq Stored(c)
      BY <2>1, <2>3 DEF HandlingInv
  <2>6. \A e \in ChangesIn(done \cup Stored(c))' :
          \/ e \in Pending(c)
          \/ addr[c] >= Registered(c, e[2])' /\ \A f \in ChangesIn(Pending(c))' : e[2] <= f[2]
      BY <2>1, <2>3, <1>1, <1>8, <1>21 DEF HandlingInv
  <2>7. Calm' =>
          /\ addr[c] <= Registered(c, txLast[c])'
          /\ \A e \in InRange(c, last[c], txLast[c])' :
                \/ e \in Range(tx[c][c]) \cup dropped
                \/ ~Changed(e)' /\ Registered(c, e[2])' > addr[c]
                \/ /\ pc[c] = "replacing" /\ ~Changed(e)' /\ cur[c][2] < e[2]
                   /\ Registered(c, e[2])' = addr[c]
                \/ pc[c] = "inserting" /\ e \in Range(got[c])
      BY <2>1, <1>1, <1>6, <1>20, <1>22 DEF HandlingInv
  <2>8. Changeless' => /\ Pending(c) \cup {cur[c]} \subseteq Stored(c)
                       /\ \A f \in Pending(c) : cur[c][2] <= f[2]
      BY <2>1, <1>5 DEF HandlingInv
  <2> QED
      BY <2>4, <2>5, <2>6, <2>7, <2>8, <1>1, <1>18 DEF HandlingInv
<1>24. pc[c] = "committing" => Ready(c, {}, addr[c])'
  <2> SUFFICES ASSUME pc[c] = "committing" PROVE Ready(c, {}, addr[c])'
      OBVIOUS
  <2>1. Ready(c, {}, addr[c])
      BY <1>3
  <2>2. ChangesIn({})' = {} /\ ChangesIn({}) = {}
      BY DEF ChangesIn
  <2>3. \A e \in ChangesIn(done \cup Stored(c))' : addr[c] >= Registered(c, e[2])'
      BY <2>1, <1>1, <1>8, <1>21 DEF Ready
  <2>4. Calm' =>
          /\ addr[c] <= Registered(c, txLast[c])'
          /\ \A e \in InRange(c, last[c], txLast[c])' :
                e \in Range(tx[c][c]) \cup dropped \/ (~Changed(e)' /\ Registered(c, e[2])' > addr[c])
      BY <2>1, <1>1, <1>6, <1>20, <1>22 DEF Ready
  <2>5. Range(tx[c][c]) \subseteq Dealt
      BY <2>1 DEF Ready
  <2> QED
      BY <2>2, <2>3, <2>4, <2>5, <1>1, <1>18 DEF Ready
<1> QED
    BY <1>1, <1>11, <1>12, <1>13, <1>14, <1>15, <1>16, <1>23, <1>24 DEF ChainInv

LEMMA ListenerStep == OneChain /\ ListenerIInv /\ [Next]_vars => ListenerIInv'
<1> SUFFICES ASSUME OneChain, ListenTypes, \A c \in Chains : ChainInv(c), [Next]_vars
             PROVE  ListenerIInv'
    BY DEF ListenerIInv
<1>1. ListenTypes'
    BY ListenTypesStep
<1>2. SUFFICES ASSUME NEW c \in Chains PROVE ChainInv(c)'
    BY <1>1 DEF ListenerIInv
<1>3. ChainInv(c) /\ \A d \in Chains : d = c
    BY DEF OneChain
<1>4. CASE Crash
    BY <1>1, <1>3, <1>4, CrashKeeps
<1>5. CASE \E d \in Chains, kind \in Kinds : Emit(d, kind)
    BY <1>3, <1>5, EmitKeeps
<1>6. CASE Step(c)
  <2>1. CASE Tick(c) \/ GetBlock(c) \/ ReadLast(c)
      BY <2>1, <1>3, ReadKeeps
  <2>2. CASE Fetch(c)
      BY <2>2, <1>1, <1>3, FetchKeeps
  <2>3. CASE Store(c)
      BY <2>3, <1>3, StoreKeeps
  <2>4. CASE List(c)
      BY <2>4, <1>1, <1>3, ListKeeps
  <2>5. CASE Handled(c)
      BY <2>5, <1>1, <1>3, HandledKeeps
  <2>6. CASE Refetch(c)
      BY <2>6, <1>1, <1>3, RefetchKeeps
  <2>7. CASE Inserted(c)
      BY <2>7, <1>1, <1>3, InsertedKeeps
  <2>8. CASE Commit(c)
      BY <2>8, <1>1, <1>3, CommitKeeps
  <2>9. CASE Mark(c)
      BY <2>9, <1>3, MarkKeeps
  <2> QED
      BY <1>6, <2>1, <2>2, <2>3, <2>4, <2>5, <2>6, <2>7, <2>8, <2>9 DEF Step
<1>7. CASE HandlerFails(c)
    BY <1>1, <1>3, <1>7, HandledKeeps
<1>8. CASE RunFails(c)
    BY <1>1, <1>3, <1>8, RunFailsKeeps
<1>9. CASE UNCHANGED vars
  <2>1. UNCHANGED <<log, last, rows, done, handled, addr, currentBlock, events, fresh, pc, upto,
                    got, cur, index, tx, txLast, dropped, refetched, faults>>
      BY <1>9 DEF vars
  <2>2. /\ Dealt' = Dealt /\ Stored(c)' = Stored(c) /\ Pending(c)' = Pending(c)
        /\ Ascending(events, index[c] + 1)' = Ascending(events, index[c] + 1)
      BY <2>1 DEF Dealt, Stored, Pending, Rest, Ascending
  <2>3. Calm' = Calm
      BY <2>1, SameLog DEF Calm, NoChangeMissed
  <2>4. BlocksInv(c)' /\ RunInv(c)' /\ CursorInv(c)' /\ DealtInv(c)'
    <3>1. BlocksInv(c)'
        BY <1>3, <2>1, SameLog DEF ChainInv, BlocksInv
    <3>2. RunInv(c)'
        BY <1>3, <2>1 DEF ChainInv, RunInv
    <3>3. CursorInv(c)'
        BY <1>3, <2>1, <2>2, SameLog DEF ChainInv, CursorInv
    <3>4. DealtInv(c)'
        BY <1>3, <2>1, <2>2, SameLog DEF ChainInv, DealtInv
    <3> QED
        BY <3>1, <3>2, <3>3, <3>4
  <2>5. ChangesInv(c)'
      BY <1>3, <2>1, <2>2, SameLog DEF ChainInv, ChangesInv
  <2>6. CoverInv(c)'
      BY <1>3, <2>1, <2>2, <2>3, SameLog DEF ChainInv, CoverInv
  <2>7. pc'[c] \in Handling => HandlingInv(c)'
      BY <1>3, <2>1, <2>2, <2>3, SameLog DEF ChainInv, HandlingInv
  <2>8. pc'[c] = "committing" => Ready(c, {}, addr[c])'
      BY <1>3, <2>1, <2>2, <2>3, SameLog DEF ChainInv, Ready
  <2> QED
      BY <2>1, <2>4, <2>5, <2>6, <2>7, <2>8 DEF ChainInv
<1> QED
    BY <1>3, <1>4, <1>5, <1>6, <1>7, <1>8, <1>9 DEF Next

(* An event is marked only when it was handled or lost, the table has every *)
(* event up to the last checked block, and the address follows the contract.*)
LEMMA ListenerIInvGivesInv == OneChain /\ ListenerIInv => ListenerInv
<1> SUFFICES ASSUME OneChain, ListenTypes, \A c \in Chains : ChainInv(c) PROVE ListenerInv
    BY DEF ListenerIInv
<1>1. MarkedWasHandled
  <2> SUFFICES ASSUME NEW e \in done PROVE e \in Dealt
      BY DEF MarkedWasHandled, Dealt
  <2>1. e \in Event
      BY DEF ListenTypes, TypeOK
  <2>2. PICK c \in Chains : c = e[1]
      BY <2>1 DEF Event
  <2> QED
      BY <2>2 DEF ChainInv, DealtInv
<1>2. NothingSkipped
    BY DEF ChainInv, CoverInv, Calm, NothingSkipped
<1>3. AddressFollows
  <2> SUFFICES ASSUME NEW c \in Chains, pc[c] = "idle",
                      NEW e \in InRange(c, 0, last[c]) \ dropped, Changed(e)
               PROVE  addr[c] >= Registered(c, e[2])
      BY DEF AddressFollows
  <2>1. ChangesInv(c)
      BY DEF ChainInv
  <2>2. e \in ChangesIn(InRange(c, 0, last[c]))
      BY DEF ChangesIn
  <2>3. e \in ChangesIn(done \cup Range(rows[c]))
      BY <2>1, <2>2 DEF ChangesInv, ChangesIn
  <2>4. pc[c] \notin Handling
      BY PlacesApart
  <2> QED
      BY <2>1, <2>3, <2>4 DEF ChangesInv
<1> QED
    BY <1>1, <1>2, <1>3 DEF ListenerInv

(* With one chain no event is lost between the chain, the table and the     *)
(* handlers, through rollbacks and crashes, and the listener follows the    *)
(* contract; excepted are the events that a request did not return, whose   *)
(* handler threw, or that the failed handling of a change did not fetch.    *)
THEOREM ListenerCorrect == ASSUME OneChain PROVE Spec => []ListenerInv
<1>1. Init => ListenerIInv
    BY ListenTypesInit, ListenerInit DEF ListenerIInv
<1>2. ListenerIInv /\ [Next]_vars => ListenerIInv'
    BY ListenerStep
<1>3. ListenerIInv => ListenerInv
    BY ListenerIInvGivesInv
<1> QED
    BY <1>1, <1>2, <1>3, PTL DEF Spec

(* While no contract changed every contract has the number 0.               *)
LEMMA NoChangeYet ==
    ASSUME ListenTypes, Changeless, NEW c \in Chains, NEW e \in Blocks(c)
    PROVE  ~Changed(e) /\ Registered(c, e[2]) = 0
<1>1. e = <<c, e[2]>> /\ e[2] \in 1..Len(log[c]) /\ DOMAIN log[c] = 1..Len(log[c]) /\ Len(log[c]) \in Nat
    BY LogIs
<1>2. \A k \in 1..Len(log[c]) : log[c][k] # "changed"
    BY <1>1 DEF Changeless, Changed
<1>3. Registered(c, e[2]) \in Nat /\ e[2] \in Nat
    BY <1>1, RegisteredIs
<1>4. ~(Registered(c, e[2]) >= 1)
  <2> SUFFICES ASSUME Registered(c, e[2]) >= 1 PROVE FALSE
      OBVIOUS
  <2>1. PICK k \in 1..e[2] : log[c][k] = "changed"
      BY <1>3, LastChange
  <2> QED
      BY <2>1, <1>1, <1>2
<1> QED
    BY <1>1, <1>2, <1>3, <1>4 DEF Changed

LEMMA EarlierHandled ==
    ASSUME OneChain, ListenTypes, NEW c \in Chains, ChainInv(c), Changeless,
           pc[c] \in {"adding", "passing"}, NEW f \in InRange(c, 0, cur[c][2])
    PROVE  f \in handled \cup dropped \cup {cur[c]}
<1>1. pc[c] \in Handling /\ pc[c] # "replacing" /\ pc[c] # "inserting"
    BY DEF Handling
<1>2. HandlingInv(c) /\ CursorInv(c) /\ BlocksInv(c) /\ DealtInv(c) /\ CoverInv(c) /\ Calm
    BY <1>1 DEF ChainInv, Calm
<1>3. refetched = {} /\ addr[c] = 0
    BY <1>2 DEF CoverInv
<1>4. /\ cur[c] \in Stored(c) /\ cur[c] \in Blocks(c) /\ \A e \in Pending(c) : cur[c][2] <= e[2]
    BY <1>1, <1>2 DEF HandlingInv, CursorInv
<1>5. /\ f \in Blocks(c) /\ 0 < f[2] /\ f[2] <= cur[c][2] /\ f[2] \in Int /\ cur[c][2] \in Int
      /\ f = <<c, f[2]>> /\ cur[c] = <<c, cur[c][2]>>
      /\ last[c] \in Int /\ txLast[c] \in Int
    BY <1>4, InRangeIs, LogIs, BlockNumbers
<1>6. CASE f[2] <= last[c]
  <2>1. f \in InRange(c, 0, last[c])
      BY <1>5, <1>6, InRangeIs
  <2>2. f \in Range(rows[c]) \cup done \cup dropped
      BY <2>1, <1>2 DEF CoverInv
  <2> QED
      BY <2>2, <1>2, <1>3 DEF DealtInv, Dealt
<1>7. CASE last[c] < f[2]
  <2>1. f[2] <= txLast[c]
    <3>1. cur[c] \in InRange(c, 0, last[c]) \/ cur[c] \in InRange(c, 0, txLast[c])
        BY <1>2, <1>4 DEF BlocksInv, Stored
    <3>2. cur[c][2] <= last[c] \/ cur[c][2] <= txLast[c]
        BY <3>1, <1>4, InRangeIs
    <3> QED
        BY <3>2, <1>5, <1>7
  <2>2. f \in InRange(c, last[c], txLast[c])
      BY <2>1, <1>5, <1>7, InRangeIs
  <2>3. Registered(c, f[2]) = 0
      BY <1>5, NoChangeYet
  <2>4. f \in Range(tx[c][c]) \cup dropped
      BY <2>2, <2>3, <1>1, <1>2, <1>3 DEF HandlingInv
  <2>5. f \in dropped \/ f \in Dealt \cup Pending(c) \cup {cur[c]}
      BY <2>4, <1>2 DEF HandlingInv
  <2>6. f \in Pending(c) => f = cur[c]
    <3>1. f \in Pending(c) => cur[c][2] <= f[2]
        BY <1>4
    <3>2. f \in Pending(c) => cur[c][2] = f[2]
        BY <3>1, <1>5
    <3> QED
        BY <3>2, <1>5
  <2> QED
      BY <2>5, <2>6, <1>3 DEF Dealt
<1> QED
    BY <1>5, <1>6, <1>7

LEMMA OrderStep ==
    ASSUME OneChain, ListenerIInv, [Next]_vars, Changeless', NEW e \in handled' \ handled
    PROVE  InRange(e[1], 0, e[2]) \subseteq handled' \cup dropped'
<1>1. PICK c \in Chains : Handled(c) \/ Inserted(c)
  <2>1. ~UNCHANGED handled
      OBVIOUS
  <2>2. ~UNCHANGED vars /\ ~Crash
      BY <2>1 DEF vars, Crash
  <2>3. \A c \in Chains : /\ \A kind \in Kinds : ~Emit(c, kind)
                          /\ ~HandlerFails(c) /\ ~RunFails(c)
      BY <2>1 DEF Emit, HandlerFails, RunFails
  <2>4. \A c \in Chains : ~Tick(c) /\ ~GetBlock(c) /\ ~ReadLast(c) /\ ~Fetch(c) /\ ~Store(c)
                          /\ ~List(c) /\ ~Refetch(c) /\ ~Commit(c) /\ ~Mark(c)
      BY <2>1 DEF Tick, GetBlock, ReadLast, Fetch, Store, List, Refetch, Commit, Mark
  <2> QED
      BY <2>2, <2>3, <2>4 DEF Next, Step
<1>2. /\ log' = log /\ e = cur[c] /\ handled' = handled \cup {cur[c]} /\ dropped' = dropped
    BY <1>1 DEF Handled, Inserted, history
<1>3. ListenTypes /\ ChainInv(c) /\ Changeless
    BY <1>2, SameLog DEF ListenerIInv
<1>4. pc[c] \in Handling /\ CursorInv(c)
    BY <1>1, <1>3 DEF Handled, Inserted, Handling, ChainInv
<1>5. cur[c] \in Blocks(c) /\ (pc[c] = "adding" <=> ~Changed(cur[c]))
    BY <1>4 DEF CursorInv
<1>6. pc[c] = "adding" /\ e[1] = c
    BY <1>2, <1>3, <1>5, NoChangeYet, LogIs
<1>7. \A f \in InRange(c, 0, cur[c][2]) : f \in handled \cup dropped \cup {cur[c]}
    BY <1>3, <1>6, EarlierHandled
<1> QED
    BY <1>2, <1>6, <1>7

(* With one chain whose contract never changes, the first time an event is  *)
(* handled all earlier events of the chain have been, or were lost.         *)
THEOREM ListenerInOrder == ASSUME OneChain PROVE Spec => HandledInOrder
<1>1. Init => ListenerIInv
    BY ListenTypesInit, ListenerInit DEF ListenerIInv
<1>2. ListenerIInv /\ [Next]_vars => ListenerIInv'
    BY ListenerStep
<1>3. ListenerIInv /\ [Next]_vars =>
        [Changeless' => \A e \in handled' \ handled :
             InRange(e[1], 0, e[2]) \subseteq handled' \cup dropped']_vars
    BY OrderStep
<1> QED
    BY <1>1, <1>2, <1>3, PTL DEF Spec, HandledInOrder
===============================================================================
