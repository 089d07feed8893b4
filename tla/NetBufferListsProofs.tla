------------------------ MODULE NetBufferListsProofs ------------------------
(***************************************************************************)
(* The walk over a chain of NBLs frees those of the driver and gives back  *)
(* the others, for any chains and any number of handlers at work at the    *)
(* same time.                                                              *)
(***************************************************************************)
EXTENDS NetBufferLists, FiniteSetTheorems, WellFoundedInduction, TLAPS

-----------------------------------------------------------------------------
(* The inductive invariant.                                                *)

\* Following links one comes nearer to the end of a chain.
Acyclic ==
  \E distance \in [Nbls -> Nat] :
    \A n \in Nbls : next[n] # NULL => distance[next[n]] < distance[n]

\* What is at a place of the chain c, and behind it.
At(c, k) == IF k \in DOMAIN c THEN c[k] ELSE NULL

\* The place of c that a walk with CurrentNBL n has come to.
PlaceIn(c, n) == CHOOSE k \in 1..Len(c)+1 : n = At(c, k)

Place(h) == PlaceIn(chain[h], current[h])

\* The places of c that are linked when the walk is at k, and which is next.
Kept(c, k) == {i \in DOMAIN c : i >= k \/ c[i] \in Others}

Follows(c, k, i, j) ==
  /\ j \in Kept(c, k) \cup {Len(c) + 1}
  /\ i < j
  /\ \A l \in Kept(c, k) : l <= i \/ j <= l

LinksTo(c, k, i, n) == \E j \in 1..Len(c)+1 : Follows(c, k, i, j) /\ n = At(c, j)

IsChain(c) ==
  /\ c \in Seq(Nbls)
  /\ \A i, j \in DOMAIN c : c[i] = c[j] => i = j

ChainInv(h) ==
  /\ IsChain(chain[h])
  /\ handler[h] = Nic => ToSet(chain[h]) \subseteq Own
  /\ \E k \in 1..Len(chain[h])+1 : current[h] = At(chain[h], k)

\* The walk of h is at place k of c: its pointers, and the links between what it
\* has kept and what is still ahead of it.
Walk(h, c, k) ==
  /\ LinksTo(c, k, 0, header[h])
  /\ \A i \in Kept(c, k) : LinksTo(c, k, i, next[c[i]]) /\ holder[c[i]] = "handler"
  /\ \/ Kept(c, k) \cap 1..k-1 = {}
     \/ \E p \in Kept(c, k) : Follows(c, k, p, k) /\ previous[h] = c[p]

WalkInv == \A h \in Handlers : pc[h] = "walk" => ChainInv(h) /\ Walk(h, chain[h], Place(h))

\* Two handlers never have the same NBL.
Has(h) == {chain[h][i] : i \in Kept(chain[h], Place(h))}

Apart ==
  \A g, h \in Handlers : g # h /\ pc[g] = "walk" /\ pc[h] = "walk" => Has(g) \cap Has(h) = {}

MemoryInv ==
  /\ Others \X Parts \subseteq memory
  /\ \A n \in Own : IF holder[n] = "owner" THEN \A part \in Parts : <<n, part>> \notin memory
                    ELSE {n} \X Parts \subseteq memory

\* An NBL of the driver that is on its way back is in the chain of some handler.
AheadInv ==
  \A n \in Own : holder[n] = "handler" => \E h \in Handlers : pc[h] = "walk" /\ n \in Has(h)

GivenInv == \A h \in Handlers : pc[h] # "return" => given[h] = <<>>

NInv ==
  /\ TypeOK /\ Acyclic /\ WalkInv /\ Apart /\ MemoryInv /\ AheadInv /\ GivenInv
  /\ RestReturned

-----------------------------------------------------------------------------
(* The sequence that the links make.                                       *)

Step(f) == [n \in Nbls \cup {NULL} |-> IF n = NULL THEN <<>> ELSE <<n>> \o f[next[n]]]

\* When some function satisfies the equation of ChainFrom, it does.
\* When some function satisfies the equation of ChainFrom, it does.
LEMMA ChainFromSolves ==
  ASSUME NEW f, f = Step(f)
  PROVE  ChainFrom = Step(ChainFrom)
<1>1. ChainFrom = CHOOSE g : g = Step(g)
  BY DEF ChainFrom, Step
<1>2. QED
  BY <1>1

\* Numbers have a first one among them, and those below a bound a last one.
LEMMA FirstOfNumbers ==
  ASSUME NEW T \in SUBSET Nat, T # {}
  PROVE  \E i \in T : \A j \in T : i <= j
<1> DEFINE less == {ss \in Nat \X Nat : ss[1] < ss[2]}
<1>1. IsWellFoundedOn(less, Nat)
  BY NatLessThanWellFounded, Zenon DEF OpToRel
<1>2. \A i, j \in Nat : <<j, i>> \in less <=> j < i
  OBVIOUS
<1> HIDE DEF less
<1>3. PICK i \in T : \A j \in T : <<j, i>> \notin less
  BY <1>1, WFMin, Zenon
<1>4. \A j \in T : i \in Nat /\ j \in Nat /\ ~(j < i)
  BY <1>2, <1>3
<1>5. QED
  BY <1>4

LEMMA LastOfNumbers ==
  ASSUME NEW n \in Nat, NEW T \in SUBSET (1..n), T # {}
  PROVE  \E i \in T : \A j \in T : j <= i
<1> DEFINE U == {n - i : i \in T}
<1>1. U \in SUBSET Nat /\ U # {}
  <2>1. \A i \in T : n - i \in Nat
    OBVIOUS
  <2>2. QED
    BY <2>1
<1>2. PICK u \in U : \A v \in U : u <= v
  BY <1>1, FirstOfNumbers
<1>3. PICK i \in T : u = n - i
  OBVIOUS
<1>4. ASSUME NEW j \in T PROVE j <= i
  <2>1. n - i <= n - j
    BY <1>2, <1>3
  <2>2. QED
    BY <2>1
<1>5. QED
  BY <1>4

\* The sequence of the NBLs from n on to the end of its chain.
IsPath(s, n) ==
  /\ s \in Seq(Nbls)
  /\ n = At(s, 1)
  /\ \A i \in DOMAIN s : next[s[i]] = At(s, i + 1)

LEMMA PlaceTypes ==
  ASSUME NEW s \in Seq(Nbls), NEW i \in Nat \ {0}
  PROVE  /\ Len(s) \in Nat /\ DOMAIN s = 1..Len(s)
         /\ i \in DOMAIN s => At(s, i) = s[i] /\ At(s, i) \in Nbls /\ At(s, i) # NULL
         /\ i \notin DOMAIN s => At(s, i) = NULL /\ i > Len(s)
<1>1. NULL \notin Nbls
  BY NblsAssumption
<1>2. Len(s) \in Nat /\ DOMAIN s = 1..Len(s)
  OBVIOUS
<1>3. QED
  BY <1>1, <1>2 DEF At

LEMMA OnePath ==
  ASSUME NEW n, NEW s, NEW t, IsPath(s, n), IsPath(t, n)
  PROVE  s = t
<1> DEFINE T == {i \in Nat \ {0} : At(s, i) # At(t, i)}
<1>1. s \in Seq(Nbls) /\ t \in Seq(Nbls)
  BY DEF IsPath
<1>2. T = {}
  <2>1. SUFFICES ASSUME T # {} PROVE FALSE
    OBVIOUS
  <2>2. PICK i \in T : \A j \in T : i <= j
    <3>1. T \in SUBSET Nat
      OBVIOUS
    <3>2. QED
      BY <2>1, <3>1, FirstOfNumbers
  <2>3. i # 1
    BY <2>2 DEF IsPath
  <2>4. i - 1 \in Nat \ {0} /\ At(s, i - 1) = At(t, i - 1)
    BY <2>2, <2>3
  <2>5. i - 1 \in DOMAIN s <=> i - 1 \in DOMAIN t
    BY <1>1, <2>4, PlaceTypes
  <2>6. CASE i - 1 \in DOMAIN s
    <3>1. s[i - 1] = t[i - 1]
      BY <1>1, <2>4, <2>5, <2>6, PlaceTypes
    <3>2. (i - 1) + 1 = i
      OBVIOUS
    <3>3. next[s[i - 1]] = At(s, i) /\ next[t[i - 1]] = At(t, i)
      BY <2>5, <2>6, <3>2 DEF IsPath
    <3>4. QED
      BY <3>1, <3>3
  <2>7. CASE i - 1 \notin DOMAIN s
    <3>1. i \notin DOMAIN s /\ i \notin DOMAIN t
      BY <1>1, <2>4, <2>5, <2>7
    <3>2. QED
      BY <3>1 DEF At
  <2>8. QED
    BY <2>6, <2>7
<1>3. \A i \in Nat \ {0} : At(s, i) = At(t, i)
  BY <1>2
<1>4. \A i \in Nat \ {0} : i \in DOMAIN s <=> i \in DOMAIN t
  BY <1>1, <1>3, PlaceTypes
<1>5. Len(s) = Len(t)
  <2>1. Len(s) + 1 \notin DOMAIN s /\ Len(t) + 1 \notin DOMAIN t /\ Len(s) \in Nat /\ Len(t) \in Nat
    BY <1>1
  <2>2. Len(s) + 1 \notin 1..Len(t) /\ Len(t) + 1 \notin 1..Len(s)
    BY <1>1, <1>4, <2>1
  <2>3. QED
    BY <2>1, <2>2
<1>6. \A i \in 1..Len(s) : s[i] = t[i]
  BY <1>1, <1>3, <1>5, PlaceTypes
<1>7. QED
  BY <1>1, <1>5, <1>6

LEMMA PathFrom ==
  ASSUME NEW n \in Nbls, NEW s, IsPath(s, next[n])
  PROVE  IsPath(<<n>> \o s, n)
<1> DEFINE t == <<n>> \o s
<1>1. s \in Seq(Nbls) /\ Len(s) \in Nat
  BY DEF IsPath
<1>2. t \in Seq(Nbls) /\ Len(t) = Len(s) + 1 /\ t[1] = n /\ \A i \in 1..Len(s) : t[i + 1] = s[i]
  BY <1>1
<1> HIDE DEF t
<1>3. \A i \in Nat \ {0} : At(t, i + 1) = At(s, i)
  <2> TAKE i \in Nat \ {0}
  <2>1. i + 1 \in DOMAIN t <=> i \in DOMAIN s
    BY <1>1, <1>2
  <2>2. i \in DOMAIN s => t[i + 1] = s[i]
    BY <1>1, <1>2
  <2>3. QED
    BY <2>1, <2>2 DEF At
<1>4. 1 \in DOMAIN t /\ At(t, 1) = n
  BY <1>1, <1>2 DEF At
<1>5. ASSUME NEW i \in DOMAIN t PROVE next[t[i]] = At(t, i + 1)
  <2>1. i \in 1..Len(s)+1
    BY <1>2
  <2>2. CASE i = 1
    BY <1>2, <1>3, <2>2 DEF IsPath
  <2>3. CASE i # 1
    <3>1. i - 1 \in DOMAIN s /\ i - 1 \in 1..Len(s) /\ i - 1 \in Nat \ {0} /\ (i - 1) + 1 = i
      BY <1>1, <2>1, <2>3
    <3>2. t[i] = s[i - 1] /\ At(t, i + 1) = At(s, i)
      BY <1>2, <1>3, <3>1
    <3>3. next[s[i - 1]] = At(s, i)
      BY <3>1 DEF IsPath
    <3>4. QED
      BY <3>2, <3>3
  <2>4. QED
    BY <2>2, <2>3
<1>6. IsPath(t, n)
  BY <1>2, <1>4, <1>5 DEF IsPath
<1>7. QED
  BY <1>6 DEF t

LEMMA EveryPath ==
  ASSUME TypeOK, Acyclic
  PROVE  \A n \in Nbls \cup {NULL} : \E s : IsPath(s, n)
<1>1. \E s : IsPath(s, NULL)
  <2>1. IsPath(<<>>, NULL)
    BY DEF IsPath, At
  <2>2. QED
    BY <2>1
<1>2. PICK distance \in [Nbls -> Nat] :
        \A n \in Nbls : next[n] # NULL => distance[next[n]] < distance[n]
  BY DEF Acyclic
<1> DEFINE without == {n \in Nbls : ~\E s : IsPath(s, n)}
           T == {distance[n] : n \in without}
<1>3. without = {}
  <2>1. SUFFICES ASSUME without # {} PROVE FALSE
    OBVIOUS
  <2>2. T \in SUBSET Nat /\ T # {}
    BY <2>1
  <2>3. PICK i \in T : \A j \in T : i <= j
    BY <2>2, FirstOfNumbers
  <2>4. PICK n \in without : i = distance[n]
    OBVIOUS
  <2>5. next[n] \in Nbls \cup {NULL}
    BY DEF TypeOK
  <2>6. \E s : IsPath(s, next[n])
    <3>1. CASE next[n] = NULL
      BY <1>1, <3>1
    <3>2. CASE next[n] \in Nbls /\ next[n] # NULL
      <4>1. distance[next[n]] < distance[n] /\ distance[next[n]] \in Nat /\ distance[n] \in Nat
        BY <1>2, <3>2
      <4>2. distance[next[n]] \notin T
        BY <2>3, <2>4, <4>1
      <4>3. QED
        BY <3>2, <4>2
    <3>3. QED
      BY <2>5, <3>1, <3>2
  <2>7. QED
    BY <2>6, PathFrom
<1>4. QED
  BY <1>1, <1>3

\* ChainFrom is what its definition says of it.
LEMMA ChainUnfolds ==
  ASSUME TypeOK, Acyclic
  PROVE  /\ ChainFrom[NULL] = <<>>
         /\ \A n \in Nbls : ChainFrom[n] = <<n>> \o ChainFrom[next[n]]
<1> DEFINE f == [n \in Nbls \cup {NULL} |-> CHOOSE s : IsPath(s, n)]
<1>1. \A n \in Nbls \cup {NULL} : IsPath(f[n], n)
  BY EveryPath
<1>2. \A n \in Nbls : next[n] \in Nbls \cup {NULL} /\ n # NULL
  BY NblsAssumption DEF TypeOK
<1>3. f[NULL] = <<>>
  <2>1. IsPath(<<>>, NULL)
    BY DEF IsPath, At
  <2>2. QED
    BY <1>1, <2>1, OnePath
<1>4. \A n \in Nbls : f[n] = <<n>> \o f[next[n]]
  BY <1>1, <1>2, PathFrom, OnePath
<1>5. f = Step(f)
  <2>1. DOMAIN f = Nbls \cup {NULL} /\ f = [n \in Nbls \cup {NULL} |-> f[n]]
    OBVIOUS
  <2> HIDE DEF f
  <2>2. \A n \in Nbls \cup {NULL} : f[n] = IF n = NULL THEN <<>> ELSE <<n>> \o f[next[n]]
    BY <1>2, <1>3, <1>4
  <2>3. QED
    BY <2>1, <2>2 DEF Step
<1> HIDE DEF f
<1>6. ChainFrom = Step(ChainFrom)
  BY <1>5, ChainFromSolves
<1>7. \A n \in Nbls \cup {NULL} : ChainFrom[n] = IF n = NULL THEN <<>> ELSE <<n>> \o ChainFrom[next[n]]
  BY <1>6 DEF Step
<1>8. QED
  BY <1>2, <1>7

-----------------------------------------------------------------------------
(* Places of a chain.                                                      *)

LEMMA PlaceIsWhere ==
  ASSUME NEW c, IsChain(c), NEW k \in 1..Len(c)+1
  PROVE  PlaceIn(c, At(c, k)) = k
<1>1. c \in Seq(Nbls) /\ Len(c) \in Nat
  BY DEF IsChain
<1>2. \A i \in 1..Len(c)+1 : At(c, i) = At(c, k) => i = k
  <2> SUFFICES ASSUME NEW i \in 1..Len(c)+1, At(c, i) = At(c, k) PROVE i = k
    OBVIOUS
  <2>1. i \in Nat \ {0} /\ k \in Nat \ {0}
    BY <1>1
  <2>2. i \in DOMAIN c <=> k \in DOMAIN c
    BY <1>1, <2>1, PlaceTypes
  <2>3. CASE i \in DOMAIN c
    BY <2>2, <2>3 DEF At, IsChain
  <2>4. CASE i \notin DOMAIN c
    BY <1>1, <2>2, <2>4
  <2>5. QED
    BY <2>3, <2>4
<1>3. QED
  BY <1>2 DEF PlaceIn

\* A walk has a place in its chain.
LEMMA WalkPlace ==
  ASSUME NEW h, ChainInv(h)
  PROVE  /\ chain[h] \in Seq(Nbls) /\ Len(chain[h]) \in Nat /\ DOMAIN chain[h] = 1..Len(chain[h])
         /\ Place(h) \in 1..Len(chain[h])+1 /\ current[h] = At(chain[h], Place(h))
<1>1. PICK k \in 1..Len(chain[h])+1 : current[h] = At(chain[h], k)
  BY DEF ChainInv
<1>2. Place(h) = k
  BY <1>1, PlaceIsWhere DEF Place, ChainInv
<1>3. QED
  BY <1>1, <1>2 DEF ChainInv, IsChain

\* What is ahead of a walk is linked place by place.
LEMMA NextPlace ==
  ASSUME NEW c \in Seq(Nbls), NEW k \in 1..Len(c)+1, NEW i \in k..Len(c), NEW j, Follows(c, k, i, j)
  PROVE  j = i + 1
<1>1. Len(c) \in Nat /\ DOMAIN c = 1..Len(c)
  OBVIOUS
<1>2. i \in Nat /\ k \in Nat \ {0} /\ i >= k
  BY <1>1
<1>3. j \in 1..Len(c)+1 /\ i < j
  BY <1>1, <1>2 DEF Follows, Kept
<1>4. i + 1 \in Kept(c, k) \/ i + 1 = Len(c) + 1
  BY <1>1, <1>2, <1>3 DEF Kept
<1>5. QED
  BY <1>1, <1>2, <1>3, <1>4 DEF Follows

LEMMA OneFollower ==
  ASSUME NEW c \in Seq(Nbls), NEW k \in Nat, NEW i \in Nat, NEW j, NEW l,
         Follows(c, k, i, j), Follows(c, k, i, l)
  PROVE  j = l /\ j \in 1..Len(c)+1
<1>1. Len(c) \in Nat /\ DOMAIN c = 1..Len(c)
  OBVIOUS
<1>2. j \in 1..Len(c)+1 /\ l \in 1..Len(c)+1
  BY <1>1 DEF Follows, Kept
<1>3. \A m \in Kept(c, k) : m \in Nat /\ m <= Len(c)
  BY <1>1 DEF Kept
<1>4. QED
  BY <1>1, <1>2, <1>3 DEF Follows

\* From a place that is linked, the links go through all that are and come behind it,
\* in their order.
GoesThrough(s, c, k, i) ==
  /\ s \in Seq(Nbls)
  /\ ToSet(s) = {c[j] : j \in {j \in Kept(c, k) : i <= j}}
  /\ \A a, b \in DOMAIN s : a < b => \E l, m \in DOMAIN c : l < m /\ c[l] = s[a] /\ c[m] = s[b]

LEMMA RestOfChain ==
  ASSUME TypeOK, Acyclic, NEW h, NEW c, NEW k \in 1..Len(c)+1, IsChain(c), Walk(h, c, k)
  PROVE  \A i \in Kept(c, k) \cup {Len(c) + 1} :
           GoesThrough(ChainFrom[At(c, i)], c, k, i)
<1> DEFINE behind(i) == {c[j] : j \in {j \in Kept(c, k) : i <= j}}
           ordered(s) == \A a, b \in DOMAIN s :
                           a < b => \E l, m \in DOMAIN c : l < m /\ c[l] = s[a] /\ c[m] = s[b]
           good(i) == /\ ChainFrom[At(c, i)] \in Seq(Nbls)
                      /\ ToSet(ChainFrom[At(c, i)]) = behind(i)
                      /\ ordered(ChainFrom[At(c, i)])
           T == {i \in Kept(c, k) \cup {Len(c) + 1} : ~good(i)}
<1>1. c \in Seq(Nbls) /\ Len(c) \in Nat /\ DOMAIN c = 1..Len(c)
  BY DEF IsChain
<1>2. Kept(c, k) \subseteq 1..Len(c)
  BY <1>1 DEF Kept
<1>3. good(Len(c) + 1)
  <2>1. At(c, Len(c) + 1) = NULL
    BY <1>1 DEF At
  <2>2. ChainFrom[At(c, Len(c) + 1)] = <<>>
    BY <2>1, ChainUnfolds
  <2>3. behind(Len(c) + 1) = {}
    BY <1>1, <1>2
  <2>4. <<>> \in Seq(Nbls) /\ DOMAIN <<>> = {}
    OBVIOUS
  <2>5. ToSet(<<>>) = {}
    BY <2>4, Zenon DEF ToSet
  <2>6. QED
    BY <2>2, <2>3, <2>4, <2>5
<1>4. ASSUME NEW i \in Kept(c, k), NEW j \in Kept(c, k) \cup {Len(c) + 1}, Follows(c, k, i, j),
             next[c[i]] = At(c, j), good(j)
      PROVE  good(i)
  <2> DEFINE t == ChainFrom[At(c, j)]
             s == <<c[i]>> \o t
  <2>1. c[i] \in Nbls /\ At(c, i) = c[i] /\ i \in 1..Len(c) /\ j \in 1..Len(c)+1 /\ i < j
    <3> HIDE DEF good
    <3>1. Follows(c, k, i, j)
      BY <1>4
    <3>2. QED
      BY <1>1, <1>2, <3>1 DEF At, Follows
  <2>2. ChainFrom[At(c, i)] = s
    <3>1. ChainFrom[c[i]] = <<c[i]>> \o ChainFrom[next[c[i]]]
      BY <2>1, ChainUnfolds, Zenon
    <3>2. QED
      BY <1>4, <2>1, <3>1, Zenon
  <2>3. t \in Seq(Nbls) /\ ToSet(t) = behind(j) /\ ordered(t)
    BY <1>4
  <2> HIDE DEF t, good, ordered
  <2>4. /\ s \in Seq(Nbls) /\ Len(s) = Len(t) + 1 /\ Len(t) \in Nat
        /\ s[1] = c[i] /\ \A a \in 2..Len(t)+1 : a - 1 \in DOMAIN t /\ s[a] = t[a - 1]
    BY <2>1, <2>3
  <2>5. ToSet(s) = {c[i]} \cup ToSet(t)
    <3>1. DOMAIN s = 1..Len(t)+1 /\ DOMAIN t = 1..Len(t)
      BY <2>3, <2>4
    <3> HIDE DEF s
    <3>2. \A a \in DOMAIN s : s[a] \in {c[i]} \cup ToSet(t)
      <4> TAKE a \in DOMAIN s
      <4>1. a = 1 \/ a \in 2..Len(t)+1
        BY <2>4, <3>1
      <4>2. QED
        BY <2>4, <4>1 DEF ToSet
    <3>3. \A a \in DOMAIN t : t[a] \in ToSet(s)
      <4> TAKE a \in DOMAIN t
      <4>1. a + 1 \in 2..Len(t)+1 /\ a + 1 \in DOMAIN s /\ (a + 1) - 1 = a
        BY <2>4, <3>1
      <4>2. s[a + 1] = t[a]
        BY <2>4, <4>1
      <4>3. QED
        BY <4>1, <4>2 DEF ToSet
    <3>4. 1 \in DOMAIN s
      BY <2>4, <3>1
    <3>5. QED
      BY <2>4, <3>2, <3>3, <3>4 DEF ToSet
  <2>6. behind(i) = {c[i]} \cup behind(j)
    <3>1. \A l \in Kept(c, k) : l \in Nat /\ (i <= l <=> l = i \/ j <= l)
      BY <1>1, <1>2, <1>4, <2>1 DEF Follows
    <3>2. QED
      BY <3>1
  <2>7. ASSUME NEW a \in DOMAIN s, NEW b \in DOMAIN s, a < b
        PROVE  \E l, m \in DOMAIN c : l < m /\ c[l] = s[a] /\ c[m] = s[b]
    <3>1. a \in 1..Len(t)+1 /\ b \in 2..Len(t)+1
      <4>1. DOMAIN s = 1..Len(t)+1
        BY <2>4
      <4>2. QED
        BY <2>4, <2>7, <4>1
    <3>2. b - 1 \in DOMAIN t /\ s[b] = t[b - 1]
      BY <2>4, <3>1
    <3> HIDE DEF s
    <3>3. CASE a = 1
      <4>1. t[b - 1] \in behind(j)
        BY <2>3, <3>2 DEF ToSet
      <4>2. PICK m \in Kept(c, k) : j <= m /\ c[m] = t[b - 1]
        BY <4>1
      <4>3. i < m /\ m \in DOMAIN c /\ i \in DOMAIN c
        BY <1>1, <1>2, <2>1, <4>2
      <4>4. QED
        BY <2>4, <3>2, <3>3, <4>2, <4>3
    <3>4. CASE a # 1
      <4>1. a \in 2..Len(t)+1
        BY <2>4, <3>1, <3>4
      <4>2. a - 1 \in DOMAIN t /\ s[a] = t[a - 1] /\ a - 1 < b - 1
        BY <2>4, <2>7, <3>1, <4>1
      <4>3. QED
        BY <2>3, <3>2, <4>2 DEF ordered
    <3>5. QED
      BY <3>3, <3>4
  <2>8. ordered(s)
    BY <2>7 DEF ordered
  <2>9. QED
    BY <2>2, <2>3, <2>4, <2>5, <2>6, <2>8 DEF good
<1>5. T = {}
  <2>1. SUFFICES ASSUME T # {} PROVE FALSE
    OBVIOUS
  <2>2. T \in SUBSET (1..Len(c)+1)
    BY <1>1, <1>2
  <2> HIDE DEF good
  <2>3. PICK i \in T : \A j \in T : j <= i
    <3>1. Len(c) + 1 \in Nat
      BY <1>1
    <3> HIDE DEF T
    <3>2. QED
      BY <2>1, <2>2, <3>1, LastOfNumbers, Zenon
  <2>4. i \in Kept(c, k)
    BY <1>3, <2>3
  <2>5. PICK j \in 1..Len(c)+1 : Follows(c, k, i, j) /\ next[c[i]] = At(c, j)
    BY <2>4 DEF Walk, LinksTo
  <2>6. j \in Kept(c, k) \cup {Len(c) + 1} /\ i < j /\ i \in Nat /\ j \in Nat
    BY <1>1, <1>2, <2>4, <2>5 DEF Follows
  <2>7. j \notin T
    BY <2>3, <2>6
  <2>8. good(i)
    BY <1>4, <2>4, <2>5, <2>6, <2>7
  <2>9. QED
    BY <2>3, <2>8
<1>6. \A i \in Kept(c, k) \cup {Len(c) + 1} : good(i)
  BY <1>5
<1>7. QED
  BY <1>6 DEF GoesThrough

-----------------------------------------------------------------------------
(* The walk of one handler.                                                *)

\* A handler at CurrentNBL has it, and finds what is behind it.
LEMMA AtCurrent ==
  ASSUME NInv, NEW h \in Handlers, pc[h] = "walk", current[h] # NULL
  PROVE  /\ Place(h) \in 1..Len(chain[h]) /\ Place(h) \in Kept(chain[h], Place(h))
         /\ chain[h][Place(h)] = current[h] /\ current[h] \in Has(h)
         /\ next[current[h]] = At(chain[h], Place(h) + 1)
<1> DEFINE c == chain[h]
           k == Place(h)
<1>1. ChainInv(h) /\ Walk(h, c, k)
  BY DEF NInv, WalkInv
<1>2. /\ c \in Seq(Nbls) /\ Len(c) \in Nat /\ DOMAIN c = 1..Len(c)
      /\ k \in 1..Len(c)+1 /\ current[h] = At(c, k)
  BY <1>1, WalkPlace
<1>3. k \in 1..Len(c) /\ c[k] = current[h]
  BY <1>2 DEF At
<1>4. k \in Kept(c, k)
  BY <1>2, <1>3 DEF Kept
<1>5. LinksTo(c, k, k, next[c[k]])
  BY <1>1, <1>4 DEF Walk
<1>6. next[c[k]] = At(c, k + 1)
  <2>1. k \in k..Len(c)
    BY <1>2, <1>3
  <2> HIDE DEF c, k
  <2>2. PICK j \in 1..Len(c)+1 : Follows(c, k, k, j) /\ next[c[k]] = At(c, j)
    BY <1>5 DEF LinksTo
  <2>3. j = k + 1
    BY <1>2, <2>1, <2>2, NextPlace
  <2>4. QED
    BY <2>2, <2>3
<1>7. QED
  BY <1>3, <1>4, <1>6 DEF Has

\* CurrentNBL goes one place on.
LEMMA CurrentGoesOn ==
  ASSUME NInv, NEW h \in Handlers, pc[h] = "walk", current[h] # NULL,
         UNCHANGED <<chain, handler>>, current' = [current EXCEPT ![h] = next[current[h]]]
  PROVE  ChainInv(h)' /\ Place(h)' = Place(h) + 1
<1>1. ChainInv(h) /\ current'[h] = At(chain[h], Place(h) + 1)
  BY AtCurrent DEF NInv, WalkInv, TypeOK
<1>2. Place(h) + 1 \in 1..Len(chain[h])+1
  BY AtCurrent
<1>3. IsChain(chain[h])
  BY <1>1 DEF ChainInv
<1>4. Place(h)' = Place(h) + 1
  BY <1>1, <1>2, <1>3, PlaceIsWhere DEF Place
<1>5. ChainInv(h)'
  BY <1>1, <1>2 DEF ChainInv
<1>6. QED
  BY <1>4, <1>5

\* A walk over an NBL of another leaves the links as they are.
LEMMA KeepOtherWalk ==
  ASSUME NInv, NEW h \in Handlers, KeepOther(h)
  PROVE  ChainInv(h)' /\ Walk(h, chain[h], Place(h))' /\ Has(h)' = Has(h)
<1>1. PICK c : c = chain[h]
  OBVIOUS
<1>2. PICK k : k = Place(h)
  OBVIOUS
<1>3. /\ pc[h] = "walk" /\ current[h] \in Others /\ current[h] # NULL
      /\ UNCHANGED <<next, holder, chain, handler, header>>
      /\ current' = [current EXCEPT ![h] = next[current[h]]]
      /\ previous'[h] = current[h]
  BY NblsAssumption DEF KeepOther, NInv, TypeOK, Nbls
<1>4. ChainInv(h)' /\ Place(h)' = k + 1 /\ chain'[h] = c
  BY <1>1, <1>2, <1>3, CurrentGoesOn
<1>5. /\ c \in Seq(Nbls) /\ Len(c) \in Nat /\ DOMAIN c = 1..Len(c)
      /\ k \in 1..Len(c) /\ c[k] = current[h] /\ k \in Kept(c, k)
  BY <1>1, <1>2, <1>3, AtCurrent, WalkPlace DEF NInv, WalkInv
<1>6. Walk(h, c, k)
  BY <1>1, <1>2, <1>3 DEF NInv, WalkInv
<1>7. Kept(c, k + 1) = Kept(c, k)
  BY <1>3, <1>5 DEF Kept
<1>8. \A i, j : Follows(c, k + 1, i, j) <=> Follows(c, k, i, j)
  BY <1>7 DEF Follows
<1>9. \A i, n : LinksTo(c, k + 1, i, n) <=> LinksTo(c, k, i, n)
  BY <1>8 DEF LinksTo
<1>10. Follows(c, k + 1, k, k + 1)
  BY <1>5 DEF Follows, Kept
<1>11. Walk(h, c, k + 1)'
  BY <1>3, <1>5, <1>6, <1>7, <1>9, <1>10 DEF Walk
<1>12. Has(h)' = Has(h)
  BY <1>1, <1>2, <1>4, <1>7 DEF Has
<1>13. QED
  BY <1>4, <1>11, <1>12

\* Taking an NBL of the driver out leaves those before and those behind it linked.
LEMMA RemoveOwnWalk ==
  ASSUME NInv, NEW h \in Handlers, RemoveOwn(h)
  PROVE  /\ ChainInv(h)' /\ Walk(h, chain[h], Place(h))'
         /\ Has(h)' = Has(h) \ {current[h]} /\ current[h] \in Has(h)
         /\ next'[current[h]] = NULL
         /\ \A n \in Nbls \ {current[h]} :
              \/ next'[n] = next[n]
              \/ n \in Has(h) /\ next[n] = current[h] /\ next'[n] = next[current[h]]
<1>1. PICK c : c = chain[h]
  OBVIOUS
<1>2. PICK k : k = Place(h)
  OBVIOUS
<1>3. /\ pc[h] = "walk" /\ current[h] \in Own /\ current[h] # NULL
      /\ UNCHANGED <<chain, handler, previous>>
      /\ current' = [current EXCEPT ![h] = next[current[h]]]
      /\ holder' = [holder EXCEPT ![current[h]] = "owner"]
      /\ Unlink(h, current[h])
  BY NblsAssumption DEF RemoveOwn, FreeSingleNBL, NInv, TypeOK, Nbls
<1>4. ChainInv(h)' /\ Place(h)' = k + 1 /\ chain'[h] = c
  BY <1>1, <1>2, <1>3, CurrentGoesOn
<1>5. /\ c \in Seq(Nbls) /\ Len(c) \in Nat /\ DOMAIN c = 1..Len(c)
      /\ k \in 1..Len(c) /\ c[k] = current[h] /\ k \in Kept(c, k)
      /\ next[c[k]] = At(c, k + 1) /\ current[h] \in Has(h)
  BY <1>1, <1>2, <1>3, AtCurrent, WalkPlace DEF NInv, WalkInv
<1>6. /\ Walk(h, c, k) /\ \A i, j \in DOMAIN c : c[i] = c[j] => i = j
      /\ \A i \in DOMAIN c : c[i] \in Nbls /\ c[i] # NULL
  BY <1>1, <1>2, <1>3, <1>5, NblsAssumption DEF NInv, WalkInv, ChainInv, IsChain
<1>7. Kept(c, k + 1) = Kept(c, k) \ {k} /\ Kept(c, k) \subseteq 1..Len(c)
  BY <1>3, <1>5, NblsAssumption DEF Kept
<1>8. ASSUME NEW i \in 0..Len(c), NEW j, Follows(c, k, i, j), j # k
      PROVE  Follows(c, k + 1, i, j)
  BY <1>5, <1>7, <1>8 DEF Follows
<1>9. ASSUME NEW i \in 0..Len(c), Follows(c, k, i, k)
      PROVE  Follows(c, k + 1, i, k + 1)
  <2>1. k + 1 \in Kept(c, k + 1) \cup {Len(c) + 1}
    BY <1>5 DEF Kept
  <2>2. i < k + 1
    BY <1>5, <1>9 DEF Follows
  <2>3. \A l \in Kept(c, k + 1) : l <= i \/ k + 1 <= l
    BY <1>5, <1>7, <1>9 DEF Follows
  <2>4. QED
    BY <2>1, <2>2, <2>3 DEF Follows
<1>10. ASSUME NEW i \in 0..Len(c), NEW n, LinksTo(c, k, i, n)
       PROVE  IF n = c[k] THEN Follows(c, k, i, k) /\ LinksTo(c, k + 1, i, next[c[k]])
              ELSE LinksTo(c, k + 1, i, n)
  <2>1. PICK j \in 1..Len(c)+1 : Follows(c, k, i, j) /\ n = At(c, j)
    BY <1>10 DEF LinksTo
  <2>2. n = c[k] <=> j = k
    BY <1>5, <1>6, <2>1 DEF At
  <2>3. CASE j = k
    <3>1. Follows(c, k + 1, i, k + 1) /\ k + 1 \in 1..Len(c)+1
      BY <1>5, <1>9, <2>1, <2>3
    <3>2. QED
      BY <1>5, <2>1, <2>2, <2>3, <3>1 DEF LinksTo
  <2>4. CASE j # k
    <3>1. Follows(c, k + 1, i, j)
      BY <1>8, <2>1, <2>4
    <3>2. QED
      BY <2>1, <2>2, <2>4, <3>1 DEF LinksTo
  <2>5. QED
    BY <2>3, <2>4
<1>11. LinksTo(c, k, 0, header[h]) /\ \A i \in Kept(c, k) : LinksTo(c, k, i, next[c[i]])
  BY <1>6 DEF Walk
<1>12. \A i \in Kept(c, k + 1) : i \in DOMAIN c /\ i # k /\ c[i] # c[k] /\ i \in 0..Len(c)
  BY <1>5, <1>6, <1>7
<1>13. \A i \in Kept(c, k + 1) : holder'[c[i]] = "handler"
  BY <1>3, <1>5, <1>6, <1>7, <1>12 DEF Walk, NInv, TypeOK
<1>14. \/ Kept(c, k + 1) \cap 1..(k + 1)-1 = {}
       \/ \E p \in Kept(c, k + 1) : Follows(c, k + 1, p, k + 1) /\ previous[h] = c[p]
  <2>1. CASE Kept(c, k) \cap 1..k-1 = {}
    BY <1>5, <1>7, <2>1
  <2>2. CASE \E p \in Kept(c, k) : Follows(c, k, p, k) /\ previous[h] = c[p]
    <3>1. PICK p \in Kept(c, k) : Follows(c, k, p, k) /\ previous[h] = c[p]
      BY <2>2
    <3>2. p \in 0..Len(c) /\ p # k
      BY <1>5, <1>7, <3>1 DEF Follows
    <3>3. QED
      BY <1>7, <1>9, <3>1, <3>2
  <2>3. QED
    BY <1>6, <2>1, <2>2 DEF Walk
<1>15. c[k] \in Nbls /\ next \in [Nbls -> Nbls \cup {NULL}]
  BY <1>5, <1>6 DEF NInv, TypeOK
\* With nothing kept before it, the NBL is the head of the chain.
<1>16. CASE c[k] = header[h]
  <2>1. header'[h] = next[c[k]] /\ next' = [next EXCEPT ![c[k]] = NULL]
    BY <1>3, <1>5, <1>16 DEF Unlink, NInv, TypeOK
  <2>2. Follows(c, k, 0, k)
    BY <1>5, <1>10, <1>11, <1>16
  <2>3. ASSUME NEW i \in Kept(c, k + 1) PROVE LinksTo(c, k + 1, i, next'[c[i]])
    <3>1. LinksTo(c, k, i, next[c[i]]) /\ i \in DOMAIN c /\ i \in 0..Len(c)
      BY <1>7, <1>11, <1>12
    <3>2. next'[c[i]] = next[c[i]]
      BY <1>6, <1>12, <1>15, <2>1
    <3>3. next[c[i]] # c[k]
      <4>1. SUFFICES ASSUME next[c[i]] = c[k] PROVE FALSE
        OBVIOUS
      <4>2. Follows(c, k, i, k)
        BY <1>10, <3>1, <4>1
      <4>3. i < k /\ i > 0 /\ i \in Kept(c, k)
        BY <1>5, <1>7, <4>2 DEF Follows
      <4>4. QED
        BY <1>5, <1>7, <2>2, <4>3 DEF Follows
    <3>4. QED
      BY <1>10, <3>1, <3>2, <3>3
  <2>4. LinksTo(c, k + 1, 0, header'[h])
    <3>1. 0 \in 0..Len(c)
      BY <1>5
    <3>2. QED
      BY <1>10, <1>11, <1>16, <2>1, <3>1
  <2>5. Walk(h, c, k + 1)'
    BY <1>3, <1>5, <1>13, <1>14, <2>3, <2>4 DEF Walk
  <2>6. \A n \in Nbls \ {c[k]} : next'[n] = next[n]
    BY <1>15, <2>1
  <2>7. next'[c[k]] = NULL
    BY <1>15, <2>1
  <2>8. Has(h)' = Has(h) \ {current[h]}
    BY <1>1, <1>2, <1>4, <1>5, <1>6, <1>7 DEF Has
  <2>9. Walk(h, chain[h], Place(h))'
    BY <1>4, <2>5
  <2>10. QED
    BY <1>4, <1>5, <2>6, <2>7, <2>8, <2>9
\* Otherwise PreviousNBL is the one that links to it.
<1>17. CASE c[k] # header[h]
  <2>1. PICK p \in Kept(c, k) : Follows(c, k, p, k) /\ previous[h] = c[p]
    <3>1. ~Follows(c, k, 0, k)
      <4>1. SUFFICES ASSUME Follows(c, k, 0, k) PROVE FALSE
        OBVIOUS
      <4>2. PICK j \in 1..Len(c)+1 : Follows(c, k, 0, j) /\ header[h] = At(c, j)
        BY <1>11 DEF LinksTo
      <4>3. j = k
        BY <1>5, <4>1, <4>2, OneFollower
      <4>4. QED
        BY <1>5, <1>17, <4>2, <4>3 DEF At
    <3>2. Kept(c, k) \cap 1..k-1 # {}
      BY <1>5, <1>7, <3>1 DEF Follows
    <3>3. QED
      BY <1>6, <3>2 DEF Walk
  <2>2. p \in DOMAIN c /\ p # k /\ p \in Kept(c, k + 1) /\ c[p] # c[k] /\ c[p] \in Nbls
    BY <1>5, <1>6, <1>7, <2>1 DEF Follows
  <2>3. header'[h] = header[h] /\ next' = [next EXCEPT ![c[p]] = next[c[k]], ![c[k]] = NULL]
    BY <1>3, <1>5, <1>17, <2>1 DEF Unlink
  <2>4. next[c[p]] = c[k]
    <3>1. PICK j \in 1..Len(c)+1 : Follows(c, k, p, j) /\ next[c[p]] = At(c, j)
      BY <1>11, <2>1 DEF LinksTo
    <3>2. j = k
      <4>1. k \in Nat /\ p \in Nat
        BY <1>5, <2>2
      <4>2. QED
        BY <1>5, <2>1, <3>1, <4>1, OneFollower
    <3>3. QED
      BY <1>5, <3>1, <3>2 DEF At
  <2>5. /\ next'[c[p]] = next[c[k]] /\ next'[c[k]] = NULL
        /\ \A n \in Nbls \ {c[k], c[p]} : next'[n] = next[n]
    BY <1>15, <2>2, <2>3
  <2>6. ASSUME NEW i \in Kept(c, k + 1) PROVE LinksTo(c, k + 1, i, next'[c[i]])
    <3>1. LinksTo(c, k, i, next[c[i]]) /\ i \in DOMAIN c /\ i \in 0..Len(c) /\ c[i] # c[k]
      BY <1>7, <1>11, <1>12
    <3>2. CASE i = p
      BY <1>10, <2>4, <2>5, <3>1, <3>2
    <3>3. CASE i # p
      <4>1. next'[c[i]] = next[c[i]]
        BY <1>6, <2>2, <2>5, <3>1, <3>3
      <4>2. next[c[i]] # c[k]
        <5>1. SUFFICES ASSUME next[c[i]] = c[k] PROVE FALSE
          OBVIOUS
        <5>2. Follows(c, k, i, k)
          BY <1>10, <3>1, <5>1
        <5>3. i \in Kept(c, k) /\ i \in Nat /\ p \in Nat /\ k \in Nat
          BY <1>5, <1>7, <2>1
        <5>4. QED
          BY <2>1, <3>3, <5>2, <5>3 DEF Follows
      <4>3. QED
        BY <1>10, <3>1, <4>1, <4>2
    <3>4. QED
      BY <3>2, <3>3
  <2>7. LinksTo(c, k + 1, 0, header'[h])
    <3>1. 0 \in 0..Len(c)
      BY <1>5
    <3>2. QED
      BY <1>10, <1>11, <1>17, <2>3, <3>1
  <2>8. Walk(h, c, k + 1)'
    BY <1>3, <1>5, <1>13, <1>14, <2>6, <2>7 DEF Walk
  <2>9. Has(h)' = Has(h) \ {current[h]}
    BY <1>1, <1>2, <1>4, <1>5, <1>6, <1>7 DEF Has
  <2>10. c[p] \in Has(h)
    BY <1>1, <1>2, <2>1 DEF Has
  <2>11. Walk(h, chain[h], Place(h))'
    BY <1>4, <2>8
  <2>12. QED
    BY <1>4, <1>5, <2>4, <2>5, <2>9, <2>10, <2>11
<1>18. QED
  BY <1>16, <1>17

-----------------------------------------------------------------------------
(* The other handlers.                                                     *)

\* What happens to NBLs that a handler has not is nothing to it.
LEMMA OtherWalk ==
  ASSUME NInv, NEW g \in Handlers, pc[g] = "walk",
         chain'[g] = chain[g], handler'[g] = handler[g], header'[g] = header[g],
         current'[g] = current[g], previous'[g] = previous[g],
         \A n \in Has(g) : next'[n] = next[n] /\ holder'[n] = holder[n]
  PROVE  ChainInv(g)' /\ Walk(g, chain[g], Place(g))' /\ Has(g)' = Has(g)
<1>1. ChainInv(g) /\ Walk(g, chain[g], Place(g))
  BY DEF NInv, WalkInv
<1>2. Place(g)' = Place(g)
  BY DEF Place
<1>3. ChainInv(g)'
  BY <1>1 DEF ChainInv
<1>4. Has(g)' = Has(g)
  BY <1>2 DEF Has
<1>5. \A i \in Kept(chain[g], Place(g)) : chain[g][i] \in Has(g)
  BY DEF Has
<1>6. Walk(g, chain[g], Place(g))'
  BY <1>1, <1>2, <1>5 DEF Walk
<1>7. QED
  BY <1>3, <1>4, <1>6

OthersStand(h) ==
  \A g \in Handlers \ {h} :
    /\ pc'[g] = pc[g] /\ handler'[g] = handler[g] /\ header'[g] = header[g] /\ given'[g] = given[g]
    /\ current'[g] = current[g] /\ previous'[g] = previous[g] /\ chain'[g] = chain[g]
    /\ pc[g] = "walk" => \A n \in Has(g) : next'[n] = next[n] /\ holder'[n] = holder[n]

\* So for a step of one handler only its own walk needs to be looked at.
LEMMA HandlerStep ==
  ASSUME NInv, NEW h \in Handlers, OthersStand(h),
         pc'[h] = "walk" => /\ ChainInv(h)' /\ Walk(h, chain[h], Place(h))'
                            /\ \A g \in Handlers \ {h} : pc[g] = "walk" => Has(g) \cap Has(h)' = {}
  PROVE  /\ WalkInv' /\ Apart'
         /\ \A g \in Handlers \ {h} : pc[g] = "walk" => pc'[g] = "walk" /\ Has(g)' = Has(g)
<1>1. ASSUME NEW g \in Handlers \ {h}, pc[g] = "walk"
      PROVE  ChainInv(g)' /\ Walk(g, chain[g], Place(g))' /\ Has(g)' = Has(g) /\ pc'[g] = "walk"
  BY <1>1, OtherWalk DEF OthersStand
<1>2. \A g \in Handlers \ {h} : pc'[g] = pc[g]
  BY DEF OthersStand
<1>3. WalkInv'
  BY <1>1, <1>2 DEF WalkInv
<1>4. Apart'
  <2> SUFFICES ASSUME NEW a \in Handlers, NEW b \in Handlers, a # b, pc'[a] = "walk", pc'[b] = "walk"
               PROVE  Has(a)' \cap Has(b)' = {}
    BY DEF Apart
  <2>1. CASE a # h /\ b # h
    <3>1. Has(a)' = Has(a) /\ Has(b)' = Has(b) /\ pc[a] = "walk" /\ pc[b] = "walk"
      BY <1>1, <1>2, <2>1
    <3>2. QED
      BY <3>1 DEF NInv, Apart
  <2>2. CASE a = h \/ b = h
    <3>1. ASSUME NEW g \in Handlers \ {h}, pc'[g] = "walk", pc'[h] = "walk" PROVE Has(g)' \cap Has(h)' = {}
      BY <1>1, <1>2, <3>1
    <3>2. QED
      BY <2>2, <3>1
  <2>3. QED
    BY <2>1, <2>2
<1>5. QED
  BY <1>1, <1>3, <1>4

-----------------------------------------------------------------------------
(* The steps.                                                              *)

LEMMA NInitStep == Init => NInv
<1> SUFFICES ASSUME Init PROVE NInv
  OBVIOUS
<1>1. \A n \in Own : n \notin Others
  BY NblsAssumption
<1>2. TypeOK
  <2>1. memory \in SUBSET (Nbls \X Parts)
    BY DEF Init, Nbls
  <2>2. QED
    BY <2>1 DEF Init, TypeOK
<1>3. Acyclic
  <2>1. [n \in Nbls |-> 0] \in [Nbls -> Nat]
    OBVIOUS
  <2>2. \A n \in Nbls : next[n] = NULL
    BY DEF Init
  <2>3. QED
    BY <2>1, <2>2 DEF Acyclic
<1>4. MemoryInv
  BY <1>1 DEF Init, MemoryInv, Nbls
<1>5. WalkInv /\ Apart /\ AheadInv /\ GivenInv /\ RestReturned
  BY DEF Init, WalkInv, Apart, AheadInv, GivenInv, RestReturned, Nbls
<1>6. QED
  BY <1>2, <1>3, <1>4, <1>5 DEF NInv

\* What is on its way to NDIS is with no handler.
LEMMA HandlersHave ==
  ASSUME NInv, NEW h \in Handlers, pc[h] = "walk", NEW n \in Has(h)
  PROVE  n \in Nbls /\ holder[n] = "handler"
<1>1. PICK i \in Kept(chain[h], Place(h)) : n = chain[h][i]
  BY DEF Has
<1>2. holder[n] = "handler"
  BY <1>1 DEF NInv, WalkInv, Walk
<1>3. n \in Nbls
  BY <1>1, WalkPlace DEF NInv, WalkInv, Kept
<1>4. QED
  BY <1>2, <1>3

\* A way down or up disturbs no walk.
LEMMA WayOut ==
  ASSUME NInv, UNCHANGED <<next, pc, locals, given>>,
         \A n \in Nbls : holder'[n] = holder[n] \/ holder[n] = "owner"
  PROVE  WalkInv' /\ Apart' /\ GivenInv' /\ RestReturned' /\ Acyclic'
         /\ \A h \in Handlers : pc[h] = "walk" => Has(h)' = Has(h)
<1>1. UNCHANGED <<handler, header, current, previous, chain>>
  BY DEF locals
<1>2. \A h \in Handlers : pc[h] = "walk" =>
        ChainInv(h)' /\ Walk(h, chain[h], Place(h))' /\ Has(h)' = Has(h)
  BY <1>1, HandlersHave, OtherWalk
<1>3. WalkInv' /\ Apart'
  BY <1>1, <1>2 DEF NInv, WalkInv, Apart
<1>4. GivenInv' /\ RestReturned' /\ Acyclic'
  BY <1>1 DEF NInv, GivenInv, RestReturned, Acyclic
<1>5. QED
  BY <1>2, <1>3, <1>4

LEMMA HandToNdisStep ==
  ASSUME NInv, NEW n \in Nbls, HandToNdis(n)
  PROVE  NInv'
<1>1. /\ UNCHANGED <<next, pc, locals, given>> /\ n \in Own /\ holder[n] = "owner"
      /\ holder' = [holder EXCEPT ![n] = "NDIS"] /\ memory' = memory \cup ({n} \X Parts)
      /\ holder \in [Nbls -> {"owner", "NDIS", "handler"}]
  BY DEF HandToNdis, NInv, TypeOK
<1>2. /\ WalkInv' /\ Apart' /\ GivenInv' /\ RestReturned' /\ Acyclic'
      /\ \A h \in Handlers : pc[h] = "walk" => Has(h)' = Has(h)
  BY <1>1, WayOut
<1>3. TypeOK'
  BY <1>1 DEF NInv, TypeOK, locals
<1>4. MemoryInv'
  <2>1. \A m \in Nbls \ {n} : holder'[m] = holder[m] /\ \A part : <<m, part>> \in memory' <=> <<m, part>> \in memory
    BY <1>1
  <2>2. holder'[n] = "NDIS" /\ {n} \X Parts \subseteq memory'
    BY <1>1
  <2>3. Others \X Parts \subseteq memory'
    BY <1>1 DEF NInv, MemoryInv
  <2>4. ASSUME NEW m \in Own \ {n}
        PROVE  IF holder'[m] = "owner" THEN \A part \in Parts : <<m, part>> \notin memory'
               ELSE {m} \X Parts \subseteq memory'
    <3>1. m \in Nbls \ {n}
      BY DEF Nbls
    <3>2. QED
      BY <2>1, <3>1 DEF NInv, MemoryInv
  <2>5. QED
    BY <2>2, <2>3, <2>4 DEF MemoryInv
<1>5. AheadInv'
  <2>1. \A m \in Own : holder'[m] = "handler" => holder[m] = "handler"
    BY <1>1 DEF Nbls
  <2>2. QED
    BY <1>1, <1>2, <2>1 DEF NInv, AheadInv
<1>6. QED
  BY <1>2, <1>3, <1>4, <1>5 DEF NInv

LEMMA PassOnStep ==
  ASSUME NInv, NEW n \in Nbls, PassOn(n)
  PROVE  NInv'
<1>1. /\ UNCHANGED <<next, pc, locals, given, memory>> /\ n \in Others /\ holder[n] = "owner"
      /\ holder' = [holder EXCEPT ![n] = "NDIS"]
      /\ holder \in [Nbls -> {"owner", "NDIS", "handler"}]
  BY DEF PassOn, NInv, TypeOK
<1>2. /\ WalkInv' /\ Apart' /\ GivenInv' /\ RestReturned' /\ Acyclic'
      /\ \A h \in Handlers : pc[h] = "walk" => Has(h)' = Has(h)
  BY <1>1, WayOut
<1>3. TypeOK'
  BY <1>1 DEF NInv, TypeOK, locals
<1>4. \A m \in Own : holder'[m] = holder[m]
  BY <1>1, NblsAssumption DEF Nbls
<1>5. MemoryInv' /\ AheadInv'
  BY <1>1, <1>2, <1>4 DEF NInv, MemoryInv, AheadInv
<1>6. QED
  BY <1>2, <1>3, <1>5 DEF NInv

LEMMA RemoveOwnStep ==
  ASSUME NInv, NEW h \in Handlers, RemoveOwn(h)
  PROVE  NInv'
<1> DEFINE n == current[h]
<1>1. /\ pc[h] = "walk" /\ n \in Own /\ n \in Nbls /\ n \notin Others
      /\ memory' = memory \ ({n} \X Parts)
      /\ holder' = [holder EXCEPT ![n] = "owner"]
      /\ current' = [current EXCEPT ![h] = next[n]]
      /\ UNCHANGED <<pc, handler, argument, previous, chain, given>>
      /\ \A g \in Handlers \ {h} : header'[g] = header[g]
  BY NblsAssumption DEF RemoveOwn, FreeSingleNBL, Unlink, NInv, TypeOK, Nbls
<1>2. /\ ChainInv(h)' /\ Walk(h, chain[h], Place(h))'
      /\ Has(h)' = Has(h) \ {n} /\ n \in Has(h)
      /\ next'[n] = NULL
      /\ \A m \in Nbls \ {n} : \/ next'[m] = next[m]
                               \/ m \in Has(h) /\ next[m] = n /\ next'[m] = next[n]
  BY RemoveOwnWalk
<1>3. TypeOK'
  <2>1. /\ next' \in [Nbls -> Nbls \cup {NULL}] /\ header' \in [Handlers -> Nbls \cup {NULL}]
    <3>1. next \in [Nbls -> Nbls \cup {NULL}] /\ header \in [Handlers -> Nbls \cup {NULL}]
      BY DEF NInv, TypeOK
    <3>2. next[n] \in Nbls \cup {NULL} /\ Unlink(h, n)
      BY <1>1, <3>1 DEF RemoveOwn
    <3> HIDE DEF n
    <3>3. CASE n = header[h]
      BY <3>1, <3>2, <3>3 DEF Unlink
    <3>4. CASE n # header[h]
      BY <3>1, <3>2, <3>4 DEF Unlink
    <3>5. QED
      BY <3>3, <3>4
  <2>2. memory' \in SUBSET (Nbls \X Parts)
    BY <1>1 DEF NInv, TypeOK
  <2>3. current' \in [Handlers -> Nbls \cup {NULL}]
    BY <1>1 DEF NInv, TypeOK
  <2>4. QED
    BY <1>1, <2>1, <2>2, <2>3 DEF NInv, TypeOK
<1>4. \A g \in Handlers \ {h} : pc[g] = "walk" => Has(g) \cap Has(h) = {} /\ \A m \in Has(g) : m \in Nbls
  BY <1>1, HandlersHave DEF NInv, Apart
<1>5. OthersStand(h)
  <2>1. ASSUME NEW g \in Handlers \ {h}, pc[g] = "walk", NEW m \in Has(g)
        PROVE  next'[m] = next[m] /\ holder'[m] = holder[m]
    <3>1. m \in Nbls \ {n} /\ m \notin Has(h)
      BY <1>2, <1>4, <2>1
    <3>2. QED
      BY <1>1, <1>2, <3>1 DEF NInv, TypeOK
  <2>2. QED
    BY <1>1, <2>1 DEF OthersStand, NInv, TypeOK
<1>6. /\ WalkInv' /\ Apart'
      /\ \A g \in Handlers \ {h} : pc[g] = "walk" => pc'[g] = "walk" /\ Has(g)' = Has(g)
  BY <1>2, <1>4, <1>5, HandlerStep
<1>7. Acyclic'
  <2>1. PICK distance \in [Nbls -> Nat] :
          \A m \in Nbls : next[m] # NULL => distance[next[m]] < distance[m]
    BY DEF NInv, Acyclic
  <2>2. ASSUME NEW m \in Nbls, next'[m] # NULL PROVE distance[next'[m]] < distance[m]
    <3>1. m # n
      BY <1>2, <2>2
    <3>2. CASE next'[m] = next[m]
      BY <2>1, <2>2, <3>2
    <3>3. CASE next[m] = n /\ next'[m] = next[n]
      <4>1. n # NULL /\ next[n] \in Nbls
        BY <1>1, <2>2, <3>3, NblsAssumption DEF NInv, TypeOK
      <4>2. distance[n] < distance[m] /\ distance[next[n]] < distance[n]
        BY <1>1, <2>1, <2>2, <3>3, <4>1
      <4>3. distance[n] \in Nat /\ distance[m] \in Nat /\ distance[next[n]] \in Nat
        BY <1>1, <4>1
      <4>4. QED
        BY <3>3, <4>2, <4>3
    <3>4. QED
      BY <1>2, <3>1, <3>2, <3>3
  <2>3. QED
    BY <2>2 DEF Acyclic
<1>8. MemoryInv'
  <2>1. Others \X Parts \subseteq memory'
    BY <1>1 DEF NInv, MemoryInv
  <2>2. ASSUME NEW m \in Own \ {n}
        PROVE  IF holder'[m] = "owner" THEN \A part \in Parts : <<m, part>> \notin memory'
               ELSE {m} \X Parts \subseteq memory'
    <3>1. holder'[m] = holder[m] /\ \A part : <<m, part>> \in memory' <=> <<m, part>> \in memory
      BY <1>1 DEF NInv, TypeOK, Nbls
    <3>2. QED
      BY <3>1 DEF NInv, MemoryInv
  <2>3. holder'[n] = "owner" /\ \A part \in Parts : <<n, part>> \notin memory'
    BY <1>1 DEF NInv, TypeOK
  <2>4. QED
    BY <2>1, <2>2, <2>3 DEF MemoryInv
<1>9. AheadInv'
  <2>1. ASSUME NEW m \in Own, holder'[m] = "handler"
        PROVE  \E g \in Handlers : pc'[g] = "walk" /\ m \in Has(g)'
    <3>1. m # n /\ holder[m] = "handler"
      BY <1>1, <2>1 DEF NInv, TypeOK, Nbls
    <3>2. PICK g \in Handlers : pc[g] = "walk" /\ m \in Has(g)
      BY <3>1 DEF NInv, AheadInv
    <3>3. QED
      BY <1>1, <1>2, <1>6, <3>1, <3>2
  <2>2. QED
    BY <2>1 DEF AheadInv
<1>10. GivenInv' /\ RestReturned'
  BY <1>1 DEF NInv, GivenInv, RestReturned
<1>11. QED
  BY <1>3, <1>6, <1>7, <1>8, <1>9, <1>10 DEF NInv

LEMMA KeepOtherStep ==
  ASSUME NInv, NEW h \in Handlers, KeepOther(h)
  PROVE  NInv'
<1>1. /\ pc[h] = "walk" /\ current[h] \in Nbls
      /\ previous' = [previous EXCEPT ![h] = current[h]]
      /\ current' = [current EXCEPT ![h] = next[current[h]]]
      /\ UNCHANGED <<memory, holder, next, pc, handler, argument, header, chain, given>>
  BY DEF KeepOther, Nbls
<1>2. ChainInv(h)' /\ Walk(h, chain[h], Place(h))' /\ Has(h)' = Has(h)
  BY KeepOtherWalk
<1>3. TypeOK' /\ Acyclic' /\ MemoryInv' /\ GivenInv' /\ RestReturned'
  BY <1>1 DEF NInv, TypeOK, Acyclic, MemoryInv, GivenInv, RestReturned
<1>4. OthersStand(h)
  BY <1>1 DEF OthersStand, NInv, TypeOK
<1>5. /\ WalkInv' /\ Apart'
      /\ \A g \in Handlers \ {h} : pc[g] = "walk" => pc'[g] = "walk" /\ Has(g)' = Has(g)
  BY <1>1, <1>2, <1>4, HandlerStep DEF NInv, Apart
<1>6. AheadInv'
  <2>1. \A g \in Handlers : pc[g] = "walk" => pc'[g] = "walk" /\ Has(g)' = Has(g)
    BY <1>1, <1>2, <1>5
  <2>2. QED
    BY <1>1, <2>1 DEF NInv, AheadInv
<1>7. QED
  BY <1>3, <1>5, <1>6 DEF NInv

\* The walk has come to the end: what is left of the chain are the NBLs of others.
LEMMA AtTheEnd ==
  ASSUME NInv, NEW h \in Handlers, pc[h] = "walk", current[h] = NULL
  PROVE  /\ Has(h) = ToSet(chain[h]) \cap Others
         /\ header[h] = NULL => Has(h) = {}
         /\ header[h] # NULL => /\ header[h] \in Has(h)
                                /\ ChainFrom[header[h]] \in Seq(Nbls)
                                /\ ToSet(ChainFrom[header[h]]) = Has(h)
                                /\ IsRest(ChainFrom[header[h]], chain[h])
<1>1. PICK c : c = chain[h]
  OBVIOUS
<1>2. PICK k : k = Place(h)
  OBVIOUS
<1>3. ChainInv(h) /\ Walk(h, c, k) /\ IsChain(c)
  BY <1>1, <1>2 DEF NInv, WalkInv, ChainInv
<1>4. /\ c \in Seq(Nbls) /\ Len(c) \in Nat /\ DOMAIN c = 1..Len(c)
      /\ k \in 1..Len(c)+1 /\ NULL = At(c, k)
  BY <1>1, <1>2, <1>3, WalkPlace
<1>5. k = Len(c) + 1
  <2>1. k \notin DOMAIN c
    BY <1>4, PlaceTypes
  <2>2. QED
    BY <1>4, <2>1
<1>6. Kept(c, k) = {i \in 1..Len(c) : c[i] \in Others}
  BY <1>4, <1>5 DEF Kept
<1>7. Has(h) = {c[i] : i \in Kept(c, k)} /\ Has(h) = ToSet(c) \cap Others
  BY <1>1, <1>2, <1>4, <1>6 DEF Has, ToSet
<1>8. PICK j \in 1..Len(c)+1 : Follows(c, k, 0, j) /\ header[h] = At(c, j)
  BY <1>3 DEF Walk, LinksTo
<1>9. header[h] = NULL <=> j = Len(c) + 1
  BY <1>4, <1>8, PlaceTypes
<1>10. \A l \in Kept(c, k) : j <= l /\ l <= Len(c)
  BY <1>4, <1>6, <1>8 DEF Follows
<1>11. CASE header[h] = NULL
  <2>1. Kept(c, k) = {}
    BY <1>4, <1>6, <1>9, <1>10, <1>11
  <2>2. QED
    BY <1>1, <1>7, <1>11, <2>1
<1>12. CASE header[h] # NULL
  <2> DEFINE s == ChainFrom[header[h]]
  <2>1. j \in Kept(c, k)
    BY <1>8, <1>9, <1>12 DEF Follows
  <2>2. /\ s \in Seq(Nbls)
        /\ ToSet(s) = {c[l] : l \in {l \in Kept(c, k) : j <= l}}
        /\ \A a, b \in DOMAIN s : a < b => \E l, m \in DOMAIN c : l < m /\ c[l] = s[a] /\ c[m] = s[b]
    <3>1. TypeOK /\ Acyclic
      BY DEF NInv
    <3>2. GoesThrough(ChainFrom[At(c, j)], c, k, j)
      BY <1>3, <1>4, <2>1, <3>1, RestOfChain
    <3>3. QED
      BY <1>8, <3>2 DEF GoesThrough
  <2>3. {l \in Kept(c, k) : j <= l} = Kept(c, k)
    BY <1>10
  <2>4. ToSet(s) = Has(h)
    BY <1>7, <2>2, <2>3
  <2> HIDE DEF s
  <2>5. IsRest(s, c)
    BY <1>7, <2>2, <2>4 DEF IsRest
  <2>6. header[h] \in Has(h)
    BY <1>4, <1>6, <1>7, <1>8, <2>1 DEF At
  <2>7. QED
    BY <1>1, <1>7, <1>12, <2>2, <2>4, <2>5, <2>6 DEF s
<1>13. QED
  BY <1>11, <1>12

\* WPFilterSendToNICFinished gets no NBL of another today: the receive handlers copy
\* every packet (WPFilterReceiveFromNIC, WPFilterReceiveFromUpper).
NothingPassedDown == OthersNic = {}

LEMMA WalkEndsStep ==
  ASSUME NothingPassedDown, NInv, NEW h \in Handlers, WalkEnds(h)
  PROVE  NInv'
<1>1. /\ pc[h] = "walk" /\ current[h] = NULL /\ pc' = [pc EXCEPT ![h] = "return"]
      /\ UNCHANGED <<memory, next, handler, argument, header, current, previous, chain>>
  BY DEF WalkEnds, Goto, locals
<1>2. /\ Has(h) = ToSet(chain[h]) \cap Others
      /\ handler[h] = Nic => ToSet(chain[h]) \subseteq Own
      /\ handler[h] \in {Up, Nic} /\ given[h] = <<>>
  BY <1>1, AtTheEnd DEF NInv, WalkInv, ChainInv, TypeOK, GivenInv
<1>3. /\ given' \in [Handlers -> Seq(Nbls)]
      /\ \A g \in Handlers \ {h} : given'[g] = given[g]
      /\ holder' = [n \in Nbls |-> IF n \in Has(h) THEN "owner" ELSE holder[n]]
      /\ IsRest(given'[h], chain[h])
  <2>1. CASE header[h] = NULL
    <3>1. UNCHANGED <<given, holder>>
      BY <2>1 DEF WalkEnds
    <3>2. Has(h) = {} /\ IsRest(<<>>, chain[h])
      <4>1. Has(h) = {} /\ ToSet(chain[h]) \cap Others = {}
        BY <1>1, <1>2, <2>1, AtTheEnd
      <4>2. <<>> \in Seq(Nbls) /\ DOMAIN <<>> = {}
        OBVIOUS
      <4>3. ToSet(<<>>) = {}
        BY <4>2, Zenon DEF ToSet
      <4>4. QED
        BY <4>1, <4>2, <4>3, Zenon DEF IsRest
    <3>3. holder' = [n \in Nbls |-> holder[n]]
      BY <3>1 DEF NInv, TypeOK
    <3>4. QED
      BY <1>2, <3>1, <3>2, <3>3 DEF NInv, TypeOK
  <2>2. CASE header[h] # NULL
    <3> DEFINE s == ChainFrom[header[h]]
    <3>1. s \in Seq(Nbls) /\ ToSet(s) = Has(h) /\ IsRest(s, chain[h]) /\ header[h] \in Nbls
      BY <1>1, <2>2, AtTheEnd DEF NInv, TypeOK
    <3>2. handler[h] = Up
      <4>1. Has(h) # {}
        BY <1>1, <2>2, AtTheEnd
      <4>2. QED
        BY <1>2, <4>1, NblsAssumption
    <3>3. GiveBack(h, header[h])
      BY <2>2, <3>2 DEF WalkEnds
    <3>4. /\ given' = [given EXCEPT ![h] = s]
          /\ holder' = [m \in Nbls |-> IF m \in ToSet(s) THEN "owner" ELSE holder[m]]
      BY <3>3 DEF GiveBack
    <3> HIDE DEF s
    <3>5. QED
      BY <3>1, <3>4 DEF NInv, TypeOK
  <2>3. QED
    BY <2>1, <2>2
<1>4. TypeOK'
  BY <1>1, <1>3 DEF NInv, TypeOK
<1>5. \A g \in Handlers \ {h} : pc[g] = "walk" => Has(g) \cap Has(h) = {} /\ \A n \in Has(g) : n \in Nbls
  BY <1>1, HandlersHave DEF NInv, Apart
<1>6. OthersStand(h)
  <2>1. ASSUME NEW g \in Handlers \ {h}, pc[g] = "walk", NEW n \in Has(g)
        PROVE  next'[n] = next[n] /\ holder'[n] = holder[n]
    BY <1>1, <1>3, <1>5, <2>1
  <2>2. \A g \in Handlers \ {h} : pc'[g] = pc[g]
    BY <1>1 DEF NInv, TypeOK
  <2>3. QED
    BY <1>1, <1>3, <2>1, <2>2 DEF OthersStand
<1>7. pc'[h] = "return"
  BY <1>1 DEF NInv, TypeOK
<1>8. /\ WalkInv' /\ Apart'
      /\ \A g \in Handlers \ {h} : pc[g] = "walk" => pc'[g] = "walk" /\ Has(g)' = Has(g)
  BY <1>6, <1>7, HandlerStep
<1>9. Acyclic'
  BY <1>1 DEF NInv, Acyclic
<1>10. \A n \in Own : n \notin Has(h) /\ holder'[n] = holder[n]
  BY <1>2, <1>3, NblsAssumption DEF Nbls
<1>11. MemoryInv'
  BY <1>1, <1>10 DEF NInv, MemoryInv
<1>12. AheadInv'
  <2>1. ASSUME NEW n \in Own, holder'[n] = "handler"
        PROVE  \E g \in Handlers : pc'[g] = "walk" /\ n \in Has(g)'
    <3>1. PICK g \in Handlers : pc[g] = "walk" /\ n \in Has(g)
      BY <1>10, <2>1 DEF NInv, AheadInv
    <3>2. g # h
      BY <1>10, <3>1
    <3>3. QED
      BY <1>8, <3>1, <3>2
  <2>2. QED
    BY <2>1 DEF AheadInv
<1>13. GivenInv'
  BY <1>1, <1>3 DEF NInv, TypeOK, GivenInv
<1>14. RestReturned'
  <2>1. ASSUME NEW g \in Handlers, pc'[g] = "return", handler[g] = Up \/ ToSet(chain[g]) \cap Others = {}
        PROVE  IsRest(given'[g], chain[g])
    <3>1. CASE g = h
      BY <1>3, <3>1
    <3>2. CASE g # h
      BY <1>1, <1>3, <2>1, <3>2 DEF NInv, TypeOK, RestReturned
    <3>3. QED
      BY <3>1, <3>2
  <2>2. QED
    BY <1>1, <2>1 DEF RestReturned
<1>15. QED
  BY <1>4, <1>8, <1>9, <1>11, <1>12, <1>13, <1>14 DEF NInv

LEMMA ReturnStep ==
  ASSUME NInv, NEW h \in Handlers, Return(h)
  PROVE  NInv'
<1>1. /\ pc[h] = "return" /\ pc' = [pc EXCEPT ![h] = "idle"]
      /\ argument' = [argument EXCEPT ![h] = NULL] /\ header' = [header EXCEPT ![h] = NULL]
      /\ previous' = [previous EXCEPT ![h] = NULL] /\ chain' = [chain EXCEPT ![h] = <<>>]
      /\ given' = [given EXCEPT ![h] = <<>>]
      /\ UNCHANGED <<memory, holder, next, handler, current>>
  BY DEF Return, Goto
<1>2. TypeOK'
  <2>1. <<>> \in Seq(Nbls)
    OBVIOUS
  <2>2. QED
    BY <1>1, <2>1 DEF NInv, TypeOK
<1>3. pc'[h] = "idle" /\ OthersStand(h)
  BY <1>1 DEF OthersStand, NInv, TypeOK
<1>4. /\ WalkInv' /\ Apart'
      /\ \A g \in Handlers \ {h} : pc[g] = "walk" => pc'[g] = "walk" /\ Has(g)' = Has(g)
  BY <1>3, HandlerStep
<1>5. Acyclic' /\ MemoryInv'
  BY <1>1 DEF NInv, Acyclic, MemoryInv
<1>6. AheadInv'
  BY <1>1, <1>4 DEF NInv, AheadInv
<1>7. GivenInv' /\ RestReturned'
  BY <1>1 DEF NInv, TypeOK, GivenInv, RestReturned
<1>8. QED
  BY <1>2, <1>4, <1>5, <1>6, <1>7 DEF NInv

\* NDIS gives a handler NBLs that are with it, each of them once.
LEMMA NdisChains ==
  ASSUME NothingPassedDown, TypeOK, NEW f \in {Up, Nic}, NEW c \in Chains(f)
  PROVE  /\ IsChain(c) /\ Len(c) \in Nat \ {0}
         /\ \A n \in ToSet(c) : holder[n] = "NDIS"
         /\ f = Nic => ToSet(c) \subseteq Own
<1> DEFINE passed == Own \cup (IF f = Up THEN OthersUp ELSE OthersNic)
<1>1. passed \subseteq Nbls /\ (f = Nic => passed = Own)
  BY DEF Nbls, Others, NothingPassedDown, Up, Nic
<1>2. PICK ns : /\ ns \subseteq passed /\ ns # {} /\ c \in SetToSeqs(ns)
                /\ \A n \in ns : holder[n] = "NDIS"
  <2>1. PICK ns \in (SUBSET {n \in passed : holder[n] = "NDIS"}) \ {{}} : c \in SetToSeqs(ns)
    BY DEF Chains
  <2> HIDE DEF passed
  <2>2. ns # {} /\ \A n \in ns : n \in passed /\ holder[n] = "NDIS"
    OBVIOUS
  <2>3. QED
    BY <2>1, <2>2
<1> HIDE DEF passed
<1>3. PICK m : m = Cardinality(ns)
  OBVIOUS
<1>4. m \in Nat /\ m # 0
  <2>1. ns \subseteq Nbls /\ ns # {}
    BY <1>1, <1>2
  <2>2. IsFiniteSet(ns)
    BY <2>1, FS_Subset, NblsAssumption
  <2>3. QED
    BY <1>3, <2>1, <2>2, FS_CardinalityType, FS_EmptySet
<1>5. c \in [1..m -> ns] /\ \A i, j \in 1..m : i # j => c[i] # c[j]
  BY <1>2, <1>3 DEF SetToSeqs
<1>6. c \in Seq(Nbls) /\ Len(c) = m /\ DOMAIN c = 1..m
  BY <1>1, <1>2, <1>4, <1>5
<1>7. ToSet(c) \subseteq ns
  BY <1>5 DEF ToSet
<1>8. QED
  BY <1>1, <1>2, <1>4, <1>5, <1>6, <1>7 DEF IsChain

LEMMA FinishedStep ==
  ASSUME NothingPassedDown, NInv, NEW h \in Handlers, NEW f \in {Up, Nic}, NEW c \in Chains(f),
         Finished(h, f, c)
  PROVE  NInv'
<1>1. /\ c \in Seq(Nbls) /\ IsChain(c) /\ Len(c) \in Nat \ {0} /\ DOMAIN c = 1..Len(c)
      /\ \A n \in ToSet(c) : holder[n] = "NDIS"
      /\ f = Nic => ToSet(c) \subseteq Own
      /\ \A i \in 1..Len(c) : c[i] \in Nbls /\ c[i] \in ToSet(c)
      /\ \A n \in ToSet(c) : \E i \in 1..Len(c) : n = c[i]
  BY NdisChains DEF NInv, IsChain, ToSet
<1>2. /\ pc[h] = "idle" /\ pc' = [pc EXCEPT ![h] = "walk"]
      /\ holder' = [n \in Nbls |-> IF n \in ToSet(c) THEN "handler" ELSE holder[n]]
      /\ handler' = [handler EXCEPT ![h] = f] /\ argument' = [argument EXCEPT ![h] = c[1]]
      /\ header' = [header EXCEPT ![h] = c[1]] /\ current' = [current EXCEPT ![h] = c[1]]
      /\ previous' = [previous EXCEPT ![h] = NULL] /\ chain' = [chain EXCEPT ![h] = c]
      /\ UNCHANGED <<memory, given>>
  BY DEF Finished, Goto
<1>3. /\ next' \in [Nbls -> Nbls \cup {NULL}]
      /\ \A n \in Nbls \ ToSet(c) : next'[n] = next[n]
      /\ \A i \in 1..Len(c) : next'[c[i]] = At(c, i + 1)
  <2> DEFINE at(n) == CHOOSE i \in DOMAIN c : c[i] = n
  <2>1. \A i \in DOMAIN c : at(c[i]) = i
    BY <1>1 DEF IsChain
  <2>2. next' = [n \in Nbls |-> IF n \notin ToSet(c) THEN next[n]
                               ELSE IF at(n) = Len(c) THEN NULL ELSE c[at(n) + 1]]
    BY DEF Finished
  <2> HIDE DEF at
  <2>3. \A i \in 1..Len(c) : next'[c[i]] = At(c, i + 1) /\ At(c, i + 1) \in Nbls \cup {NULL}
    <3> TAKE i \in 1..Len(c)
    <3>1. next'[c[i]] = IF i = Len(c) THEN NULL ELSE c[i + 1]
      BY <1>1, <2>1, <2>2
    <3>2. i + 1 \in 1..Len(c) <=> i # Len(c)
      BY <1>1
    <3>3. QED
      BY <1>1, <3>1, <3>2 DEF At
  <2>4. \A n \in Nbls \ ToSet(c) : next'[n] = next[n]
    BY <2>2
  <2>5. \A n \in Nbls : next'[n] \in Nbls \cup {NULL}
    <3> TAKE n \in Nbls
    <3>1. CASE n \in ToSet(c)
      BY <1>1, <2>3, <3>1
    <3>2. CASE n \notin ToSet(c)
      <4>1. next'[n] = next[n]
        BY <2>4, <3>2
      <4>2. QED
        BY <4>1 DEF NInv, TypeOK
    <3>3. QED
      BY <3>1, <3>2
  <2>6. next' = [n \in Nbls |-> next'[n]]
    BY <2>2
  <2>7. QED
    BY <2>3, <2>4, <2>5, <2>6
<1>4. TypeOK'
  BY <1>1, <1>2, <1>3 DEF NInv, TypeOK
<1>5. pc'[h] = "walk" /\ chain'[h] = c /\ handler'[h] = f /\ header'[h] = c[1] /\ current'[h] = c[1]
  BY <1>2 DEF NInv, TypeOK
<1>6. c[1] = At(c, 1) /\ 1 \in 1..Len(c)+1
  BY <1>1 DEF At
<1>7. Place(h)' = 1
  BY <1>1, <1>5, <1>6, PlaceIsWhere DEF Place
<1>8. ChainInv(h)'
  BY <1>1, <1>5, <1>6 DEF ChainInv
<1>9. Kept(c, 1) = 1..Len(c)
  BY <1>1 DEF Kept
<1>10. Has(h)' = ToSet(c)
  BY <1>1, <1>5, <1>7, <1>9 DEF Has, ToSet
<1>11. Walk(h, chain[h], Place(h))'
  <2>1. \A i \in 0..Len(c) : i + 1 \in 1..Len(c)+1 /\ Follows(c, 1, i, i + 1)
    <3> TAKE i \in 0..Len(c)
    <3>1. i + 1 \in 1..Len(c) \cup {Len(c) + 1} /\ i + 1 \in 1..Len(c)+1 /\ i < i + 1
      BY <1>1
    <3>2. \A l \in 1..Len(c) : l <= i \/ i + 1 <= l
      BY <1>1
    <3>3. QED
      BY <1>9, <3>1, <3>2 DEF Follows
  <2>2. \A i \in 0..Len(c) : LinksTo(c, 1, i, At(c, i + 1))
    BY <2>1 DEF LinksTo
  <2>3. LinksTo(c, 1, 0, header'[h])
    <3>1. 0 \in 0..Len(c) /\ 0 + 1 = 1
      BY <1>1
    <3>2. QED
      BY <1>5, <1>6, <2>2, <3>1
  <2>4. \A i \in 1..Len(c) : LinksTo(c, 1, i, next'[c[i]]) /\ holder'[c[i]] = "handler"
    BY <1>1, <1>2, <1>3, <2>2
  <2>5. Kept(c, 1) \cap 1..1-1 = {}
    BY <1>1
  <2>6. Walk(h, c, 1)'
    BY <1>9, <2>3, <2>4, <2>5 DEF Walk
  <2>7. QED
    BY <1>5, <1>7, <2>6
<1>12. ASSUME NEW g \in Handlers, pc[g] = "walk"
       PROVE  g # h /\ Has(g) \cap ToSet(c) = {} /\ \A n \in Has(g) : n \in Nbls
  <2>1. \A n \in Has(g) : n \in Nbls /\ holder[n] = "handler"
    BY <1>12, HandlersHave
  <2>2. QED
    BY <1>1, <1>2, <1>12, <2>1
<1>13. OthersStand(h)
  <2>1. ASSUME NEW g \in Handlers \ {h}, pc[g] = "walk", NEW n \in Has(g)
        PROVE  next'[n] = next[n] /\ holder'[n] = holder[n]
    <3>1. n \in Nbls \ ToSet(c)
      BY <1>12, <2>1
    <3>2. QED
      BY <1>2, <1>3, <3>1
  <2>2. ASSUME NEW g \in Handlers \ {h}
        PROVE  /\ pc'[g] = pc[g] /\ handler'[g] = handler[g] /\ header'[g] = header[g] /\ given'[g] = given[g]
               /\ current'[g] = current[g] /\ previous'[g] = previous[g] /\ chain'[g] = chain[g]
    BY <1>2 DEF NInv, TypeOK
  <2>3. QED
    BY <2>1, <2>2 DEF OthersStand
<1>14. /\ WalkInv' /\ Apart'
       /\ \A g \in Handlers \ {h} : pc[g] = "walk" => pc'[g] = "walk" /\ Has(g)' = Has(g)
  BY <1>8, <1>10, <1>11, <1>12, <1>13, HandlerStep
<1>15. Acyclic'
  <2>1. PICK distance \in [Nbls -> Nat] :
          \A m \in Nbls : next[m] # NULL => distance[next[m]] < distance[m]
    BY DEF NInv, Acyclic
  <2>2. PICK at \in [ToSet(c) -> 1..Len(c)] : \A i \in 1..Len(c) : at[c[i]] = i
    <3> DEFINE at == [n \in ToSet(c) |-> CHOOSE i \in 1..Len(c) : n = c[i]]
    <3>1. at \in [ToSet(c) -> 1..Len(c)]
      BY <1>1
    <3>2. \A i \in 1..Len(c) : at[c[i]] = i
      BY <1>1 DEF IsChain
    <3>3. QED
      BY <3>1, <3>2
  <2> DEFINE toEnd == [n \in Nbls |-> IF n \in ToSet(c) THEN Len(c) - at[n] ELSE distance[n] + Len(c)]
  <2>3. toEnd \in [Nbls -> Nat]
    <3>1. \A n \in ToSet(c) : Len(c) - at[n] \in Nat
      BY <1>1
    <3>2. \A n \in Nbls : distance[n] + Len(c) \in Nat
      BY <1>1
    <3>3. QED
      BY <3>1, <3>2
  <2>4. ASSUME NEW n \in Nbls, next'[n] # NULL PROVE toEnd[next'[n]] < toEnd[n]
    <3>1. CASE n \in ToSet(c)
      <4>1. PICK i \in 1..Len(c) : n = c[i]
        BY <1>1, <3>1
      <4>2. next'[n] = At(c, i + 1) /\ i + 1 \in 1..Len(c) /\ next'[n] = c[i + 1]
        BY <1>1, <1>3, <2>4, <4>1 DEF At
      <4>3. toEnd[n] = Len(c) - i /\ toEnd[next'[n]] = Len(c) - (i + 1)
        BY <1>1, <2>2, <3>1, <4>1, <4>2
      <4>4. QED
        BY <1>1, <4>3
    <3>2. CASE n \notin ToSet(c)
      <4>1. next'[n] = next[n] /\ next[n] \in Nbls /\ toEnd[n] = distance[n] + Len(c)
        BY <1>3, <2>4, <3>2 DEF NInv, TypeOK
      <4>2. distance[next[n]] < distance[n] /\ distance[n] \in Nat /\ distance[next[n]] \in Nat
        BY <2>1, <2>4, <4>1
      <4>3. CASE next[n] \in ToSet(c)
        <5>1. toEnd[next[n]] = Len(c) - at[next[n]] /\ at[next[n]] \in 1..Len(c)
          BY <4>1, <4>3
        <5>2. QED
          BY <1>1, <4>1, <4>2, <5>1
      <4>4. CASE next[n] \notin ToSet(c)
        <5>1. toEnd[next[n]] = distance[next[n]] + Len(c)
          BY <4>1, <4>4
        <5>2. QED
          BY <1>1, <4>1, <4>2, <5>1
      <4>5. QED
        BY <4>3, <4>4
    <3>3. QED
      BY <3>1, <3>2
  <2>5. QED
    BY <2>3, <2>4 DEF Acyclic
<1>16. MemoryInv'
  <2>1. \A n \in Own : holder'[n] = "owner" <=> holder[n] = "owner"
    BY <1>1, <1>2 DEF Nbls
  <2>2. QED
    BY <1>2, <2>1 DEF NInv, MemoryInv
<1>17. AheadInv'
  <2>1. ASSUME NEW n \in Own, holder'[n] = "handler"
        PROVE  \E g \in Handlers : pc'[g] = "walk" /\ n \in Has(g)'
    <3>1. CASE n \in ToSet(c)
      BY <1>5, <1>10, <3>1
    <3>2. CASE n \notin ToSet(c)
      <4>1. holder[n] = "handler"
        BY <1>2, <2>1, <3>2 DEF Nbls
      <4>2. PICK g \in Handlers : pc[g] = "walk" /\ n \in Has(g)
        BY <4>1 DEF NInv, AheadInv
      <4>3. g # h
        BY <1>12, <4>2
      <4>4. QED
        BY <1>14, <4>2, <4>3
    <3>3. QED
      BY <3>1, <3>2
  <2>2. QED
    BY <2>1 DEF AheadInv
<1>18. GivenInv'
  BY <1>2 DEF NInv, TypeOK, GivenInv
<1>19. RestReturned'
  <2>1. \A g \in Handlers : pc'[g] = "return" =>
          g # h /\ pc[g] = "return" /\ handler'[g] = handler[g] /\ chain'[g] = chain[g] /\ given'[g] = given[g]
    BY <1>2 DEF NInv, TypeOK
  <2>2. QED
    BY <2>1 DEF NInv, RestReturned
<1>20. QED
  BY <1>4, <1>14, <1>15, <1>16, <1>17, <1>18, <1>19 DEF NInv

LEMMA NNextStep ==
  ASSUME NothingPassedDown, NInv, [Next]_vars
  PROVE  NInv'
<1>1. CASE UNCHANGED vars
  <2>1. UNCHANGED <<memory, holder, next, pc, handler, argument, header, current, previous, chain, given>>
    BY <1>1 DEF vars, locals
  <2>2. TypeOK' /\ Acyclic' /\ MemoryInv' /\ GivenInv' /\ RestReturned'
    BY <2>1 DEF NInv, TypeOK, Acyclic, MemoryInv, GivenInv, RestReturned
  <2>3. \A h \in Handlers : Place(h)' = Place(h) /\ Has(h)' = Has(h) /\ (ChainInv(h)' <=> ChainInv(h))
    BY <2>1 DEF Place, Has, ChainInv
  <2>4. WalkInv' /\ Apart' /\ AheadInv'
    BY <2>1, <2>3 DEF NInv, WalkInv, Walk, Apart, AheadInv
  <2>5. QED
    BY <2>2, <2>4 DEF NInv
<1>2. CASE Next
  <2>1. CASE \E n \in Nbls : HandToNdis(n) \/ PassOn(n)
    BY <2>1, HandToNdisStep, PassOnStep
  <2>2. CASE \E h \in Handlers : \E f \in {Up, Nic} : \E c \in Chains(f) : Finished(h, f, c)
    BY <2>2, FinishedStep
  <2>3. CASE \E h \in Handlers : RemoveOwn(h) \/ KeepOther(h) \/ WalkEnds(h) \/ Return(h)
    BY <2>3, RemoveOwnStep, KeepOtherStep, WalkEndsStep, ReturnStep
  <2>4. QED
    BY <1>2, <2>1, <2>2, <2>3 DEF Next
<1>3. QED
  BY <1>1, <1>2

\* What a walk can reach from its pointers is what the handler has, and what it has of
\* the driver is ahead of it.
LEMMA AheadIsHad ==
  ASSUME NInv, NEW h \in Handlers, pc[h] = "walk"
  PROVE  /\ ToSet(ChainFrom[header[h]]) \cup ToSet(ChainFrom[current[h]]) \subseteq Has(h)
         /\ Has(h) \cap Own \subseteq ToSet(ChainFrom[current[h]])
<1>1. PICK c : c = chain[h]
  OBVIOUS
<1>2. PICK k : k = Place(h)
  OBVIOUS
<1>3. TypeOK /\ Acyclic /\ ChainInv(h) /\ Walk(h, c, k) /\ IsChain(c)
  BY <1>1, <1>2 DEF NInv, WalkInv, ChainInv
<1>4. /\ c \in Seq(Nbls) /\ Len(c) \in Nat /\ DOMAIN c = 1..Len(c)
      /\ k \in 1..Len(c)+1 /\ current[h] = At(c, k)
  BY <1>1, <1>2, <1>3, WalkPlace
<1>5. Has(h) = {c[i] : i \in Kept(c, k)}
  BY <1>1, <1>2 DEF Has
<1>6. \A i \in Kept(c, k) \cup {Len(c) + 1} :
        ToSet(ChainFrom[At(c, i)]) = {c[j] : j \in {j \in Kept(c, k) : i <= j}}
  <2> TAKE i \in Kept(c, k) \cup {Len(c) + 1}
  <2>1. GoesThrough(ChainFrom[At(c, i)], c, k, i)
    BY <1>3, <1>4, RestOfChain
  <2>2. QED
    BY <2>1 DEF GoesThrough
<1>7. PICK j \in Kept(c, k) \cup {Len(c) + 1} : header[h] = At(c, j)
  BY <1>3 DEF Walk, LinksTo, Follows
<1>8. k \in Kept(c, k) \cup {Len(c) + 1}
  BY <1>4 DEF Kept
<1>9. ToSet(ChainFrom[header[h]]) \subseteq Has(h)
  <2>1. ToSet(ChainFrom[At(c, j)]) = {c[l] : l \in {l \in Kept(c, k) : j <= l}}
    BY <1>6, <1>7
  <2>2. QED
    BY <1>5, <1>7, <2>1
<1>10. ToSet(ChainFrom[current[h]]) = {c[i] : i \in {i \in Kept(c, k) : k <= i}}
  BY <1>4, <1>6, <1>8
<1>11. \A i \in Kept(c, k) : c[i] \in Own => k <= i
  BY <1>4, NblsAssumption DEF Kept
<1>12. QED
  BY <1>5, <1>9, <1>10, <1>11

-----------------------------------------------------------------------------

\* The conjunction is an invariant: at every step of a walk what the handler has is
\* linked in the order of the chain it was given, the pointers of the walk stand where
\* they should, and no other handler has any of it.
THEOREM ChainsStayLinked == ASSUME NothingPassedDown PROVE Spec => []NInv
<1>1. NInv /\ [Next]_vars => NInv'
  BY NNextStep
<1>2. QED
  BY NInitStep, <1>1, PTL DEF Spec

\* Every variable has its type, for any NBLs and handlers.
THEOREM TypeCorrect == ASSUME NothingPassedDown PROVE Spec => []TypeOK
<1>1. NInv => TypeOK
  BY DEF NInv
<1>2. QED
  BY ChainsStayLinked, <1>1, PTL

\* What is ahead of a walk, and the whole of what is left of its chain, is in memory:
\* RemoveNBLsAllocatedByFilterFromNBLChain follows no link into what FreeSingleNBL has
\* freed.
THEOREM WalkIsSafe == ASSUME NothingPassedDown PROVE Spec => []WalkPointersLive
<1>1. ASSUME NInv PROVE WalkPointersLive
  <2> SUFFICES ASSUME NEW h \in Handlers, pc[h] = "walk",
                      NEW n \in ToSet(ChainFrom[header[h]]) \cup ToSet(ChainFrom[current[h]])
               PROVE  {n} \X Parts \subseteq memory
    BY DEF WalkPointersLive
  <2>1. n \in Has(h)
    BY <1>1, AheadIsHad
  <2>2. n \in Nbls /\ holder[n] = "handler"
    BY <1>1, <2>1, HandlersHave
  <2>3. QED
    BY <1>1, <2>2 DEF NInv, MemoryInv, Nbls
<1>2. QED
  BY ChainsStayLinked, <1>1, PTL

\* FreeSingleNBL is called for the NBLs of the driver, for all of them, and for no
\* other.
THEOREM OwnIsFreed == ASSUME NothingPassedDown PROVE Spec => []OwnFreed
<1>1. ASSUME NInv PROVE OwnFreed
  <2>1. ASSUME NEW n \in Own, holder[n] = "handler"
        PROVE  \E h \in Handlers : pc[h] = "walk" /\ n \in ToSet(ChainFrom[current[h]])
    <3>1. PICK h \in Handlers : pc[h] = "walk" /\ n \in Has(h)
      BY <1>1, <2>1 DEF NInv, AheadInv
    <3>2. QED
      BY <1>1, <3>1, AheadIsHad
  <2>2. QED
    BY <1>1, <2>1 DEF NInv, MemoryInv, OwnFreed
<1>2. QED
  BY ChainsStayLinked, <1>1, PTL

\* WPFilterSendToUpperFinished and WPFilterSendToNICFinished give back the NBLs of others,
\* all of them and in their order.
THEOREM RestIsReturned == ASSUME NothingPassedDown PROVE Spec => []RestReturned
<1>1. NInv => RestReturned
  BY DEF NInv
<1>2. QED
  BY ChainsStayLinked, <1>1, PTL
=============================================================================
