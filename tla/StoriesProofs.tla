---------------------------- MODULE StoriesProofs ----------------------------
(***************************************************************************)
(* Proofs about stories: what End() makes of every graph, however many     *)
(* nodes and links it has, and the arguments of every story's parts,       *)
(* however many parts and adapters it has.                                 *)
(***************************************************************************)
EXTENDS Fairytale, WellFoundedInduction, FiniteSetTheorems, TLAPS

-----------------------------------------------------------------------------
(* Facts about numbers and stories.                                        *)

LEMMA LeastIn ==
  ASSUME NEW S, S \subseteq Nat, S # {}
  PROVE  \E n \in S : \A k \in S : n <= k
<1> DEFINE R == {ss \in Nat \X Nat : ss[1] < ss[2]}
<1>1. IsWellFoundedOn(R, Nat)
  BY NatLessThanWellFounded DEF OpToRel
<1> HIDE DEF R
<1>2. PICK x \in S : \A y \in S : <<y, x>> \notin R
  BY <1>1, WFMin
<1>3. \A y \in S : ~ y < x
  BY <1>2 DEF R
<1>4. QED
  BY <1>3

(* Nothing maps a finite set into itself, injectively, and misses a member. *)
LEMMA NoneMissed ==
  ASSUME NEW S, IsFiniteSet(S), NEW a \in S, NEW f \in [S -> S],
         \A x \in S : f[x] # a,
         \A x, y \in S : f[x] = f[y] => x = y
  PROVE  FALSE
<1>1. f \in [S -> S \ {a}]
  OBVIOUS
<1>2. IsFiniteSet(S \ {a}) /\ Cardinality(S \ {a}) = Cardinality(S) - 1
  BY FS_RemoveElement
<1>3. Cardinality(S) \in Nat
  BY FS_CardinalityType
<1>4. Cardinality(S \ {a}) < Cardinality(S)
  BY <1>2, <1>3
<1>5. QED
  BY <1>1, <1>2, <1>4, FS_PigeonHole

LEMMA StoryFacts ==
  ASSUME story \in Stories, NEW p \in Parts
  PROVE  /\ Prev(p) \in Seq(Parts)
         /\ \A i, k \in DOMAIN Prev(p) : Prev(p)[i] = Prev(p)[k] => i = k
         /\ Reqs(p) \in Seq(ToSet(Reqs(p)))
         /\ Adapter(IdEnd) = EndName
  BY WiringAssumption DEF Prev, Reqs, Adapter, Parts

Places(p) == DOMAIN Data(p)

(* The data of a part comes from its Prev, each of them once.              *)
LEMMA DataOfPrev ==
  ASSUME story \in Stories, NEW p \in Parts \ {IdStart}
  PROVE  /\ Places(p) = 1 .. Len(Prev(p))
         /\ \A i \in Places(p) :
              /\ Data(p)[i].from = Prev(p)[i]
              /\ Data(p)[i].type = story.type[Adapter(Prev(p)[i])]
              /\ Prev(p)[i] \in ToSet(Prev(p)) /\ Prev(p)[i] \in Parts
<1>1. Prev(p) \in Seq(Parts)
  BY StoryFacts
<1>2. DOMAIN Prev(p) = 1 .. Len(Prev(p))
  BY <1>1
<1>3. Data(p) = [i \in DOMAIN Prev(p) |->
                   [type |-> story.type[Adapter(Prev(p)[i])], from |-> Prev(p)[i]]]
  BY DEF Data
<1>4. \A i \in DOMAIN Prev(p) : Prev(p)[i] \in ToSet(Prev(p)) /\ Prev(p)[i] \in Parts
  BY <1>1, <1>2 DEF ToSet
<1>5. Places(p) = DOMAIN Prev(p)
  BY <1>3 DEF Places
<1>6. QED
  BY <1>2, <1>3, <1>4, <1>5

LEMMA DataDistinct ==
  ASSUME story \in Stories, NEW p \in Parts
  PROVE  /\ IsFiniteSet(Places(p)) /\ Places(p) \subseteq Nat
         /\ \A i \in Places(p) : Data(p)[i].from \in Parts
         /\ \A i, k \in Places(p) : Data(p)[i].from = Data(p)[k].from => i = k
<1>1. CASE p = IdStart
  <2>1. Data(p) = << [type |-> story.type[StartName], from |-> IdStart] >>
    BY <1>1 DEF Data
  <2>2. Places(p) = {1}
    BY <2>1 DEF Places
  <2>3. Data(p)[1].from = p
    BY <1>1, <2>1
  <2>4. IsFiniteSet({1})
    BY FS_Singleton
  <2>5. QED
    BY <2>2, <2>3, <2>4
<1>2. CASE p # IdStart
  <2>1. Len(Prev(p)) \in Nat
    BY StoryFacts
  <2> DEFINE n == Len(Prev(p))
  <2>5. IsFiniteSet(1 .. n)
    BY <2>1, FS_Interval
  <2>2. IsFiniteSet(Places(p)) /\ Places(p) \subseteq Nat
    BY <1>2, <2>5, DataOfPrev
  <2>3. DOMAIN Prev(p) = 1 .. Len(Prev(p))
    BY StoryFacts
  <2>4. QED
    BY <1>2, <2>2, <2>3, DataOfPrev, StoryFacts
<1>3. QED
  BY <1>1, <1>2

-----------------------------------------------------------------------------
(* The function Match computes, and what it has handed out after each      *)
(* requirement.                                                            *)

IsTaken(p, n, g) ==
  g = [j \in 0 .. n |-> IF j = 0 THEN Nothing ELSE Take(p, g[j-1], j)]

LEMMA TakenExists ==
  ASSUME NEW p, NEW n \in Nat
  PROVE  \E g : IsTaken(p, n, g)
<1> DEFINE Bad == {k \in Nat : ~ \E g : IsTaken(p, k, g)}
<1> SUFFICES ASSUME Bad # {} PROVE FALSE
  OBVIOUS
<1>1. PICK k \in Bad : \A l \in Bad : k <= l
  BY LeastIn
<1>2. CASE k = 0
  <2> DEFINE h == [j \in 0 .. 0 |-> Nothing]
  <2>1. \A j \in 0 .. 0 : j = 0
    OBVIOUS
  <2>2. IsTaken(p, 0, h)
    BY <2>1 DEF IsTaken
  <2>3. QED
    BY <1>1, <1>2, <2>2
<1>3. CASE k # 0
  <2>1. k \in Nat /\ k - 1 \in Nat /\ ~ k <= k - 1
    BY <1>1, <1>3
  <2>2. k - 1 \notin Bad
    BY <1>1, <2>1
  <2>3. PICK g : IsTaken(p, k - 1, g)
    BY <2>1, <2>2
  <2> DEFINE h == [j \in 0 .. k |-> IF j = k THEN Take(p, g[k-1], k) ELSE g[j]]
  <2>4. \A j \in 0 .. k : j # k => j \in 0 .. k - 1
    BY <2>1
  <2>5. \A j \in 0 .. k : j # 0 => j - 1 \in 0 .. k /\ j - 1 # k
    BY <2>1
  <2>6. \A j \in 0 .. k : j # 0 => h[j-1] = g[j-1]
    BY <2>5
  <2>7. \A j \in 0 .. k - 1 : g[j] = IF j = 0 THEN Nothing ELSE Take(p, g[j-1], j)
    BY <2>3 DEF IsTaken
  <2>8. \A j \in 0 .. k : h[j] = IF j = 0 THEN Nothing ELSE Take(p, h[j-1], j)
    BY <1>3, <2>1, <2>4, <2>6, <2>7
  <2>9. IsTaken(p, k, h)
    BY <2>8 DEF IsTaken
  <2>10. QED
    BY <1>1, <2>9
<1>4. QED
  BY <1>2, <1>3

LEMMA MatchIsTaken ==
  ASSUME NEW p, Len(Reqs(p)) \in Nat
  PROVE  \E g : IsTaken(p, Len(Reqs(p)), g) /\ Match(p) = g[Len(Reqs(p))]
<1> DEFINE n == Len(Reqs(p))
           c == CHOOSE g : g = [j \in 0 .. n |->
                                  IF j = 0 THEN Nothing ELSE Take(p, g[j-1], j)]
<1>1. \E g : g = [j \in 0 .. n |-> IF j = 0 THEN Nothing ELSE Take(p, g[j-1], j)]
  BY TakenExists DEF IsTaken
<1>2. c = [j \in 0 .. n |-> IF j = 0 THEN Nothing ELSE Take(p, c[j-1], j)]
  BY <1>1
<1>3. Match(p) = c[n]
  BY DEF Match
<1> HIDE DEF c
<1>4. QED
  BY <1>2, <1>3 DEF IsTaken

Handout(p) ==
  [used : SUBSET Places(p), args : Seq(Parts \cup {NilType}), short : BOOLEAN]

Arg(p, i) == IF Data(p)[i].type = NilType THEN NilType ELSE Data(p)[i].from

(* The first j requirements have each got a datum of their type, no two of *)
(* them the same one.                                                      *)
Handed(p, m, j, pos) ==
  /\ pos \in [1 .. j -> Places(p)]
  /\ \A k, l \in 1 .. j : pos[k] = pos[l] => k = l
  /\ m.used = {pos[k] : k \in 1 .. j}
  /\ \A k \in 1 .. j : pos[k] \in OfType(p, k)
  /\ Len(m.args) = j
  /\ \A k \in 1 .. j : m.args[k] = Arg(p, pos[k])

InOrder(p, m, j) == ~m.short => \E pos : Handed(p, m, j, pos)

LEMMA OfTypeFacts ==
  ASSUME NEW p, NEW j
  PROVE  /\ OfType(p, j) \subseteq Places(p)
         /\ \A i \in OfType(p, j) :
              /\ Data(p)[i].type = story.type[Reqs(p)[j]]
              /\ Data(p)[i].type # NoType
  BY DEF OfType, Places

LEMMA FirstFree ==
  ASSUME story \in Stories, NEW p \in Parts, NEW j, NEW used,
         OfType(p, j) \ used # {}
  PROVE  First(OfType(p, j) \ used) \in OfType(p, j) \ used
<1>1. OfType(p, j) \ used \subseteq Nat
  BY DataDistinct, OfTypeFacts
<1>2. \E n \in OfType(p, j) \ used : \A k \in OfType(p, j) \ used : n <= k
  BY <1>1, LeastIn
<1>3. QED
  BY <1>2 DEF First

LEMMA GivenFacts ==
  ASSUME story \in Stories, NEW p \in Parts, NEW m \in Handout(p), NEW i \in Places(p)
  PROVE  /\ Given(p, m, i) \in Handout(p)
         /\ Given(p, m, i).used = m.used \cup {i}
         /\ Given(p, m, i).args = Append(m.args, Arg(p, i))
         /\ ~Given(p, m, i).short
<1>1. Arg(p, i) \in Parts \cup {NilType}
  BY DataDistinct DEF Arg
<1>2. Append(m.args, Arg(p, i)) \in Seq(Parts \cup {NilType})
  BY <1>1 DEF Handout
<1>3. Given(p, m, i) = [used |-> m.used \cup {i}, args |-> Append(m.args, Arg(p, i)),
                        short |-> FALSE]
  BY DEF Given, Arg
<1>4. QED
  BY <1>2, <1>3 DEF Handout

LEMMA TakeFacts ==
  ASSUME story \in Stories, NEW p \in Parts, NEW m \in Handout(p), NEW j
  PROVE  /\ Take(p, m, j) \in Handout(p)
         /\ m.short => Take(p, m, j).short
         /\ ~Take(p, m, j).short =>
              \E i \in OfType(p, j) \ m.used : Take(p, m, j) = Given(p, m, i)
         /\ ~m.short /\ Take(p, m, j).short => OfType(p, j) \subseteq m.used
<1>1. CASE m.short \/ OfType(p, j) \ m.used = {}
  <2>1. Take(p, m, j) = [m EXCEPT !.short = TRUE]
    BY <1>1 DEF Take
  <2>2. [m EXCEPT !.short = TRUE] \in Handout(p) /\ [m EXCEPT !.short = TRUE].short
    BY DEF Handout
  <2>3. QED
    BY <1>1, <2>1, <2>2
<1>2. CASE ~m.short /\ OfType(p, j) \ m.used # {}
  <2> DEFINE i == First(OfType(p, j) \ m.used)
  <2>1. Take(p, m, j) = Given(p, m, i)
    BY <1>2 DEF Take
  <2>2. i \in OfType(p, j) \ m.used
    BY <1>2, FirstFree
  <2>3. i \in Places(p)
    BY <2>2, OfTypeFacts
  <2> HIDE DEF i
  <2>4. Given(p, m, i) \in Handout(p) /\ ~Given(p, m, i).short
    BY <2>3, GivenFacts
  <2>5. QED
    BY <1>2, <2>1, <2>2, <2>4
<1>3. QED
  BY <1>1, <1>2

(* One more requirement gets its datum.                                    *)
LEMMA HandedOn ==
  ASSUME story \in Stories, NEW p \in Parts, NEW m \in Handout(p), NEW j \in Nat \ {0},
         InOrder(p, m, j - 1)
  PROVE  InOrder(p, Take(p, m, j), j)
<1> SUFFICES ASSUME ~Take(p, m, j).short
             PROVE  \E pos : Handed(p, Take(p, m, j), j, pos)
  BY DEF InOrder
<1>1. PICK pos : Handed(p, m, j - 1, pos)
  BY TakeFacts DEF InOrder
<1>2. PICK i \in OfType(p, j) \ m.used : Take(p, m, j) = Given(p, m, i)
  BY TakeFacts
<1>3. i \in Places(p)
  BY <1>2, OfTypeFacts
<1> DEFINE new == [k \in 1 .. j |-> IF k = j THEN i ELSE pos[k]]
<1>4. \A k \in 1 .. j : k # j => k \in 1 .. j - 1
  OBVIOUS
<1>5. j \in 1 .. j /\ \A k \in 1 .. j - 1 : k \in 1 .. j /\ k # j
  OBVIOUS
<1>6. \A k \in 1 .. j - 1 : pos[k] \in Places(p) /\ pos[k] \in m.used
  BY <1>1 DEF Handed
<1>7. new \in [1 .. j -> Places(p)]
  BY <1>3, <1>4, <1>6
<1>8. \A k, l \in 1 .. j : new[k] = new[l] => k = l
  BY <1>1, <1>2, <1>4, <1>6 DEF Handed
<1>9. m.used \cup {i} = {new[k] : k \in 1 .. j}
  <2>1. m.used = {pos[k] : k \in 1 .. j - 1}
    BY <1>1 DEF Handed
  <2>2. QED
    BY <2>1, <1>4, <1>5
<1>10. \A k \in 1 .. j : new[k] \in OfType(p, k)
  BY <1>1, <1>2, <1>4 DEF Handed
<1>11. m.args \in Seq(Parts \cup {NilType}) /\ Len(m.args) = j - 1
  BY <1>1 DEF Handed, Handout
<1> DEFINE t == Append(m.args, Arg(p, i))
<1>12. Len(t) = j /\ t[j] = Arg(p, i) /\ \A k \in 1 .. j - 1 : t[k] = m.args[k]
  BY <1>11
<1>13. \A k \in 1 .. j : t[k] = Arg(p, new[k])
  <2>1. \A k \in 1 .. j - 1 : m.args[k] = Arg(p, pos[k])
    BY <1>1 DEF Handed
  <2>2. QED
    BY <2>1, <1>12, <1>4
<1>14. Given(p, m, i).used = m.used \cup {i} /\ Given(p, m, i).args = t
  BY <1>3, GivenFacts
<1> HIDE DEF new, t
<1>15. Handed(p, Given(p, m, i), j, new)
  BY <1>7, <1>8, <1>9, <1>10, <1>12, <1>13, <1>14 DEF Handed
<1>16. QED
  BY <1>2, <1>15

LEMMA TakenInOrder ==
  ASSUME story \in Stories, NEW p \in Parts, NEW n \in Nat, NEW g, IsTaken(p, n, g)
  PROVE  \A j \in 0 .. n : g[j] \in Handout(p) /\ InOrder(p, g[j], j)
<1> DEFINE Bad == {j \in 0 .. n : ~(g[j] \in Handout(p) /\ InOrder(p, g[j], j))}
<1> SUFFICES ASSUME Bad # {} PROVE FALSE
  OBVIOUS
<1>1. Bad \subseteq Nat
  OBVIOUS
<1>2. PICK k \in Bad : \A l \in Bad : k <= l
  BY <1>1, LeastIn
<1>3. CASE k = 0
  <2>1. g[0] = Nothing
    BY DEF IsTaken
  <2>2. Nothing \in Handout(p)
    BY DEF Nothing, Handout
  <2>3. Handed(p, Nothing, 0, <<>>)
    BY DEF Handed, Nothing
  <2>4. QED
    BY <1>2, <1>3, <2>1, <2>2, <2>3 DEF InOrder
<1>4. CASE k # 0
  <2>1. k \in Nat \ {0} /\ k - 1 \in 0 .. n /\ ~ k <= k - 1 /\ k \in 0 .. n
    BY <1>2, <1>4
  <2>2. g[k] = Take(p, g[k-1], k)
    BY <2>1 DEF IsTaken
  <2>3. g[k-1] \in Handout(p) /\ InOrder(p, g[k-1], k - 1)
    BY <1>2, <2>1
  <2>4. g[k] \in Handout(p)
    BY <2>2, <2>3, TakeFacts
  <2>5. InOrder(p, g[k], k)
    BY <2>1, <2>2, <2>3, HandedOn
  <2>6. QED
    BY <1>2, <2>4, <2>5
<1>5. QED
  BY <1>3, <1>4

LEMMA ShortAt ==
  ASSUME story \in Stories, NEW p \in Parts, NEW n \in Nat, NEW g, IsTaken(p, n, g),
         g[n].short
  PROVE  \E j \in 1 .. n : ~g[j-1].short /\ OfType(p, j) \subseteq g[j-1].used
<1> DEFINE Short == {j \in 0 .. n : g[j].short}
<1>1. Short \subseteq Nat /\ n \in Short
  OBVIOUS
<1>2. PICK j \in Short : \A l \in Short : j <= l
  BY <1>1, LeastIn
<1>3. j # 0
  BY <1>2 DEF IsTaken, Nothing
<1>4. j \in 1 .. n /\ j - 1 \in 0 .. n /\ j \in 0 .. n /\ ~ j <= j - 1
  BY <1>2, <1>3
<1>5. ~g[j-1].short
  BY <1>2, <1>4
<1>6. g[j] = Take(p, g[j-1], j)
  BY <1>3, <1>4 DEF IsTaken
<1>7. g[j-1] \in Handout(p)
  BY <1>4, TakenInOrder
<1>8. Take(p, g[j-1], j).short
  BY <1>2, <1>6
<1>9. QED
  BY <1>4, <1>5, <1>7, <1>8, TakeFacts

LEMMA ReqsLength ==
  ASSUME story \in Stories, NEW p \in Parts
  PROVE  /\ Len(Reqs(p)) \in Nat /\ DOMAIN Reqs(p) = 1 .. Len(Reqs(p))
         /\ \A j \in 1 .. Len(Reqs(p)) : Reqs(p)[j] \in ToSet(Reqs(p))
         /\ \A a \in ToSet(Reqs(p)) : \E j \in 1 .. Len(Reqs(p)) : Reqs(p)[j] = a
<1>1. Reqs(p) \in Seq(ToSet(Reqs(p)))
  BY StoryFacts
<1>2. Len(Reqs(p)) \in Nat /\ DOMAIN Reqs(p) = 1 .. Len(Reqs(p))
  BY <1>1
<1>3. QED
  BY <1>2 DEF ToSet

(* What Match hands out when it is not short: to each requirement its own  *)
(* datum.  When it is, a requirement finds every datum of its type used by *)
(* those before it.                                                        *)
LEMMA MatchInOrder ==
  ASSUME story \in Stories, NEW p \in Parts, ~Match(p).short
  PROVE  \E pos : Handed(p, Match(p), Len(Reqs(p)), pos)
<1> DEFINE n == Len(Reqs(p))
<1>1. n \in Nat
  BY ReqsLength
<1>2. PICK g : IsTaken(p, n, g) /\ Match(p) = g[n]
  BY <1>1, MatchIsTaken
<1>3. InOrder(p, g[n], n)
  BY <1>1, <1>2, TakenInOrder
<1>4. QED
  BY <1>2, <1>3 DEF InOrder

LEMMA MatchTyped ==
  ASSUME story \in Stories, NEW p \in Parts
  PROVE  Match(p) \in Handout(p)
<1> DEFINE n == Len(Reqs(p))
<1>1. n \in Nat
  BY ReqsLength
<1>2. PICK g : IsTaken(p, n, g) /\ Match(p) = g[n]
  BY <1>1, MatchIsTaken
<1>3. QED
  BY <1>1, <1>2, TakenInOrder

LEMMA MatchShort ==
  ASSUME story \in Stories, NEW p \in Parts, Match(p).short
  PROVE  \E j \in 1 .. Len(Reqs(p)) : \E m, pos :
            Handed(p, m, j - 1, pos) /\ OfType(p, j) \subseteq m.used
<1> DEFINE n == Len(Reqs(p))
<1>1. n \in Nat
  BY ReqsLength
<1>2. PICK g : IsTaken(p, n, g) /\ Match(p) = g[n]
  BY <1>1, MatchIsTaken
<1>3. PICK j \in 1 .. n : ~g[j-1].short /\ OfType(p, j) \subseteq g[j-1].used
  BY <1>1, <1>2, ShortAt
<1>4. j - 1 \in 0 .. n
  BY <1>1
<1>5. InOrder(p, g[j-1], j - 1)
  BY <1>1, <1>2, <1>4, TakenInOrder
<1>6. QED
  BY <1>3, <1>5 DEF InOrder

-----------------------------------------------------------------------------
(* Where every requirement has a part before it, and is told from the      *)
(* others, nothing is missing and nothing is left over.                    *)

AdapterAt(p, i) == Adapter(Prev(p)[i])

LEMMA SoundFacts ==
  ASSUME story \in Stories, NEW p \in Parts \ {IdStart}, Sound(p), PartAccepted(p)
  PROVE  /\ \A i, k \in Places(p) : AdapterAt(p, i) = AdapterAt(p, k) => i = k
         /\ \A j, k \in 1 .. Len(Reqs(p)) : Reqs(p)[j] = Reqs(p)[k] => j = k
         /\ \A j \in 1 .. Len(Reqs(p)) :
              /\ story.type[Reqs(p)[j]] # NoType
              /\ \E i \in Places(p) : AdapterAt(p, i) = Reqs(p)[j]
         /\ \A i \in Places(p) :
              Data(p)[i].type = story.type[AdapterAt(p, i)]
<1>1. Places(p) = DOMAIN Prev(p)
  BY DataOfPrev, StoryFacts
<1>2. \A i \in Places(p) : Prev(p)[i] \in ToSet(Prev(p))
  BY DataOfPrev
<1>3. \A i, k \in Places(p) : AdapterAt(p, i) = AdapterAt(p, k) => i = k
  BY <1>1, <1>2, StoryFacts DEF AdapterAt, Sound
<1>4. \A j, k \in 1 .. Len(Reqs(p)) : Reqs(p)[j] = Reqs(p)[k] => j = k
  BY ReqsLength DEF Sound
<1>5. ASSUME NEW j \in 1 .. Len(Reqs(p))
      PROVE  /\ story.type[Reqs(p)[j]] # NoType
             /\ \E i \in Places(p) : AdapterAt(p, i) = Reqs(p)[j]
  <2>1. Reqs(p)[j] \in ToSet(Reqs(p))
    BY ReqsLength
  <2>2. Reqs(p)[j] # AnyName /\ story.type[Reqs(p)[j]] # NoType
    BY <2>1 DEF Sound
  <2>3. PICK q \in ToSet(Prev(p)) : Adapter(q) = Reqs(p)[j]
    BY <2>1, <2>2 DEF PartAccepted
  <2>4. PICK i \in Places(p) : q = Prev(p)[i]
    BY <1>1, <2>3 DEF ToSet
  <2>5. QED
    BY <2>2, <2>3, <2>4 DEF AdapterAt
<1>6. \A i \in Places(p) : Data(p)[i].type = story.type[AdapterAt(p, i)]
  BY DataOfPrev DEF AdapterAt
<1>7. QED
  BY <1>3, <1>4, <1>5, <1>6

(* A requirement that finds nothing left: those of its type, itself        *)
(* included, have each a datum of their own, and all of these are used by  *)
(* those before it.                                                        *)
LEMMA NeverShort ==
  ASSUME story \in Stories, NEW p \in Parts \ {IdStart}, Sound(p), PartAccepted(p)
  PROVE  ~Match(p).short
<1> SUFFICES ASSUME Match(p).short PROVE FALSE
  OBVIOUS
<1> DEFINE n == Len(Reqs(p))
           type(k) == story.type[Reqs(p)[k]]
<1>1. n \in Nat
  BY ReqsLength
<1>2. PICK j \in 1 .. n : \E m, pos : Handed(p, m, j - 1, pos) /\ OfType(p, j) \subseteq m.used
  BY MatchShort
<1>3. PICK m, pos : Handed(p, m, j - 1, pos) /\ OfType(p, j) \subseteq m.used
  BY <1>2
<1> DEFINE R == {k \in 1 .. j : type(k) = type(j)}
<1>4. j \in R /\ IsFiniteSet(R)
  <2>1. IsFiniteSet(1 .. j)
    BY <1>1, FS_Interval
  <2>2. QED
    BY <2>1, <1>1, FS_Subset
<1>5. \A k \in R : k \in 1 .. n
  BY <1>1
<1>6. ASSUME NEW k \in R
      PROVE  \E l \in R : /\ l # j /\ l \in 1 .. j - 1
                          /\ AdapterAt(p, pos[l]) = Reqs(p)[k] /\ pos[l] \in Places(p)
  <2>1. k \in 1 .. n
    BY <1>5
  <2>2. PICK i \in Places(p) : AdapterAt(p, i) = Reqs(p)[k]
    BY <2>1, SoundFacts
  <2>3. Data(p)[i].type = type(k)
    BY <2>2, SoundFacts
  <2>4. type(k) = type(j) /\ type(j) # NoType
    BY <2>1, <1>2, SoundFacts
  <2>5. i \in OfType(p, j)
    BY <2>3, <2>4 DEF OfType, Places
  <2>6. i \in {pos[l] : l \in 1 .. j - 1}
    BY <2>5, <1>3 DEF Handed
  <2>7. PICK l \in 1 .. j - 1 : i = pos[l]
    BY <2>6
  <2>8. pos[l] \in OfType(p, l)
    BY <1>3 DEF Handed
  <2>9. type(l) = type(j)
    BY <2>3, <2>4, <2>7, <2>8, OfTypeFacts
  <2>10. l \in 1 .. j /\ l # j
    BY <1>1
  <2>11. QED
    BY <2>2, <2>7, <2>9, <2>10
<1> DEFINE f == [k \in R |-> CHOOSE l \in R :
                   /\ l # j /\ l \in 1 .. j - 1
                   /\ AdapterAt(p, pos[l]) = Reqs(p)[k] /\ pos[l] \in Places(p)]
<1>7. \A k \in R : /\ f[k] \in R /\ f[k] # j
                  /\ AdapterAt(p, pos[f[k]]) = Reqs(p)[k]
  BY <1>6
<1>8. f \in [R -> R]
  BY <1>7
<1> HIDE DEF f
<1>9. \A k, l \in R : f[k] = f[l] => k = l
  <2>1. \A k, l \in R : f[k] = f[l] => Reqs(p)[k] = Reqs(p)[l]
    BY ONLY <1>7
  <2>2. QED
    BY <2>1, <1>5, SoundFacts
<1> HIDE DEF R
<1>10. \A k \in R : f[k] # j
  BY <1>7
<1>11. QED
  BY ONLY <1>4, <1>8, <1>9, <1>10, NoneMissed

(* A datum left over: all of its type have a requirement each, and each of *)
(* these took another one.                                                 *)
LEMMA NeverLeft ==
  ASSUME story \in Stories, NEW p \in Parts \ {IdStart}, Sound(p), PartAccepted(p),
         ~Match(p).short
  PROVE  ~LeftOver(p, Match(p).used)
<1> SUFFICES ASSUME LeftOver(p, Match(p).used) PROVE FALSE
  OBVIOUS
<1> DEFINE n == Len(Reqs(p))
<1>1. n \in Nat
  BY ReqsLength
<1>2. PICK pos : Handed(p, Match(p), n, pos)
  BY MatchInOrder
<1>3. PICK a \in Places(p) \ Match(p).used : Data(p)[a].type # NilType
  BY DEF LeftOver, Places
<1>4. p # IdEnd
  BY StoryFacts DEF LeftOver
<1> DEFINE t == Data(p)[a].type
           S == {i \in Places(p) : Data(p)[i].type = t}
<1>5. a \in S /\ IsFiniteSet(S)
  BY DataDistinct, FS_Subset
<1>6. ASSUME NEW i \in S
      PROVE  \E k \in 1 .. n : Reqs(p)[k] = AdapterAt(p, i) /\ pos[k] \in S /\ pos[k] # a
  <2>1. AdapterAt(p, i) \in ToSet(Reqs(p))
    <3>1. Prev(p)[i] \in ToSet(Prev(p))
      BY DataOfPrev
    <3>2. CASE Prev(p)[i] = IdStart
      <4>1. story.type[Adapter(IdStart)] # NilType
        BY <1>3, <3>2, DataOfPrev
      <4>2. QED
        BY <3>1, <3>2, <4>1 DEF Sound, AdapterAt
    <3>3. CASE Prev(p)[i] # IdStart
      BY <3>1, <3>3, <1>4 DEF PartAccepted, AdapterAt
    <3>4. QED
      BY <3>2, <3>3
  <2>2. PICK k \in 1 .. n : Reqs(p)[k] = AdapterAt(p, i)
    BY <2>1, ReqsLength
  <2>3. pos[k] \in OfType(p, k) /\ pos[k] \in Match(p).used
    BY <1>2 DEF Handed
  <2>4. pos[k] \in Places(p) /\ Data(p)[pos[k]].type = story.type[Reqs(p)[k]]
    BY <2>3, OfTypeFacts
  <2>5. Data(p)[i].type = story.type[AdapterAt(p, i)]
    BY SoundFacts
  <2>6. Data(p)[pos[k]].type = t
    BY <2>2, <2>4, <2>5
  <2>7. QED
    BY <2>2, <2>3, <2>4, <2>6, <1>3
<1> DEFINE need == [i \in S |-> CHOOSE k \in 1 .. n :
                      Reqs(p)[k] = AdapterAt(p, i) /\ pos[k] \in S /\ pos[k] # a]
           f == [i \in S |-> pos[need[i]]]
<1>7. \A i \in S : /\ need[i] \in 1 .. n
                  /\ Reqs(p)[need[i]] = AdapterAt(p, i)
                  /\ f[i] \in S /\ f[i] # a
  BY <1>6
<1> HIDE DEF need
<1>8. f \in [S -> S]
  BY <1>7
<1>9. \A i, k \in S : f[i] = f[k] => i = k
  <2> SUFFICES ASSUME NEW i \in S, NEW k \in S, f[i] = f[k] PROVE i = k
    OBVIOUS
  <2>1. need[i] = need[k]
    BY <1>2, <1>7 DEF Handed
  <2>2. AdapterAt(p, i) = AdapterAt(p, k)
    BY <2>1, <1>7
  <2>3. QED
    BY <2>2, SoundFacts
<1> HIDE DEF f, S
<1>10. QED
  BY <1>5, <1>7, <1>8, <1>9, NoneMissed

-----------------------------------------------------------------------------
(* The arguments.                                                          *)

ToldApart(p) ==
  \A q, r \in ToSet(Prev(p)) :
    story.type[Adapter(q)] = story.type[Adapter(r)] => q = r

LEMMA RightOnes ==
  ASSUME story \in Stories, NEW p \in Parts \ {IdStart}, Sound(p), PartAccepted(p),
         ToldApart(p), ~Match(p).short
  PROVE  /\ Len(Match(p).args) = Len(Reqs(p))
         /\ \A j \in 1 .. Len(Reqs(p)) :
              IF story.type[Reqs(p)[j]] = NilType THEN Match(p).args[j] = NilType
              ELSE /\ Match(p).args[j] \in Parts
                   /\ Adapter(Match(p).args[j]) = Reqs(p)[j]
<1> DEFINE n == Len(Reqs(p))
<1>1. PICK pos : Handed(p, Match(p), n, pos)
  BY MatchInOrder
<1>2. ASSUME NEW j \in 1 .. n
      PROVE  IF story.type[Reqs(p)[j]] = NilType THEN Match(p).args[j] = NilType
             ELSE /\ Match(p).args[j] \in Parts
                  /\ Adapter(Match(p).args[j]) = Reqs(p)[j]
  <2>1. pos[j] \in OfType(p, j) /\ Match(p).args[j] = Arg(p, pos[j])
    BY <1>1 DEF Handed
  <2>2. pos[j] \in Places(p) /\ Data(p)[pos[j]].type = story.type[Reqs(p)[j]]
    BY <2>1, OfTypeFacts
  <2>3. PICK i \in Places(p) : AdapterAt(p, i) = Reqs(p)[j]
    BY SoundFacts
  <2>4. story.type[AdapterAt(p, pos[j])] = story.type[AdapterAt(p, i)]
    BY <2>2, <2>3, SoundFacts
  <2>5. Prev(p)[pos[j]] = Prev(p)[i]
    BY <2>2, <2>4, DataOfPrev DEF ToldApart, AdapterAt
  <2>6. Data(p)[pos[j]].from = Prev(p)[i] /\ Prev(p)[i] \in Parts
    BY <2>2, <2>5, DataOfPrev
  <2>7. QED
    BY <2>1, <2>2, <2>3, <2>6 DEF Arg, AdapterAt
<1>3. QED
  BY <1>1, <1>2 DEF Handed

LEMMA OnceEach ==
  ASSUME story \in Stories, NEW p \in Parts, ~Match(p).short
  PROVE  /\ DOMAIN Match(p).args = 1 .. Len(Reqs(p))
         /\ \A j, k \in 1 .. Len(Reqs(p)) :
              j # k /\ Match(p).args[j] = Match(p).args[k] => Match(p).args[j] = NilType
<1> DEFINE n == Len(Reqs(p))
<1>1. PICK pos : Handed(p, Match(p), n, pos)
  BY MatchInOrder
<1>2. Match(p) \in Handout(p)
  BY MatchTyped
<1>3. DOMAIN Match(p).args = 1 .. n
  BY <1>1, <1>2 DEF Handed, Handout
<1>4. ASSUME NEW j \in 1 .. n, NEW k \in 1 .. n, j # k,
             Match(p).args[j] = Match(p).args[k]
      PROVE  Match(p).args[j] = NilType
  <2>1. /\ Match(p).args[j] = Arg(p, pos[j]) /\ Match(p).args[k] = Arg(p, pos[k])
        /\ pos[j] \in Places(p) /\ pos[k] \in Places(p) /\ pos[j] # pos[k]
    BY <1>1, <1>4 DEF Handed
  <2>2. Data(p)[pos[j]].from # Data(p)[pos[k]].from
    BY <2>1, DataDistinct
  <2>3. QED
    BY <1>4, <2>1, <2>2 DEF Arg
<1>5. QED
  BY <1>3, <1>4

-----------------------------------------------------------------------------
(* The inductive invariant: nothing is executed before New has accepted    *)
(* every part, and what was executed is what Match says of the story.      *)

Executed(p) ==
  /\ outcome[p] \in {"waiting", "done", "short", "left"}
  /\ outcome[p] # "waiting" => \A q \in Parts : PartAccepted(q)
  /\ outcome[p] = "short" => Match(p).short
  /\ outcome[p] = "left" => ~Match(p).short /\ LeftOver(p, Match(p).used)
  /\ IF outcome[p] = "done" THEN ~Match(p).short /\ args[p] = Match(p).args
     ELSE args[p] = <<>>

IInv ==
  /\ story \in Stories
  /\ outcome \in [Parts -> {"waiting", "done", "short", "left"}]
  /\ DOMAIN args = Parts
  /\ verdict = "accepted" => \A q \in Parts : PartAccepted(q)
  /\ \A p \in Parts : Executed(p)

LEMMA InitIInv == Init => IInv
<1> SUFFICES ASSUME Init PROVE IInv
  OBVIOUS
<1>1. outcome \in [Parts -> {"waiting", "done", "short", "left"}] /\ DOMAIN args = Parts
  BY DEF Init
<1>2. \A p \in Parts : outcome[p] = "waiting" /\ args[p] = <<>>
  BY DEF Init
<1>3. QED
  BY <1>1, <1>2 DEF IInv, Executed, Init

(* What is said of a story alone stays as it is.                           *)
LEMMA SameStory ==
  ASSUME story' = story
  PROVE  /\ Parts' = Parts
         /\ \A p : /\ PartAccepted(p)' <=> PartAccepted(p)
                  /\ Match(p)' = Match(p)
                  /\ \A used : LeftOver(p, used)' <=> LeftOver(p, used)
         /\ \A p : Sound(p)' <=> Sound(p)
  BY DEF Parts, PartAccepted, Match, LeftOver, Sound, Prev, Reqs, Adapter, Adapters,
         Data, Take, OfType, Given, Nothing, First

LEMMA NextIInv == IInv /\ [Next]_vars => IInv'
<1> SUFFICES ASSUME IInv, [Next]_vars PROVE IInv'
  OBVIOUS
<1>1. story' = story
  BY DEF Next, New, Execute, vars
<1>2. /\ Parts' = Parts
      /\ \A p : /\ PartAccepted(p)' <=> PartAccepted(p)
               /\ Match(p)' = Match(p)
               /\ \A used : LeftOver(p, used)' <=> LeftOver(p, used)
  BY <1>1, SameStory
<1>3. CASE New
  <2>1. verdict' = "accepted" => \A q \in Parts : PartAccepted(q)
    BY <1>3 DEF New
  <2>2. QED
    BY <1>1, <1>2, <1>3, <2>1 DEF New, IInv, Executed
<1>4. ASSUME NEW p \in Parts, Execute(p) PROVE IInv'
  <2>1. verdict = "accepted" /\ verdict' = verdict /\ \A q \in Parts : PartAccepted(q)
    BY <1>4 DEF Execute, IInv
  <2>2. /\ \A q \in Parts \ {p} : outcome'[q] = outcome[q] /\ args'[q] = args[q]
        /\ outcome' \in [Parts -> {"waiting", "done", "short", "left"}]
        /\ DOMAIN args' = Parts
    BY <1>4 DEF Execute, IInv
  <2>3. \A q \in Parts \ {p} : Executed(q)'
    BY <1>2, <2>2 DEF IInv, Executed
  <2>4. args[p] = <<>>
    BY <1>4 DEF Execute, IInv, Executed
  <2>5. CASE Match(p).short
    <3>1. outcome'[p] = "short" /\ args' = args
      BY <1>4, <2>5 DEF Execute, IInv
    <3>2. Executed(p)'
      BY <1>2, <2>1, <2>4, <2>5, <3>1 DEF Executed
    <3>3. QED
      BY <1>1, <1>2, <2>1, <2>2, <2>3, <3>2 DEF IInv
  <2>6. CASE ~Match(p).short /\ LeftOver(p, Match(p).used)
    <3>1. outcome'[p] = "left" /\ args' = args
      BY <1>4, <2>6 DEF Execute, IInv
    <3>2. Executed(p)'
      BY <1>2, <2>1, <2>4, <2>6, <3>1 DEF Executed
    <3>3. QED
      BY <1>1, <1>2, <2>1, <2>2, <2>3, <3>2 DEF IInv
  <2>7. CASE ~Match(p).short /\ ~LeftOver(p, Match(p).used)
    <3>1. outcome'[p] = "done" /\ args'[p] = Match(p).args
      BY <1>4, <2>7 DEF Execute, IInv
    <3>2. Executed(p)'
      BY <1>2, <2>1, <2>7, <3>1 DEF Executed
    <3>3. QED
      BY <1>1, <1>2, <2>1, <2>2, <2>3, <3>2 DEF IInv
  <2>8. QED
    BY <2>5, <2>6, <2>7
<1>5. CASE UNCHANGED vars
  BY <1>1, <1>2, <1>5 DEF vars, IInv, Executed
<1>6. QED
  BY <1>3, <1>4, <1>5 DEF Next

(* Parts are executed only in stories New accepts, with what Match hands   *)
(* out.                                                                    *)
THEOREM Invariance == Spec => []IInv
<1>1. QED
  BY InitIInv, NextIInv, PTL DEF Spec

(* Whatever story New accepts: a part whose requirements are told apart    *)
(* (Sound) finds a datum for each of them, even where several have one     *)
(* type, and no datum is left over; the part is never refused.             *)
THEOREM AcceptedStoriesRun == Spec => []AcceptedRuns
<1>1. ASSUME IInv PROVE AcceptedRuns
  <2> SUFFICES ASSUME NEW p \in Parts \ {IdStart}, Sound(p)
               PROVE  outcome[p] \in {"waiting", "done"}
    BY DEF AcceptedRuns
  <2>1. Executed(p) /\ story \in Stories
    BY <1>1 DEF IInv
  <2>2. CASE outcome[p] = "waiting"
    BY <2>2
  <2>3. CASE outcome[p] # "waiting"
    <3>1. PartAccepted(p)
      BY <2>1, <2>3 DEF Executed
    <3>2. ~Match(p).short /\ ~LeftOver(p, Match(p).used)
      BY <2>1, <3>1, NeverShort, NeverLeft
    <3>3. QED
      BY <2>1, <3>2 DEF Executed
  <2>4. QED
    BY <2>2, <2>3
<1>2. QED
  BY <1>1, Invariance, PTL

(* Where besides the types of the parts before it differ, the function of  *)
(* a part is called with the results of the parts it requires, in its own  *)
(* order, whatever the order in which the story defines them.              *)
THEOREM ArgumentsRight == Spec => []RightArguments
<1>1. ASSUME IInv PROVE RightArguments
  <2> SUFFICES ASSUME NEW p \in Parts \ {IdStart}, outcome[p] = "done", Sound(p),
                      ToldApart(p)
               PROVE  /\ Len(args[p]) = Len(Reqs(p))
                      /\ \A j \in DOMAIN args[p] :
                           IF story.type[Reqs(p)[j]] = NilType THEN args[p][j] = NilType
                           ELSE args[p][j] \in Parts /\ Adapter(args[p][j]) = Reqs(p)[j]
    BY DEF RightArguments, ToldApart
  <2>1. Executed(p) /\ story \in Stories
    BY <1>1 DEF IInv
  <2>2. PartAccepted(p) /\ ~Match(p).short /\ args[p] = Match(p).args
    BY <2>1 DEF Executed
  <2>3. DOMAIN args[p] = 1 .. Len(Reqs(p))
    BY <2>1, <2>2, OnceEach
  <2>4. QED
    BY <2>1, <2>2, <2>3, RightOnes
<1>2. QED
  BY <1>1, Invariance, PTL

(* No part's function gets the result of one part twice, in any story.     *)
THEOREM ResultsOnce == Spec => []EachResultOnce
<1>1. ASSUME IInv PROVE EachResultOnce
  <2> SUFFICES ASSUME NEW p \in Parts, NEW j \in DOMAIN args[p], NEW k \in DOMAIN args[p],
                      j # k, args[p][j] = args[p][k]
               PROVE  args[p][j] = NilType
    BY DEF EachResultOnce
  <2>1. Executed(p) /\ story \in Stories
    BY <1>1 DEF IInv
  <2>2. CASE outcome[p] = "done"
    <3>1. ~Match(p).short /\ args[p] = Match(p).args
      BY <2>1, <2>2 DEF Executed
    <3>2. QED
      BY <2>1, <3>1, OnceEach
  <2>3. CASE outcome[p] # "done"
    <3>1. args[p] = <<>>
      BY <2>1, <2>3 DEF Executed
    <3>2. QED
      BY <3>1
  <2>4. QED
    BY <2>2, <2>3
<1>2. QED
  BY <1>1, Invariance, PTL

-----------------------------------------------------------------------------
(* Graphs: what is reached from some nodes along the links.                *)

Steps(from, n, g) ==
  g = [k \in 0 .. n |-> IF k = 0 THEN from
                        ELSE g[k-1] \cup UNION {B!Out(x) : x \in g[k-1]}]

LEMMA StepsExist ==
  ASSUME NEW from, NEW n \in Nat
  PROVE  \E g : Steps(from, n, g)
<1> DEFINE Bad == {k \in Nat : ~ \E g : Steps(from, k, g)}
           After(x) == UNION {B!Out(y) : y \in x}
<1> SUFFICES ASSUME Bad # {} PROVE FALSE
  OBVIOUS
<1>1. PICK k \in Bad : \A l \in Bad : k <= l
  BY LeastIn
<1>2. CASE k = 0
  <2> DEFINE h == [j \in 0 .. 0 |-> from]
  <2>1. \A j \in 0 .. 0 : j = 0
    OBVIOUS
  <2>2. Steps(from, 0, h)
    BY <2>1 DEF Steps
  <2>3. QED
    BY <1>1, <1>2, <2>2
<1>3. CASE k # 0
  <2>1. k \in Nat /\ k - 1 \in Nat /\ ~ k <= k - 1
    BY <1>1, <1>3
  <2>2. k - 1 \notin Bad
    BY <1>1, <2>1
  <2>3. PICK g : Steps(from, k - 1, g)
    BY <2>1, <2>2
  <2> HIDE DEF After
  <2> DEFINE h == [j \in 0 .. k |-> IF j = k THEN g[k-1] \cup After(g[k-1]) ELSE g[j]]
  <2>4. \A j \in 0 .. k : j # k => j \in 0 .. k - 1
    BY <2>1
  <2>5. \A j \in 0 .. k : j # 0 => j - 1 \in 0 .. k /\ j - 1 # k
    BY <2>1
  <2>6. \A j \in 0 .. k : j # 0 => h[j-1] = g[j-1]
    BY <2>5
  <2>7. \A j \in 0 .. k - 1 : g[j] = IF j = 0 THEN from ELSE g[j-1] \cup After(g[j-1])
    BY <2>3 DEF Steps, After
  <2>8. \A j \in 0 .. k : h[j] = IF j = 0 THEN from ELSE h[j-1] \cup After(h[j-1])
    BY <1>3, <2>1, <2>4, <2>6, <2>7
  <2>9. Steps(from, k, h)
    <3>1. h = [j \in 0 .. k |-> IF j = 0 THEN from ELSE h[j-1] \cup After(h[j-1])]
      BY <2>8
    <3>2. QED
      BY <3>1 DEF Steps, After
  <2>10. QED
    BY <1>1, <2>9
<1>4. QED
  BY <1>2, <1>3

(* The nodes reached in at most k steps.                                   *)
Level(from, k) == (CHOOSE g : Steps(from, B!N, g))[k]

LEMMA Levels ==
  ASSUME NEW from, B!N \in Nat
  PROVE  /\ Level(from, 0) = from
         /\ \A k \in 1 .. B!N : Level(from, k) =
              Level(from, k-1) \cup UNION {B!Out(x) : x \in Level(from, k-1)}
         /\ B!ReachedFrom(from) = Level(from, B!N)
<1> DEFINE c == CHOOSE g : Steps(from, B!N, g)
<1>1. Steps(from, B!N, c)
  BY StepsExist
<1>2. B!ReachedFrom(from) = c[B!N]
  BY DEF B!ReachedFrom, Steps
<1>3. \A k : Level(from, k) = c[k]
  BY DEF Level
<1> HIDE DEF c
<1>4. c = [k \in 0 .. B!N |-> IF k = 0 THEN from
                             ELSE c[k-1] \cup UNION {B!Out(x) : x \in c[k-1]}]
  BY <1>1 DEF Steps
<1>5. c[0] = from
  BY <1>4
<1>6. \A k \in 1 .. B!N : c[k] = c[k-1] \cup UNION {B!Out(x) : x \in c[k-1]}
  BY <1>4
<1>7. QED
  BY <1>2, <1>3, <1>5, <1>6

LEMMA UpTo ==
  ASSUME NEW n \in Nat, NEW S, 0 \in S, \A k \in 1 .. n : k - 1 \in S => k \in S
  PROVE  0 .. n \subseteq S
<1> DEFINE Bad == {k \in 0 .. n : k \notin S}
<1> SUFFICES ASSUME Bad # {} PROVE FALSE
  OBVIOUS
<1>1. Bad \subseteq Nat
  OBVIOUS
<1>2. PICK k \in Bad : \A l \in Bad : k <= l
  BY <1>1, LeastIn
<1>3. k \in 1 .. n
  BY <1>2
<1>4. k - 1 \in 0 .. n /\ ~ k <= k - 1
  BY <1>3
<1>5. k - 1 \in S
  BY <1>2, <1>4
<1>6. QED
  BY <1>2, <1>3, <1>5

Closed(C) == \A x \in C : B!Out(x) \subseteq C

(* Nothing is reached that is not in every closed set.                     *)
LEMMA ReachedLeast ==
  ASSUME NEW from, B!N \in Nat, NEW C, from \subseteq C, Closed(C)
  PROVE  B!ReachedFrom(from) \subseteq C
<1> DEFINE S == {k \in 0 .. B!N : Level(from, k) \subseteq C}
<1>1. 0 \in S
  BY Levels
<1>2. ASSUME NEW k \in 1 .. B!N, k - 1 \in S PROVE k \in S
  <2>1. Level(from, k) =
          Level(from, k-1) \cup UNION {B!Out(x) : x \in Level(from, k-1)}
    BY Levels
  <2>2. Level(from, k-1) \subseteq C
    BY <1>2
  <2>3. Level(from, k) \subseteq C
    BY <2>1, <2>2 DEF Closed
  <2>4. QED
    BY <2>3
<1>3. B!N \in S
  <2>1. 0 .. B!N \subseteq S
    BY <1>1, <1>2, UpTo
  <2>2. QED
    BY <2>1
<1>4. QED
  BY <1>3, Levels

LEMMA LevelsGrow ==
  ASSUME NEW from, B!N \in Nat, NEW a \in 0 .. B!N
  PROVE  Level(from, a) \subseteq B!ReachedFrom(from)
<1> DEFINE S == {k \in 0 .. B!N : a <= k => Level(from, a) \subseteq Level(from, k)}
<1>1. 0 \in S
  BY Levels
<1>2. ASSUME NEW k \in 1 .. B!N, k - 1 \in S PROVE k \in S
  <2>1. Level(from, k-1) \subseteq Level(from, k)
    BY Levels
  <2>2. a <= k => a <= k - 1 \/ a = k
    OBVIOUS
  <2>3. QED
    BY <1>2, <2>1, <2>2
<1>3. B!N \in S
  <2>1. 0 .. B!N \subseteq S
    BY <1>1, <1>2, UpTo
  <2>2. QED
    BY <2>1
<1>4. QED
  BY <1>3, Levels

(* As many steps as there are nodes reach all there is to reach.           *)
LEMMA ReachedClosed ==
  ASSUME B!N \in Nat, NEW D, IsFiniteSet(D), Cardinality(D) <= B!N, Closed(D),
         NEW from, from \subseteq D
  PROVE  /\ from \subseteq B!ReachedFrom(from) /\ B!ReachedFrom(from) \subseteq D
         /\ Closed(B!ReachedFrom(from))
<1> DEFINE L(k) == Level(from, k)
           S == {k \in 0 .. B!N : L(k) \subseteq D
                                  /\ (Closed(L(k)) \/ Cardinality(L(k)) >= k + 1)}
<1>1. 0 \in S
  <2>1. L(0) = from
    BY Levels
  <2>2. CASE from = {}
    BY <2>1, <2>2 DEF Closed
  <2>3. CASE from # {}
    <3>1. IsFiniteSet(from)
      BY FS_Subset
    <3>2. Cardinality(from) \in Nat /\ Cardinality(from) # 0
      BY <3>1, <2>3, FS_CardinalityType, FS_EmptySet
    <3>3. Cardinality(from) >= 0 + 1
      BY <3>2
    <3>4. QED
      BY <2>1, <3>3
  <2>4. QED
    BY <2>2, <2>3
<1>2. ASSUME NEW k \in 1 .. B!N, k - 1 \in S PROVE k \in S
  <2>1. L(k) = L(k-1) \cup UNION {B!Out(x) : x \in L(k-1)}
    BY Levels
  <2>2. L(k-1) \subseteq D
    BY <1>2
  <2>3. L(k) \subseteq D
    BY <2>1, <2>2 DEF Closed
  <2>4. CASE Closed(L(k-1))
    <3>1. L(k) = L(k-1)
      BY <2>1, <2>4 DEF Closed
    <3>2. QED
      BY <2>3, <2>4, <3>1
  <2>5. CASE ~Closed(L(k-1))
    <3>1. PICK y \in L(k) : y \notin L(k-1)
      BY <2>1, <2>5 DEF Closed
    <3>2. IsFiniteSet(L(k-1)) /\ IsFiniteSet(L(k))
      BY <2>2, <2>3, FS_Subset
    <3>3. /\ Cardinality(L(k-1) \cup {y}) = Cardinality(L(k-1)) + 1
          /\ IsFiniteSet(L(k-1) \cup {y})
      BY <3>1, <3>2, FS_AddElement
    <3>4. L(k-1) \cup {y} \subseteq L(k)
      BY <2>1, <3>1
    <3>5. Cardinality(L(k-1) \cup {y}) <= Cardinality(L(k))
      BY <3>2, <3>4, FS_Subset
    <3>6. Cardinality(L(k-1)) \in Nat /\ Cardinality(L(k)) \in Nat
      BY <3>2, FS_CardinalityType
    <3>7. Cardinality(L(k-1)) >= (k - 1) + 1
      BY <1>2, <2>5
    <3>8. Cardinality(L(k)) >= k + 1
      BY <3>3, <3>5, <3>6, <3>7
    <3>9. QED
      BY <2>3, <3>8
  <2>6. QED
    BY <2>4, <2>5
<1>3. B!N \in S
  <2>1. 0 .. B!N \subseteq S
    BY <1>1, <1>2, UpTo
  <2>2. QED
    BY <2>1
<1>4. Closed(L(B!N))
  <2>1. SUFFICES ASSUME Cardinality(L(B!N)) >= B!N + 1 PROVE FALSE
    BY <1>3
  <2>2. IsFiniteSet(L(B!N)) /\ Cardinality(L(B!N)) <= Cardinality(D)
    BY <1>3, FS_Subset
  <2>3. Cardinality(L(B!N)) \in Nat /\ Cardinality(D) \in Nat
    BY <2>2, FS_CardinalityType
  <2>4. QED
    BY <2>1, <2>2, <2>3
<1>5. from \subseteq B!ReachedFrom(from)
  BY LevelsGrow, Levels, 0 \in 0 .. B!N
<1>6. QED
  BY <1>3, <1>4, <1>5, Levels

-----------------------------------------------------------------------------
(* What End() has made of the nodes.                                       *)

Placed == {nodes[k] : k \in 1 .. free - 1}

(* The first nodes of the slice are those that were found, each of them    *)
(* once; the others are blank until the end is put to the last place.      *)
Slice ==
  /\ B!IsBuilder(builder)
  /\ nodes = [k \in 1 .. B!N |-> nodes[k]]
  /\ free \in 2 .. B!N /\ cur \in 1 .. B!N
  /\ \A k \in 1 .. free - 1 : nodes[k] \in B!Defs \ {IdEnd}
  /\ \A k, l \in 1 .. free - 1 : nodes[k] = nodes[l] => k = l
  /\ \A k \in free .. B!N - 1 : nodes[k] = B!Blank

(* Each of them was reached, in fewer steps than there are nodes.          *)
Found == Placed \subseteq Level({IdStart}, free - 2)

(* What the nodes up to the current one lead to is found or looked at yet. *)
Sorting ==
  pc = "sort" =>
    /\ cur < B!N /\ nodes[B!N] = B!Blank
    /\ free <= cur => todo = {}
    /\ \A m \in todo : \E x \in Placed : m \in B!Out(x)
    /\ \A k \in 1 .. cur : k < free =>
         B!Out(nodes[k]) \subseteq Placed \cup {IdEnd} \cup todo

Sorted ==
  pc \notin {"sort", "ErrMissingNode"} =>
    /\ nodes[B!N] = IdEnd
    /\ \A x \in Placed : B!Out(x) \subseteq Placed \cup {IdEnd}

StartFirst == ~B!BackToStart => nodes[1] = IdStart

Lost == pc = "ErrMissingNode" => B!Undefined # {}

LEMMA BuilderFacts ==
  ASSUME B!IsBuilder(builder)
  PROVE  /\ B!N \in Nat /\ B!N >= 2
         /\ IsFiniteSet(B!Defs) /\ Cardinality(B!Defs) <= B!N
         /\ IdStart \in B!Defs /\ IdEnd \in B!Defs /\ B!Blank \notin B!Defs
         /\ B!Out(IdEnd) = {} /\ B!Out(B!Blank) = {}
         /\ \A x : B!Blank \notin B!Out(x)
         /\ B!Out(IdStart) = builder.out[IdStart]
<1> DEFINE d == builder.defs
<1>1. d \in Seq(ToSet(d))
  BY DEF B!IsBuilder, B!ToSet, ToSet
<1>2. B!N \in Nat /\ DOMAIN d = 1 .. B!N
  BY <1>1 DEF B!N
<1>3. B!Defs = {d[k] : k \in 1 .. B!N}
  BY <1>2 DEF B!Defs, B!ToSet
<1>4. IdStart \in B!Defs /\ IdEnd \in B!Defs
  BY DEF B!IsBuilder, B!Defs
<1>5. PICK a \in 1 .. B!N : d[a] = IdStart
  BY <1>3, <1>4
<1>6. PICK e \in 1 .. B!N : d[e] = IdEnd
  BY <1>3, <1>4
<1>7. a # e
  BY <1>5, <1>6, WiringAssumption
<1>8. B!N >= 2
  BY <1>2, <1>7
<1>9. IsFiniteSet(B!Defs) /\ Cardinality(B!Defs) <= B!N
  <2>1. IsFiniteSet(1 .. B!N) /\ Cardinality(1 .. B!N) = B!N
    BY <1>2, <1>8, FS_Interval
  <2> DEFINE f == [k \in 1 .. B!N |-> d[k]]
  <2>2. f \in Surjection(1 .. B!N, B!Defs)
    BY <1>3 DEF Surjection
  <2>3. IsFiniteSet(B!Defs) /\ Cardinality(B!Defs) <= Cardinality(1 .. B!N)
    BY <2>1, <2>2, FS_Surjection
  <2>4. QED
    BY <2>1, <2>3
<1>10. B!Blank \notin B!Defs /\ \A n \in B!Defs : B!Blank \notin builder.out[n]
  BY DEF B!IsBuilder, B!Defs
<1>11. B!Out(IdEnd) = {}
  BY <1>4 DEF B!Out, B!IsBuilder
<1>12. \A x : B!Blank \notin B!Out(x)
  BY <1>10 DEF B!Out
<1>13. B!Out(B!Blank) = {} /\ B!Out(IdStart) = builder.out[IdStart]
  BY <1>4, <1>10 DEF B!Out
<1>14. QED
  BY <1>2, <1>4, <1>8, <1>9, <1>10, <1>11, <1>12, <1>13

LEMMA SameGraph ==
  ASSUME builder' = builder
  PROVE  /\ B!N' = B!N /\ B!Defs' = B!Defs /\ B!IsBuilder(builder)' = B!IsBuilder(builder)
         /\ \A x : B!Out(x)' = B!Out(x)
         /\ \A from, k : Level(from, k)' = Level(from, k)
         /\ \A from : B!ReachedFrom(from)' = B!ReachedFrom(from)
         /\ B!Reachable' = B!Reachable /\ B!BackToStart' = B!BackToStart
         /\ B!Undefined' = B!Undefined /\ B!Cyclic' = B!Cyclic
  BY DEF B!N, B!Defs, B!IsBuilder, B!Out, Level, Steps, B!ReachedFrom, B!Reachable,
     B!BackToStart, B!Undefined, B!Cyclic

BI == Slice /\ Found /\ Sorting /\ Sorted /\ StartFirst /\ Lost

(* There is a place left for a node that is not the end and not yet found. *)
LEMMA RoomLeft ==
  ASSUME Slice, NEW n \in B!Defs \ {IdEnd}, n \notin Placed
  PROVE  free + 1 \in 2 .. B!N
<1>1. B!N \in Nat /\ free \in 2 .. B!N
  BY BuilderFacts DEF Slice
<1> SUFFICES ASSUME free = B!N PROVE FALSE
  BY <1>1
<1> DEFINE T == B!Defs \ {IdEnd}
           g == [k \in 1 .. B!N |-> IF k = B!N THEN n ELSE nodes[k]]
<1>2. IsFiniteSet(B!Defs) /\ Cardinality(B!Defs) <= B!N /\ IdEnd \in B!Defs
  BY BuilderFacts DEF Slice
<1>3. IsFiniteSet(T) /\ Cardinality(T) = Cardinality(B!Defs) - 1
  BY <1>2, FS_RemoveElement
<1>4. Cardinality(B!Defs) \in Nat
  BY <1>2, FS_CardinalityType
<1>5. IsFiniteSet(1 .. B!N) /\ Cardinality(1 .. B!N) = B!N
  BY <1>1, FS_Interval
<1>6. Cardinality(T) < Cardinality(1 .. B!N)
  <2> HIDE DEF T
  <2>1. Cardinality(T) < B!N
    BY <1>1, <1>2, <1>3, <1>4
  <2>2. QED
    BY <1>5, <2>1
<1>7. \A k \in 1 .. B!N : k # B!N => k \in 1 .. free - 1
  BY <1>1
<1>8. g \in [1 .. B!N -> T]
  BY <1>7 DEF Slice
<1>9. PICK k, l \in 1 .. B!N : k # l /\ g[k] = g[l]
  <2> DEFINE I == 1 .. B!N
  <2>1. IsFiniteSet(I) /\ IsFiniteSet(T) /\ Cardinality(T) < Cardinality(I)
        /\ g \in [I -> T]
    BY <1>3, <1>5, <1>6, <1>8
  <2> HIDE DEF I, T, g
  <2>2. \E k, l \in I : k # l /\ g[k] = g[l]
    BY <2>1, FS_PigeonHole
  <2>3. QED
    BY <2>2 DEF I
<1>10. \A j \in 1 .. B!N : j # B!N => g[j] \in Placed /\ g[j] = nodes[j]
  BY <1>7 DEF Placed
<1>11. g[B!N] = n
  BY <1>1
<1>12. k # B!N /\ l # B!N
  BY <1>9, <1>10, <1>11
<1>13. QED
  BY <1>7, <1>9, <1>10, <1>12 DEF Slice

LEMMA StartBuilder ==
  ASSUME B!Init
  PROVE  BI
<1>1. /\ B!IsBuilder(builder) /\ free = 2 /\ cur = 1 /\ pc = "sort"
      /\ nodes = [k \in 1 .. B!N |-> IF k = 1 THEN IdStart ELSE B!Blank]
      /\ todo = builder.out[IdStart]
  BY DEF B!Init, B!N
<1>2. B!N \in Nat /\ B!N >= 2 /\ IdStart \in B!Defs /\ B!Out(IdStart) = todo
  BY <1>1, BuilderFacts
<1>3. IdStart # IdEnd
  BY WiringAssumption
<1>4. 1 .. free - 1 = {1} /\ nodes[1] = IdStart /\ nodes[B!N] = B!Blank
  BY <1>1, <1>2
<1>5. Placed = {IdStart}
  BY <1>4 DEF Placed
<1>6. Slice
  BY <1>1, <1>2, <1>3, <1>4 DEF Slice
<1>7. Found
  BY <1>1, <1>2, <1>5, Levels DEF Found
<1>8. Sorting
  <2>1. \A k \in 1 .. cur : k = 1
    BY <1>1
  <2>2. QED
    BY <1>1, <1>2, <1>4, <1>5, <2>1 DEF Sorting
<1>9. QED
  BY <1>1, <1>4, <1>6, <1>7, <1>8 DEF BI, Sorted, StartFirst, Lost

(* The node a link leads to is reached in one step more.                   *)
LEMMA Reached ==
  ASSUME Slice, Found, NEW x \in Placed, NEW n \in B!Out(x)
  PROVE  /\ n \in Level({IdStart}, free - 1) /\ n \in B!Reachable
         /\ x \in B!Reachable
<1>1. B!N \in Nat /\ free - 1 \in 1 .. B!N /\ free - 2 \in 0 .. B!N
      /\ (free - 1) - 1 = free - 2 /\ free - 1 \in 0 .. B!N
  BY BuilderFacts DEF Slice
<1>2. x \in Level({IdStart}, free - 2)
  BY DEF Found
<1>3. n \in Level({IdStart}, free - 1)
  BY <1>1, <1>2, Levels
<1>4. QED
  BY <1>1, <1>2, <1>3, LevelsGrow DEF B!Reachable

(* Steps that place no node.                                               *)
LEMMA SliceKept ==
  ASSUME BI, UNCHANGED <<builder, nodes, free>>, cur' \in 1 .. B!N
  PROVE  /\ Placed' = Placed
         /\ Slice' /\ Found' /\ StartFirst'
         /\ pc' = pc => Sorted' /\ Lost'
<1>1. Placed' = Placed
  BY DEF Placed
<1>2. Slice'
  BY SameGraph DEF BI, Slice, B!Blank
<1>3. Found'
  BY <1>1, SameGraph DEF BI, Found
<1>4. StartFirst'
  BY SameGraph DEF BI, StartFirst
<1>5. pc' = pc => Lost'
  BY SameGraph DEF BI, Lost
<1>6. ASSUME pc' = pc PROVE Sorted'
  BY <1>1, <1>6, SameGraph DEF BI, Sorted
<1>7. QED
  BY <1>1, <1>2, <1>3, <1>4, <1>5, <1>6

LEMMA SkipStep ==
  ASSUME BI, NEW n, B!LinkSkip(n)
  PROVE  BI'
<1>1. /\ pc = "sort" /\ n \in todo /\ todo' = todo \ {n}
      /\ n = IdEnd \/ n \in {nodes[k] : k \in cur .. B!N}
      /\ UNCHANGED <<builder, nodes, free, cur, pc>>
  BY DEF B!LinkSkip, B!Look, B!From
<1>2. Slice /\ Sorting /\ B!IsBuilder(builder)
  BY DEF BI, Slice
<1>3. n # IdEnd => n \in Placed
  <2>1. SUFFICES ASSUME NEW k \in cur .. B!N, n = nodes[k] PROVE n \in Placed
    BY <1>1
  <2>2. n # B!Blank
    BY <1>1, <1>2, BuilderFacts DEF Sorting
  <2>3. B!N \in Nat /\ free \in 2 .. B!N /\ cur \in 1 .. B!N
    BY <1>2, BuilderFacts DEF Slice
  <2>4. k # B!N /\ k \notin free .. B!N - 1
    BY <2>1, <2>2, <1>1, <1>2 DEF Slice, Sorting
  <2>5. k \in 1 .. free - 1
    BY <2>3, <2>4
  <2>6. QED
    BY <2>1, <2>5 DEF Placed
<1>4. Placed' = Placed
  BY <1>1 DEF Placed
<1>5. Slice' /\ Found' /\ StartFirst' /\ Sorted' /\ Lost'
  BY <1>1, <1>2, SliceKept DEF Slice
<1>6. Sorting'
  BY <1>1, <1>2, <1>3, <1>4, SameGraph DEF Sorting, B!Blank
<1>7. QED
  BY <1>5, <1>6 DEF BI

LEMMA MissingStep ==
  ASSUME BI, NEW n, B!LinkMissing(n)
  PROVE  BI'
<1>1. /\ pc = "sort" /\ n \in todo /\ n \notin B!Defs /\ pc' = "ErrMissingNode"
      /\ UNCHANGED <<builder, nodes, free, cur>>
  BY DEF B!LinkMissing, B!Look
<1>2. Placed' = Placed
  BY <1>1 DEF Placed
<1>3. Slice' /\ Found' /\ StartFirst' /\ Sorted' /\ Sorting'
  BY <1>1, SliceKept DEF BI, Slice, Sorted, Sorting
<1>4. n \in B!Reachable
  BY <1>1, Reached DEF BI, Sorting
<1>5. B!Undefined # {}
  BY <1>1, <1>4 DEF B!Undefined
<1>6. Lost'
  BY <1>1, <1>5, SameGraph DEF Lost
<1>7. QED
  BY <1>3, <1>6 DEF BI

LEMMA NewStep ==
  ASSUME BI, NEW n, B!LinkNew(n)
  PROVE  BI'
<1>1. /\ pc = "sort" /\ n \in todo /\ todo' = todo \ {n} /\ n # IdEnd /\ n \in B!Defs
      /\ n \notin {nodes[k] : k \in 1 .. cur - 1} \cup {nodes[k] : k \in cur .. B!N}
      /\ nodes' = [nodes EXCEPT ![free] = n] /\ free' = free + 1
      /\ UNCHANGED <<builder, cur, pc>>
  BY DEF B!LinkNew, B!Look, B!From, B!Before
<1>2. /\ Slice /\ Sorting /\ B!N \in Nat /\ free \in 2 .. B!N /\ cur \in 1 .. B!N
      /\ B!IsBuilder(builder)
  BY BuilderFacts DEF BI, Slice
<1>3. n \notin Placed
  <2>1. \A k \in 1 .. free - 1 : k \in 1 .. cur - 1 \/ k \in cur .. B!N
    BY <1>2
  <2>2. QED
    BY <1>1, <2>1 DEF Placed
<1>4. free + 1 \in 2 .. B!N
  BY <1>1, <1>2, <1>3, RoomLeft
<1>5. nodes' = [k \in 1 .. B!N |-> IF k = free THEN n ELSE nodes[k]]
  BY <1>1, <1>2 DEF Slice
<1>6. free' = free + 1 /\ free \in 1 .. B!N
  BY <1>1, <1>2
<1>7. \A k \in 1 .. B!N : nodes'[k] = IF k = free THEN n ELSE nodes[k]
  BY <1>5
<1>8. \A k \in 1 .. free' - 1 : k = free \/ k \in 1 .. free - 1
  BY <1>2, <1>6
<1>9. \A k \in 1 .. free - 1 : k \in 1 .. B!N /\ k # free /\ k \in 1 .. free' - 1
  BY <1>2, <1>6
<1>10. Placed' = Placed \cup {n}
  <2>1. Placed' = {nodes'[k] : k \in 1 .. free' - 1}
    BY DEF Placed
  <2>2. free \in 1 .. free' - 1
    BY <1>2, <1>6
  <2>3. \A k \in 1 .. free - 1 : nodes'[k] = nodes[k]
    BY <1>7, <1>9
  <2>4. nodes'[free] = n
    BY <1>6, <1>7
  <2>5. ASSUME NEW x \in Placed' PROVE x \in Placed \cup {n}
    BY <2>1, <2>3, <2>4, <1>8 DEF Placed
  <2>6. ASSUME NEW x \in Placed \cup {n} PROVE x \in Placed'
    BY <2>1, <2>2, <2>3, <2>4, <1>9 DEF Placed
  <2>7. QED
    BY <2>5, <2>6
<1>11. \A k \in 1 .. free - 1 : nodes[k] \in Placed
  BY DEF Placed
<1>12. Slice'
  <2>1. nodes' = [k \in 1 .. B!N |-> nodes'[k]]
    BY <1>5
  <2>2. \A k \in 1 .. free' - 1 : nodes'[k] \in B!Defs \ {IdEnd}
    BY <1>1, <1>2, <1>6, <1>7, <1>8, <1>9 DEF Slice
  <2>3. ASSUME NEW k \in 1 .. free' - 1, NEW l \in 1 .. free' - 1, nodes'[k] = nodes'[l]
        PROVE  k = l
    <3>1. \A q \in 1 .. free - 1 : nodes'[q] = nodes[q] /\ nodes[q] # n
      BY <1>3, <1>7, <1>9, <1>11
    <3>2. nodes'[free] = n
      BY <1>6, <1>7
    <3>3. CASE k = free \/ l = free
      BY <2>3, <3>1, <3>2, <3>3, <1>8
    <3>4. CASE k # free /\ l # free
      BY <2>3, <3>1, <3>4, <1>8, <1>2 DEF Slice
    <3>5. QED
      BY <3>3, <3>4
  <2>4. \A k \in free' .. B!N - 1 : k \in free .. B!N - 1 /\ k # free /\ k \in 1 .. B!N
    BY <1>2, <1>6
  <2>5. \A k \in free' .. B!N - 1 : nodes'[k] = B!Blank
    BY <1>2, <1>7, <2>4 DEF Slice
  <2>6. free' \in 2 .. B!N /\ cur' \in 1 .. B!N
    BY <1>1, <1>2, <1>4
  <2>7. B!Blank' = B!Blank
    BY DEF B!Blank
  <2>8. QED
    BY <1>1, <1>2, <2>1, <2>2, <2>3, <2>5, <2>6, <2>7, SameGraph DEF Slice
<1>13. Found'
  <2>1. free' - 2 = free - 1 /\ free - 1 \in 1 .. B!N /\ (free - 1) - 1 = free - 2
    BY <1>2, <1>6
  <2>2. PICK x \in Placed : n \in B!Out(x)
    BY <1>1, <1>2 DEF Sorting
  <2>3. n \in Level({IdStart}, free - 1)
    BY <1>2, <2>2, Reached DEF BI
  <2>4. Level({IdStart}, free - 2) \subseteq Level({IdStart}, free - 1)
    BY <1>2, <2>1, Levels
  <2>5. Placed' \subseteq Level({IdStart}, free - 1)
    BY <1>10, <2>3, <2>4 DEF BI, Found
  <2>8. QED
    BY <2>1, <2>5, <1>1, SameGraph DEF Found
<1>14. Sorting'
  <2>1. cur < free
    BY <1>1, <1>2 DEF Sorting
  <2>2. nodes'[B!N] = B!Blank
    BY <1>1, <1>2, <1>4, <1>6, <1>7 DEF Sorting
  <2>3. \A m \in todo' : \E x \in Placed' : m \in B!Out(x)
    BY <1>1, <1>2, <1>10 DEF Sorting
  <2>4. \A k \in 1 .. cur : k < free /\ k \in 1 .. B!N /\ k # free
    BY <1>2, <2>1
  <2>5. \A k \in 1 .. cur : B!Out(nodes'[k]) \subseteq Placed' \cup {IdEnd} \cup todo'
    BY <1>1, <1>2, <1>7, <1>10, <2>4 DEF Sorting
  <2>6. ~ free' <= cur /\ cur < B!N
    BY <1>1, <1>2, <1>6, <2>1 DEF Sorting
  <2>7. B!Blank' = B!Blank
    BY DEF B!Blank
  <2>8. QED
    BY <1>1, <2>2, <2>3, <2>5, <2>6, <2>7, SameGraph DEF Sorting
<1>15. Sorted' /\ Lost'
  BY <1>1 DEF Sorted, Lost
<1>16. StartFirst'
  BY <1>1, <1>2, <1>7, SameGraph DEF BI, StartFirst
<1>17. QED
  BY <1>12, <1>13, <1>14, <1>15, <1>16 DEF BI

LEMMA SwapStep ==
  ASSUME BI, NEW n, B!LinkSwap(n)
  PROVE  BI'
<1> DEFINE j == CHOOSE k \in DOMAIN nodes : nodes[k] = n
<1>1. /\ pc = "sort" /\ n \in todo /\ todo' = todo \ {n} /\ n # IdEnd
      /\ n \in {nodes[k] : k \in 1 .. cur - 1}
      /\ nodes' = [nodes EXCEPT ![j] = nodes[cur], ![cur] = n]
      /\ UNCHANGED <<builder, free, cur, pc>>
  BY DEF B!LinkSwap, B!Look, B!Before, B!IndexOf
<1>2. /\ Slice /\ Sorting /\ B!N \in Nat /\ free \in 2 .. B!N /\ cur \in 1 .. B!N
      /\ B!IsBuilder(builder) /\ DOMAIN nodes = 1 .. B!N
  BY BuilderFacts DEF BI, Slice
<1>3. cur < free
  BY <1>1, <1>2 DEF Sorting
<1>4. PICK i \in 1 .. cur - 1 : nodes[i] = n
  BY <1>1
<1>5. i \in 1 .. free - 1 /\ cur \in 1 .. free - 1 /\ i # cur /\ i \in 1 .. B!N
      /\ cur # 1 /\ cur \in 1 .. B!N
  BY <1>2, <1>3, <1>4
<1>6. j = i
  <2>1. j \in 1 .. B!N /\ nodes[j] = n
    BY <1>2, <1>4, <1>5
  <2> HIDE DEF j
  <2>2. n # B!Blank /\ nodes[B!N] = B!Blank
    BY <1>1, <1>2, BuilderFacts DEF Sorting
  <2>3. j # B!N /\ j \notin free .. B!N - 1
    BY <2>1, <2>2, <1>2 DEF Slice
  <2>4. j \in 1 .. free - 1
    BY <2>1, <2>3, <1>2
  <2>5. QED
    BY <2>1, <2>4, <1>4, <1>5, <1>2 DEF Slice
<1> HIDE DEF j
<1>7. \A k \in 1 .. B!N : nodes'[k] = IF k = cur THEN n
                                     ELSE IF k = i THEN nodes[cur] ELSE nodes[k]
  BY <1>1, <1>2, <1>5, <1>6
<1>8. nodes' = [k \in 1 .. B!N |-> nodes'[k]]
  BY <1>1, <1>2
<1>9. \A k \in 1 .. free - 1 : k \in 1 .. B!N
  BY <1>2
<1> DEFINE to(k) == IF k = cur THEN i ELSE IF k = i THEN cur ELSE k
<1>10. \A k \in 1 .. B!N : nodes'[k] = nodes[to(k)] /\ to(k) \in 1 .. B!N
  BY <1>4, <1>5, <1>7
<1>11. /\ \A k \in 1 .. free - 1 : to(k) \in 1 .. free - 1 /\ to(to(k)) = k
       /\ \A k \in 1 .. cur : to(k) \in 1 .. cur
       /\ \A k : k \notin {i, cur} => to(k) = k
  BY <1>4, <1>5
<1>12. \A k \in free .. B!N : k \notin {i, cur} /\ k \in 1 .. B!N
  BY <1>2, <1>3, <1>4
<1>13. Placed' = Placed
  <2>1. Placed' = {nodes'[k] : k \in 1 .. free - 1}
    BY <1>1 DEF Placed
  <2>2. ASSUME NEW k \in 1 .. free - 1 PROVE nodes'[k] \in Placed
    BY <1>9, <1>10, <1>11 DEF Placed
  <2>3. ASSUME NEW k \in 1 .. free - 1 PROVE nodes[k] \in Placed'
    <3>1. to(k) \in 1 .. free - 1 /\ nodes'[to(k)] = nodes[to(to(k))]
      BY <1>9, <1>10, <1>11
    <3>2. nodes'[to(k)] = nodes[k]
      BY <3>1, <1>11
    <3>3. QED
      BY <2>1, <3>1, <3>2
  <2>4. QED
    BY <2>1, <2>2, <2>3 DEF Placed
<1>14. Slice'
  <2>1. \A k \in 1 .. free - 1 : nodes'[k] \in B!Defs \ {IdEnd}
    BY <1>2, <1>9, <1>10, <1>11 DEF Slice
  <2>2. ASSUME NEW k \in 1 .. free - 1, NEW l \in 1 .. free - 1, nodes'[k] = nodes'[l]
        PROVE  k = l
    <3>1. to(k) \in 1 .. free - 1 /\ to(l) \in 1 .. free - 1 /\ nodes[to(k)] = nodes[to(l)]
      BY <2>2, <1>9, <1>10, <1>11
    <3>2. to(k) = to(l)
      BY <3>1, <1>2 DEF Slice
    <3>3. to(to(k)) = k /\ to(to(l)) = l
      BY <1>11
    <3>4. QED
      BY <3>2, <3>3
  <2>3. \A k \in free .. B!N - 1 : k \in free .. B!N
    BY <1>2
  <2>4. \A k \in free .. B!N - 1 : nodes'[k] = B!Blank
    BY <1>2, <1>10, <1>11, <1>12, <2>3 DEF Slice
  <2>5. B!Blank' = B!Blank
    BY DEF B!Blank
  <2>6. QED
    BY <1>1, <1>2, <1>8, <2>1, <2>2, <2>4, <2>5, SameGraph DEF Slice
<1>15. Found'
  BY <1>1, <1>13, SameGraph DEF BI, Found
<1>16. Sorting'
  <2>1. nodes'[B!N] = B!Blank
    BY <1>1, <1>2, <1>10, <1>11, <1>12 DEF Sorting
  <2>2. ASSUME NEW k \in 1 .. cur
        PROVE  B!Out(nodes'[k]) \subseteq Placed \cup {IdEnd} \cup todo'
    <3>1. to(k) \in 1 .. cur /\ to(k) < free /\ k \in 1 .. B!N
      BY <1>2, <1>3, <1>11
    <3>2. B!Out(nodes[to(k)]) \subseteq Placed \cup {IdEnd} \cup todo
      BY <3>1, <1>1, <1>2 DEF Sorting
    <3>3. n \in Placed
      BY <1>4, <1>5 DEF Placed
    <3>4. QED
      BY <3>1, <3>2, <3>3, <1>1, <1>10
  <2>3. B!Blank' = B!Blank /\ cur < B!N
    BY <1>1, <1>2 DEF B!Blank, Sorting
  <2>4. \A m \in todo' : \E x \in Placed' : m \in B!Out(x)
    BY <1>1, <1>2, <1>13 DEF Sorting
  <2>5. ~ free' <= cur' /\ cur' = cur
    BY <1>1, <1>2, <1>3
  <2>6. \A k \in 1 .. cur : B!Out(nodes'[k]) \subseteq Placed' \cup {IdEnd} \cup todo'
    BY <2>2, <1>13
  <2> HIDE DEF to
  <2>7. /\ cur' < B!N' /\ nodes'[B!N'] = B!Blank'
        /\ free' <= cur' => todo' = {}
    BY <1>1, <2>1, <2>3, <2>5, SameGraph
  <2>8. \A m \in todo' : \E x \in Placed' : m \in B!Out(x)'
    BY <1>1, <2>4, SameGraph
  <2>9. \A k \in 1 .. cur : B!Out(nodes[k])' \subseteq Placed' \cup {IdEnd} \cup todo'
    <3>1. \A k \in 1 .. cur : B!Out(nodes[k])' = B!Out(nodes'[k])
      BY <1>1, SameGraph
    <3>2. QED
      BY <2>6, <3>1
  <2>10. \A k \in 1 .. cur' : k < free' =>
           B!Out(nodes[k])' \subseteq Placed' \cup {IdEnd} \cup todo'
    BY <2>5, <2>9
  <2>11. QED
    BY <2>7, <2>8, <2>10 DEF Sorting
<1>17. Sorted' /\ Lost'
  BY <1>1 DEF Sorted, Lost
<1>18. StartFirst'
  <2>1. SUFFICES ASSUME ~B!BackToStart PROVE nodes'[1] = IdStart
    BY <1>1, SameGraph DEF StartFirst
  <2>2. nodes[1] = IdStart
    BY <2>1 DEF BI, StartFirst
  <2>3. PICK x \in Placed : n \in B!Out(x)
    BY <1>1, <1>2 DEF Sorting
  <2>4. x \in B!Reachable
    BY <2>3, Reached DEF BI
  <2>5. n # IdStart
    BY <2>1, <2>3, <2>4 DEF B!BackToStart
  <2>6. i # 1
    BY <1>4, <2>2, <2>5
  <2>7. 1 \in 1 .. B!N
    BY <1>2
  <2>8. QED
    BY <1>5, <1>7, <2>2, <2>6, <2>7
<1>19. QED
  BY <1>14, <1>15, <1>16, <1>17, <1>18 DEF BI

LEMMA NextNodeStep ==
  ASSUME BI, B!NextNode
  PROVE  BI'
<1>1. /\ pc = "sort" /\ todo = {}
      /\ cur' = (IF free <= B!N /\ cur < B!N THEN cur + 1 ELSE cur)
      /\ IF free <= B!N /\ cur' < B!N
         THEN todo' = B!Out(nodes[cur']) /\ UNCHANGED <<nodes, pc>>
         ELSE /\ nodes' = [nodes EXCEPT ![cur'] = IdEnd]
              /\ pc' = "validate"
              /\ UNCHANGED todo
      /\ UNCHANGED <<builder, free>>
  BY DEF B!NextNode
<1>2. /\ Slice /\ Sorting /\ B!N \in Nat /\ free \in 2 .. B!N /\ cur \in 1 .. B!N
      /\ B!IsBuilder(builder) /\ cur < B!N
  BY <1>1, BuilderFacts DEF BI, Slice, Sorting
<1>3. cur' = cur + 1 /\ cur' \in 1 .. B!N
  BY <1>1, <1>2
<1>4. \A k \in 1 .. cur : k < free => B!Out(nodes[k]) \subseteq Placed \cup {IdEnd}
  BY <1>1, <1>2 DEF Sorting
<1>5. CASE cur' < B!N
  <2>1. todo' = B!Out(nodes[cur + 1]) /\ UNCHANGED <<builder, nodes, free, pc>>
    BY <1>1, <1>2, <1>3, <1>5
  <2>2. Placed' = Placed /\ Slice' /\ Found' /\ StartFirst' /\ Sorted' /\ Lost'
    BY <1>3, <2>1, SliceKept
  <2>3. \A k \in 1 .. cur' : k \in 1 .. cur \/ k = cur + 1
    BY <1>2, <1>3
  <2>4. \A k \in 1 .. cur' : k < free =>
          B!Out(nodes[k]) \subseteq Placed \cup {IdEnd} \cup todo'
    BY <1>4, <2>1, <2>3
  <2>5. free <= cur' => todo' = {}
    <3>1. SUFFICES ASSUME free <= cur + 1 PROVE todo' = {}
      BY <1>3
    <3>2. cur + 1 \in free .. B!N - 1
      BY <1>2, <1>3, <1>5, <3>1
    <3>3. nodes[cur + 1] = B!Blank
      BY <1>2, <3>2 DEF Slice
    <3>4. QED
      BY <2>1, <3>3, <1>2, BuilderFacts
  <2>6. \A m \in todo' : \E x \in Placed : m \in B!Out(x)
    <3>1. SUFFICES ASSUME NEW m \in todo' PROVE \E x \in Placed : m \in B!Out(x)
      OBVIOUS
    <3>2. ~ free <= cur + 1
      BY <2>5, <3>1, <1>3
    <3>3. cur + 1 \in 1 .. free - 1
      BY <1>2, <3>2
    <3>4. nodes[cur + 1] \in Placed
      BY <3>3 DEF Placed
    <3>5. QED
      BY <2>1, <3>1, <3>4
  <2>7. nodes'[B!N] = B!Blank /\ B!Blank' = B!Blank
    BY <1>1, <1>2, <2>1 DEF Sorting, B!Blank
  <2>8. Sorting'
    BY <1>1, <1>5, <2>1, <2>2, <2>4, <2>5, <2>6, <2>7, SameGraph DEF Sorting
  <2>9. QED
    BY <2>2, <2>8 DEF BI
<1>6. CASE ~ cur' < B!N
  <2>1. cur' = B!N /\ nodes' = [nodes EXCEPT ![B!N] = IdEnd] /\ pc' = "validate"
    BY <1>1, <1>2, <1>3, <1>6
  <2>2. /\ nodes' = [k \in 1 .. B!N |-> nodes'[k]] /\ nodes'[B!N] = IdEnd
        /\ \A k \in 1 .. B!N : k # B!N => nodes'[k] = nodes[k]
    <3>1. B!N \in 1 .. B!N /\ nodes = [k \in 1 .. B!N |-> nodes[k]]
      BY <1>2 DEF Slice
    <3>2. nodes' = [k \in 1 .. B!N |-> IF k = B!N THEN IdEnd ELSE nodes[k]]
      BY <2>1, <3>1
    <3>3. QED
      BY <3>1, <3>2
  <2>3. \A k \in 1 .. B!N - 1 : k \in 1 .. B!N /\ k # B!N
    BY <1>2
  <2>4. \A k \in 1 .. free - 1 : k \in 1 .. B!N - 1
    BY <1>2
  <2>5. \A k \in free .. B!N - 1 : k \in 1 .. B!N - 1
    BY <1>2
  <2>6. Placed' = Placed
    BY <1>1, <2>2, <2>3, <2>4 DEF Placed
  <2>7. Slice'
    <3>1. \A k \in 1 .. B!N - 1 : nodes'[k] = nodes[k]
      BY <2>2, <2>3
    <3>2. \A k \in 1 .. free - 1 : nodes'[k] = nodes[k]
      BY <3>1, <2>4
    <3>3. \A k \in free .. B!N - 1 : nodes'[k] = B!Blank
      BY <3>1, <2>5, <1>2 DEF Slice
    <3>4. B!Blank' = B!Blank
      BY DEF B!Blank
    <3>5. \A k \in 1 .. free - 1 : nodes'[k] \in B!Defs \ {IdEnd}
      BY <1>2, <3>2 DEF Slice
    <3>6. \A k, l \in 1 .. free - 1 : nodes'[k] = nodes'[l] => k = l
      BY <1>2, <3>2 DEF Slice
    <3>7. free' = free /\ builder' = builder
      BY <1>1
    <3>8. nodes' = [k \in 1 .. B!N |-> nodes'[k]]
      BY <2>2
    <3>9. QED
      BY <1>2, <1>3, <3>3, <3>4, <3>5, <3>6, <3>7, <3>8, SameGraph DEF Slice
  <2>8. Found'
    BY <1>1, <2>6, SameGraph DEF BI, Found
  <2>9. StartFirst'
    <3>1. 1 \in 1 .. B!N /\ 1 # B!N
      BY <1>2
    <3>2. QED
      BY <1>1, <2>2, <3>1, SameGraph DEF BI, StartFirst
  <2>10. \A x \in Placed : B!Out(x) \subseteq Placed \cup {IdEnd}
    <3>1. \A k \in 1 .. free - 1 : k \in 1 .. cur /\ k < free
      BY <1>2, <1>3, <2>1
    <3>2. QED
      BY <1>4, <3>1 DEF Placed
  <2>11. Sorted'
    BY <1>1, <2>2, <2>6, <2>10, SameGraph DEF Sorted
  <2>12. Sorting' /\ Lost'
    BY <2>1 DEF Sorting, Lost
  <2>13. QED
    BY <2>7, <2>8, <2>9, <2>11, <2>12 DEF BI
<1>7. QED
  BY <1>5, <1>6

-----------------------------------------------------------------------------
(* The search for cycles: its result, said by what can be reached.         *)

Graph(D) ==
  B!N \in Nat /\ IsFiniteSet(D) /\ Cardinality(D) <= B!N /\ Closed(D)

LEMMA FromEach ==
  ASSUME NEW D, Graph(D), NEW from, from \subseteq D
  PROVE  B!ReachedFrom(from) = UNION {B!ReachedFrom({m}) : m \in from}
<1> DEFINE U == UNION {B!ReachedFrom({m}) : m \in from}
<1>1. \A m \in from : /\ m \in B!ReachedFrom({m}) /\ Closed(B!ReachedFrom({m}))
                      /\ {m} \subseteq D
  BY ReachedClosed DEF Graph
<1>2. Closed(B!ReachedFrom(from)) /\ from \subseteq B!ReachedFrom(from)
  BY ReachedClosed DEF Graph
<1>3. B!ReachedFrom(from) \subseteq U
  <2>1. from \subseteq U /\ Closed(U)
    BY <1>1 DEF Closed
  <2> HIDE DEF U
  <2>2. QED
    BY <2>1, ReachedLeast DEF Graph
<1>4. ASSUME NEW m \in from PROVE B!ReachedFrom({m}) \subseteq B!ReachedFrom(from)
  <2> DEFINE C == B!ReachedFrom(from)
  <2>1. {m} \subseteq C /\ Closed(C)
    BY <1>2
  <2> HIDE DEF C
  <2>2. B!ReachedFrom({m}) \subseteq C
    BY <2>1, ReachedLeast DEF Graph
  <2>3. QED
    BY <2>2 DEF C
<1>5. QED
  BY <1>3, <1>4

LEMMA FromOne ==
  ASSUME NEW D, Graph(D), NEW n \in D
  PROVE  B!ReachedFrom({n}) = {n} \cup B!ReachedFrom(B!Out(n))
<1>1. {n} \subseteq D /\ B!Out(n) \subseteq D
  BY DEF Graph, Closed
<1>2. /\ n \in B!ReachedFrom({n}) /\ Closed(B!ReachedFrom({n}))
      /\ B!Out(n) \subseteq B!ReachedFrom(B!Out(n)) /\ Closed(B!ReachedFrom(B!Out(n)))
  BY <1>1, ReachedClosed DEF Graph
<1>3. B!ReachedFrom({n}) \subseteq {n} \cup B!ReachedFrom(B!Out(n))
  <2> DEFINE C == {n} \cup B!ReachedFrom(B!Out(n))
  <2>1. {n} \subseteq C /\ Closed(C)
    BY <1>2 DEF Closed
  <2> HIDE DEF C
  <2>2. B!ReachedFrom({n}) \subseteq C
    BY <2>1, ReachedLeast DEF Graph
  <2>3. QED
    BY <2>2 DEF C
<1>4. B!ReachedFrom(B!Out(n)) \subseteq B!ReachedFrom({n})
  <2> DEFINE C == B!ReachedFrom({n})
  <2>1. B!Out(n) \subseteq C /\ Closed(C)
    BY <1>2 DEF Closed
  <2> HIDE DEF C
  <2>2. B!ReachedFrom(B!Out(n)) \subseteq C
    BY <2>1, ReachedLeast DEF Graph
  <2>3. QED
    BY <2>2 DEF C
<1>5. QED
  BY <1>2, <1>3, <1>4

(* A walk from n that has passed the nodes of seen meets a node again.     *)
CyclicFrom(n) == \E x \in B!ReachedFrom({n}) : x \in B!ReachedFrom(B!Out(x))
Refused(seen, n) == CyclicFrom(n) \/ \E y \in B!ReachedFrom({n}) : y \in seen

LEMMA RefusedStep ==
  ASSUME NEW D, Graph(D), NEW n \in D, NEW seen, n \notin seen
  PROVE  Refused(seen, n) <=> \E m \in B!Out(n) : Refused(seen \cup {n}, m)
<1> DEFINE R(m) == B!ReachedFrom({m})
           Far == B!ReachedFrom(B!Out(n))
<1>1. R(n) = {n} \cup Far
  BY FromOne
<1>2. B!Out(n) \subseteq D
  BY DEF Graph, Closed
<1>3. Far = UNION {R(m) : m \in B!Out(n)}
  BY <1>2, FromEach
<1> HIDE DEF R, Far
<1>4. ASSUME Refused(seen, n) PROVE \E m \in B!Out(n) : Refused(seen \cup {n}, m)
  <2>1. CASE \E y \in R(n) : y \in seen
    <3>1. PICK y \in Far : y \in seen
      BY <2>1, <1>1
    <3>2. PICK m \in B!Out(n) : y \in R(m)
      BY <1>3
    <3>3. QED
      BY <3>1, <3>2 DEF Refused, R
  <2>2. CASE n \in Far
    <3>1. PICK m \in B!Out(n) : n \in R(m)
      BY <2>2, <1>3
    <3>2. QED
      BY <3>1 DEF Refused, R
  <2>3. CASE \E x \in Far : x \in B!ReachedFrom(B!Out(x))
    <3>1. PICK x \in Far : x \in B!ReachedFrom(B!Out(x))
      BY <2>3
    <3>2. PICK m \in B!Out(n) : x \in R(m)
      BY <1>3
    <3>3. QED
      BY <3>1, <3>2 DEF Refused, CyclicFrom, R
  <2>4. QED
    BY <1>4, <1>1, <2>1, <2>2, <2>3 DEF Refused, CyclicFrom, R, Far
<1>5. ASSUME NEW m \in B!Out(n), Refused(seen \cup {n}, m) PROVE Refused(seen, n)
  <2>1. R(m) \subseteq Far
    BY <1>3
  <2>2. CASE CyclicFrom(m)
    BY <2>1, <2>2, <1>1 DEF Refused, CyclicFrom, R
  <2>3. CASE \E y \in R(m) : y \in seen
    BY <2>1, <2>3, <1>1 DEF Refused, R
  <2>4. CASE n \in R(m)
    <3>1. n \in R(n) /\ n \in Far
      BY <2>1, <2>4, <1>1
    <3>2. QED
      BY <3>1 DEF Refused, CyclicFrom, R, Far
  <2>5. QED
    BY <1>5, <2>2, <2>3, <2>4 DEF Refused, R
<1>6. QED
  BY <1>4, <1>5

LEMMA RefusedSeen ==
  ASSUME NEW D, Graph(D), NEW n \in D, NEW seen, n \in seen
  PROVE  Refused(seen, n)
<1>1. n \in B!ReachedFrom({n})
  BY FromOne
<1>2. QED
  BY <1>1 DEF Refused

(* The equation of validateAsyclic's recursion.                            *)
Whole == B!ToSet(nodes)

OnFrom(w, seen, n) ==
  IF n \in seen THEN {"ErrSyclicGraph"}
  ELSE LET found == (UNION {w[seen \cup {n}][m] : m \in B!Out(n) \cap Whole}) \ {"ok"}
           panic == IF B!Out(n) \subseteq Whole THEN {} ELSE {"panic"}
       IN  IF found \cup panic = {} THEN {"ok"} ELSE found \cup panic

IsWalk(w) == w = [seen \in SUBSET Whole |-> [n \in Whole |-> OnFrom(w, seen, n)]]

Verdict(seen, n) == IF Refused(seen, n) THEN {"ErrSyclicGraph"} ELSE {"ok"}

LEMMA OnFromVerdict ==
  ASSUME Graph(Whole), NEW w, NEW n \in Whole, NEW seen \in SUBSET Whole,
         n \notin seen => \A m \in Whole : w[seen \cup {n}][m] = Verdict(seen \cup {n}, m)
  PROVE  OnFrom(w, seen, n) = Verdict(seen, n)
<1>1. CASE n \in seen
  BY <1>1, RefusedSeen DEF OnFrom, Verdict
<1>2. CASE n \notin seen
  <2> DEFINE found == (UNION {w[seen \cup {n}][m] : m \in B!Out(n) \cap Whole}) \ {"ok"}
             N1 == seen \cup {n}
  <2>1. B!Out(n) \subseteq Whole
    BY DEF Graph, Closed
  <2>2. OnFrom(w, seen, n) = IF found = {} THEN {"ok"} ELSE found
    BY <1>2, <2>1 DEF OnFrom
  <2>3. found = (UNION {w[N1][m] : m \in B!Out(n)}) \ {"ok"}
    BY <2>1
  <2>4. \A m \in B!Out(n) : w[N1][m] = Verdict(N1, m)
    BY <1>2, <2>1
  <2>5. Refused(seen, n) <=> \E m \in B!Out(n) : Refused(N1, m)
    BY <1>2, RefusedStep
  <2> HIDE DEF N1, found
  <2>6. \A x : x \in found <=> x # "ok" /\ \E m \in B!Out(n) : x \in w[N1][m]
    BY <2>3
  <2>7. CASE Refused(seen, n)
    <3>1. PICK m \in B!Out(n) : Refused(N1, m)
      BY <2>5, <2>7
    <3>2. w[N1][m] = {"ErrSyclicGraph"}
      BY <2>4, <3>1 DEF Verdict
    <3>3. \A k \in B!Out(n) : w[N1][k] \subseteq {"ErrSyclicGraph", "ok"}
      BY <2>4 DEF Verdict
    <3>4. \A x \in found : x = "ErrSyclicGraph"
      BY <2>6, <3>3
    <3>5. "ErrSyclicGraph" \in found
      BY <2>6, <3>1, <3>2
    <3>6. found = {"ErrSyclicGraph"} /\ found # {}
      BY <3>4, <3>5
    <3>7. QED
      BY <2>2, <2>7, <3>6 DEF Verdict
  <2>8. CASE ~Refused(seen, n)
    <3>1. \A m \in B!Out(n) : w[N1][m] = {"ok"}
      BY <2>4, <2>5, <2>8 DEF Verdict
    <3>2. found = {}
      BY <2>6, <3>1
    <3>3. QED
      BY <2>2, <2>8, <3>2 DEF Verdict
  <2>9. QED
    BY <2>7, <2>8
<1>3. QED
  BY <1>1, <1>2

LEMMA WalkExists ==
  ASSUME Graph(Whole)
  PROVE  \E w : IsWalk(w)
<1> DEFINE h == [seen \in SUBSET Whole |-> [n \in Whole |-> Verdict(seen, n)]]
<1>1. \A seen \in SUBSET Whole, n \in Whole : h[seen][n] = Verdict(seen, n)
  OBVIOUS
<1>2. ASSUME NEW seen \in SUBSET Whole, NEW n \in Whole
      PROVE  OnFrom(h, seen, n) = Verdict(seen, n)
  <2>1. seen \cup {n} \in SUBSET Whole
    OBVIOUS
  <2>2. \A m \in Whole : h[seen \cup {n}][m] = Verdict(seen \cup {n}, m)
    BY <1>1, <2>1
  <2> HIDE DEF h
  <2>3. QED
    BY <2>2, OnFromVerdict
<1>3. h = [seen \in SUBSET Whole |-> [n \in Whole |-> OnFrom(h, seen, n)]]
  BY <1>2
<1> HIDE DEF h
<1>4. IsWalk(h)
  BY <1>3 DEF IsWalk
<1>5. QED
  BY <1>4

(* Every call passes a node more, so the recursion has one value only.     *)
LEMMA WalkUnique ==
  ASSUME Graph(Whole), NEW w, IsWalk(w), NEW s0 \in SUBSET Whole, NEW n0 \in Whole
  PROVE  w[s0][n0] = Verdict(s0, n0)
<1> DEFINE Bad == {k \in Nat : \E seen \in SUBSET Whole, n \in Whole :
                                 /\ Cardinality(Whole \ seen) = k
                                 /\ w[seen][n] # Verdict(seen, n)}
<1>1. \A seen \in SUBSET Whole : IsFiniteSet(Whole \ seen)
                                 /\ Cardinality(Whole \ seen) \in Nat
  BY FS_Difference, FS_CardinalityType DEF Graph
<1>2. SUFFICES ASSUME Bad # {} PROVE FALSE
  BY <1>1
<1>3. PICK k \in Bad : \A l \in Bad : k <= l
  BY <1>2, LeastIn
<1>4. PICK seen \in SUBSET Whole, n \in Whole :
        Cardinality(Whole \ seen) = k /\ w[seen][n] # Verdict(seen, n)
  BY <1>3
<1>5. w[seen][n] = OnFrom(w, seen, n)
  BY DEF IsWalk
<1>6. ASSUME n \notin seen
      PROVE  \A m \in Whole : w[seen \cup {n}][m] = Verdict(seen \cup {n}, m)
  <2> DEFINE S == Whole \ seen
  <2>1. Whole \ (seen \cup {n}) = S \ {n} /\ n \in S /\ IsFiniteSet(S)
        /\ Cardinality(S) = k /\ k \in Nat
    BY <1>1, <1>4, <1>6
  <2> HIDE DEF S
  <2>2. Cardinality(Whole \ (seen \cup {n})) = k - 1
    BY <2>1, FS_RemoveElement
  <2>3. seen \cup {n} \in SUBSET Whole
    OBVIOUS
  <2>4. k - 1 \in Nat
    BY <1>1, <2>2, <2>3
  <2>5. k - 1 \notin Bad
    <3> HIDE DEF Bad
    <3>1. ~ k <= k - 1
      BY <2>1
    <3>2. QED
      BY <1>3, <3>1
  <2>6. QED
    BY <2>2, <2>3, <2>4, <2>5
<1>7. OnFrom(w, seen, n) = Verdict(seen, n)
  BY <1>6, OnFromVerdict
<1>8. QED
  BY <1>4, <1>5, <1>7

LEMMA WalkVerdict ==
  ASSUME Graph(Whole), nodes[1] \in Whole
  PROVE  B!Walk = IF CyclicFrom(nodes[1]) THEN {"ErrSyclicGraph"} ELSE {"ok"}
<1> DEFINE c == CHOOSE w : IsWalk(w)
<1>1. IsWalk(c)
  BY WalkExists
<1>2. B!Walk = c[{}][nodes[1]]
  BY DEF B!Walk, IsWalk, OnFrom, Whole
<1> HIDE DEF c
<1>3. c[{}][nodes[1]] = Verdict({}, nodes[1])
  BY <1>1, WalkUnique
<1>4. Refused({}, nodes[1]) <=> CyclicFrom(nodes[1])
  BY DEF Refused
<1>5. QED
  BY <1>2, <1>3, <1>4 DEF Verdict

-----------------------------------------------------------------------------
(* The whole of End().                                                     *)

(* What the search for cycles has said.                                    *)
Judged ==
  pc \notin {"sort", "validate", "ErrMissingNode"} =>
    pc = IF CyclicFrom(nodes[1]) THEN "ErrSyclicGraph" ELSE "ok"

BIInv == BI /\ Judged

LEMMA SortedGraph ==
  ASSUME Slice, Sorted, pc \notin {"sort", "ErrMissingNode"}
  PROVE  /\ Graph(Whole) /\ nodes[1] \in Placed /\ nodes[1] \in Whole
         /\ Closed(Placed \cup {IdEnd})
         /\ Placed \cup {IdEnd} \subseteq B!Defs
<1>1. /\ B!N \in Nat /\ B!N >= 2 /\ free \in 2 .. B!N /\ DOMAIN nodes = 1 .. B!N
      /\ B!Out(IdEnd) = {} /\ B!Out(B!Blank) = {} /\ IdEnd \in B!Defs
  BY BuilderFacts DEF Slice
<1>2. \A k \in 1 .. free - 1 : k \in 1 .. B!N
  BY <1>1
<1>3. Whole = {nodes[k] : k \in 1 .. B!N}
  BY <1>1 DEF Whole, B!ToSet
<1>4. Placed \subseteq Whole
  BY <1>2, <1>3 DEF Placed
<1>5. nodes[B!N] = IdEnd /\ \A x \in Placed : B!Out(x) \subseteq Placed \cup {IdEnd}
  BY DEF Sorted
<1>6. IdEnd \in Whole
  <2>1. B!N \in 1 .. B!N
    BY <1>1
  <2>2. QED
    BY <1>3, <1>5, <2>1
<1>7. Closed(Placed \cup {IdEnd})
  BY <1>1, <1>5 DEF Closed
<1>8. \A x \in Whole : x \in Placed \cup {IdEnd, B!Blank}
  <2>1. SUFFICES ASSUME NEW k \in 1 .. B!N PROVE nodes[k] \in Placed \cup {IdEnd, B!Blank}
    BY <1>3
  <2>2. CASE k \in 1 .. free - 1
    BY <2>2 DEF Placed
  <2>3. CASE k \in free .. B!N - 1
    BY <2>3 DEF Slice
  <2>4. CASE k = B!N
    BY <2>4, <1>5
  <2>5. QED
    BY <1>1, <2>1, <2>2, <2>3, <2>4
<1>9. Closed(Whole)
  BY <1>1, <1>4, <1>5, <1>6, <1>8 DEF Closed
<1>10. IsFiniteSet(Whole) /\ Cardinality(Whole) <= B!N
  <2> DEFINE I == 1 .. B!N
             f == [k \in I |-> nodes[k]]
  <2>1. IsFiniteSet(I) /\ Cardinality(I) = B!N
    BY <1>1, FS_Interval
  <2>2. f \in Surjection(I, Whole)
    BY <1>3 DEF Surjection
  <2> HIDE DEF I, f
  <2>3. IsFiniteSet(Whole) /\ Cardinality(Whole) <= Cardinality(I)
    BY <2>1, <2>2, FS_Surjection
  <2>4. QED
    BY <2>1, <2>3
<1>11. 1 \in 1 .. free - 1
  BY <1>1
<1>12. nodes[1] \in Placed
  BY <1>11 DEF Placed
<1>13. Placed \subseteq B!Defs
  BY DEF Placed, Slice
<1>14. QED
  BY <1>1, <1>4, <1>7, <1>9, <1>10, <1>12, <1>13 DEF Graph

LEMMA SortJudged ==
  ASSUME pc' \in {"sort", "validate", "ErrMissingNode"}
  PROVE  Judged'
BY DEF Judged

LEMMA ValidateStep ==
  ASSUME BI, B!Validate
  PROVE  BIInv'
<1>1. pc = "validate" /\ pc' \in B!Walk /\ UNCHANGED <<builder, nodes, free, cur, todo>>
  BY DEF B!Validate
<1>2. Graph(Whole) /\ nodes[1] \in Whole
  BY <1>1, SortedGraph DEF BI
<1>3. pc' = IF CyclicFrom(nodes[1]) THEN "ErrSyclicGraph" ELSE "ok"
  BY <1>1, <1>2, WalkVerdict
<1>4. CyclicFrom(nodes[1])' = CyclicFrom(nodes[1])
  <2>1. nodes'[1] = nodes[1] /\ builder' = builder
    BY <1>1
  <2>2. QED
    BY <2>1 DEF CyclicFrom, B!ReachedFrom, B!Out, B!N, B!Defs
<1>5. Judged'
  BY <1>3, <1>4 DEF Judged
<1>6. /\ Placed' = Placed /\ Slice' /\ Found' /\ StartFirst'
  <2>1. cur' \in 1 .. B!N
    BY <1>1 DEF BI, Slice
  <2>2. QED
    BY <1>1, <2>1, SliceKept
<1>7. pc' \notin {"sort", "ErrMissingNode"}
  BY <1>3
<1>8. Sorting' /\ Lost'
  BY <1>7 DEF Sorting, Lost
<1>9. Sorted'
  BY <1>1, <1>6, SameGraph DEF BI, Sorted
<1>10. QED
  BY <1>5, <1>6, <1>8, <1>9 DEF BIInv, BI

LEMMA BuilderStep == BIInv /\ [B!Next]_B!vars => BIInv'
<1> SUFFICES ASSUME BIInv, [B!Next]_B!vars PROVE BIInv'
  OBVIOUS
<1>1. CASE UNCHANGED B!vars
  <2>1. UNCHANGED <<builder, nodes, free, cur, todo, pc>>
    BY <1>1 DEF B!vars
  <2>2. cur' \in 1 .. B!N
    BY <2>1 DEF BIInv, BI, Slice
  <2>3. Placed' = Placed /\ Slice' /\ Found' /\ StartFirst' /\ Sorted' /\ Lost'
    BY <2>1, <2>2, SliceKept DEF BIInv
  <2>4. Sorting'
    BY <2>1, <2>3, SameGraph DEF BIInv, BI, Sorting, B!Blank
  <2>5. CyclicFrom(nodes[1])' = CyclicFrom(nodes[1])
    BY <2>1 DEF CyclicFrom, B!ReachedFrom, B!Out, B!N, B!Defs
  <2>6. Judged'
    BY <2>1, <2>5 DEF BIInv, Judged
  <2>7. QED
    BY <2>3, <2>4, <2>6 DEF BIInv, BI
<1>2. ASSUME NEW n, B!LinkSkip(n) PROVE BIInv'
  <2>1. pc' = "sort"
    BY <1>2 DEF B!LinkSkip, B!Look
  <2>2. QED
    BY <1>2, <2>1, SkipStep, SortJudged DEF BIInv
<1>3. ASSUME NEW n, B!LinkSwap(n) PROVE BIInv'
  <2>1. pc' = "sort"
    BY <1>3 DEF B!LinkSwap, B!Look
  <2>2. QED
    BY <1>3, <2>1, SwapStep, SortJudged DEF BIInv
<1>4. ASSUME NEW n, B!LinkMissing(n) PROVE BIInv'
  <2>1. pc' = "ErrMissingNode"
    BY <1>4 DEF B!LinkMissing
  <2>2. QED
    BY <1>4, <2>1, MissingStep, SortJudged DEF BIInv
<1>5. ASSUME NEW n, B!LinkNew(n) PROVE BIInv'
  <2>1. pc' = "sort"
    BY <1>5 DEF B!LinkNew, B!Look
  <2>2. QED
    BY <1>5, <2>1, NewStep, SortJudged DEF BIInv
<1>6. CASE B!NextNode
  <2>1. pc' \in {"sort", "validate"}
    BY <1>6 DEF B!NextNode
  <2>2. QED
    BY <1>6, <2>1, NextNodeStep, SortJudged DEF BIInv
<1>7. CASE B!Validate
  BY <1>7, ValidateStep DEF BIInv
<1>8. QED
  BY <1>1, <1>2, <1>3, <1>4, <1>5, <1>6, <1>7 DEF B!Next

(* A story that is given to New as it is has no builder. *)
Built == pc # "given" => BIInv

LEMMA BuilderInvariance == StoriesSpec => []Built
<1>1. BuilderInit \/ GivenInit => Built
  <2>1. ASSUME BuilderInit PROVE Built
    <3>1. B!Init /\ pc = "sort"
      BY <2>1 DEF BuilderInit, B!Init
    <3>2. QED
      BY <3>1, StartBuilder DEF Built, BIInv, Judged
  <2>2. ASSUME GivenInit PROVE Built
    BY <2>2 DEF GivenInit, Built
  <2>3. QED
    BY <2>1, <2>2
<1>2. ASSUME Built, [StoriesNext]_<< builderVars, vars >> PROVE Built'
  <2>1. CASE B!Next
    <3>1. pc # "given"
      BY <2>1 DEF B!Next, B!LinkSkip, B!LinkSwap, B!LinkMissing, B!LinkNew, B!Look,
         B!NextNode, B!Validate
    <3>2. QED
      BY <1>2, <2>1, <3>1, BuilderStep DEF Built
  <2>2. CASE UNCHANGED builderVars
    <3>1. UNCHANGED B!vars /\ pc' = pc
      BY <2>2 DEF builderVars, B!vars
    <3>2. QED
      BY <1>2, <3>1, BuilderStep DEF Built
  <2>3. QED
    BY <1>2, <2>1, <2>2 DEF StoriesNext, HandOver, builderVars
<1>3. QED
  BY <1>1, <1>2, PTL DEF StoriesSpec

(* What can be reached is in the story once it is sorted.                  *)
LEMMA ReachedPlaced ==
  ASSUME BI, pc \notin {"sort", "ErrMissingNode"}, ~B!BackToStart
  PROVE  /\ nodes[1] = IdStart
         /\ B!Reachable \subseteq Placed \cup {IdEnd}
         /\ B!Undefined = {}
<1>1. /\ nodes[1] \in Placed /\ Closed(Placed \cup {IdEnd}) /\ Placed \cup {IdEnd} \subseteq B!Defs
      /\ B!N \in Nat
  BY SortedGraph DEF BI, Graph
<1>2. nodes[1] = IdStart
  BY DEF BI, StartFirst
<1>3. B!Reachable \subseteq Placed \cup {IdEnd}
  <2> DEFINE C == Placed \cup {IdEnd}
  <2>1. {IdStart} \subseteq C /\ Closed(C)
    BY <1>1, <1>2
  <2> HIDE DEF C
  <2>2. B!ReachedFrom({IdStart}) \subseteq C
    BY <1>1, <2>1, ReachedLeast
  <2>3. QED
    BY <2>2 DEF B!Reachable, C
<1>4. QED
  BY <1>1, <1>2, <1>3 DEF B!Undefined

(* End() returns the story of a builder, or the error that says what is    *)
(* wrong with it, for builders of any size: of a node that is missing, or  *)
(* of a cycle, exactly when there is one; and it never panics.             *)
THEOREM BuilderRight == StoriesSpec => []ResultRight
<1>1. ASSUME Built PROVE ResultRight
  <2> SUFFICES ASSUME pc \in B!Results, ~B!BackToStart
               PROVE  pc = IF B!Undefined # {} THEN "ErrMissingNode"
                           ELSE IF B!Cyclic THEN "ErrSyclicGraph" ELSE "ok"
    BY DEF ResultRight, B!ResultRight
  <2> BIInv
    BY <1>1 DEF Built, B!Results
  <2>1. CASE pc = "ErrMissingNode"
    BY <2>1 DEF BIInv, BI, Lost
  <2>2. CASE pc # "ErrMissingNode"
    <3>1. pc \notin {"sort", "validate", "ErrMissingNode"}
      BY <2>2 DEF B!Results
    <3>2. nodes[1] = IdStart /\ B!Undefined = {}
      BY <3>1, ReachedPlaced DEF BIInv
    <3>3. B!Cyclic <=> CyclicFrom(IdStart)
      BY <3>2 DEF B!Cyclic, B!Undefined, B!Reachable, CyclicFrom
    <3>4. pc = IF CyclicFrom(IdStart) THEN "ErrSyclicGraph" ELSE "ok"
      BY <3>1, <3>2 DEF BIInv, Judged
    <3>5. QED
      BY <3>2, <3>3, <3>4
  <2>3. QED
    BY <2>1, <2>2
<1>2. QED
  BY <1>1, BuilderInvariance, PTL

LEMMA SameCardinality == \A S : B!Cardinality(S) = Cardinality(S)
BY DEF B!Cardinality, Cardinality

(* A story that End() returns begins with the start, ends with the end,    *)
(* has every node that can be reached once and nothing else but blanks.    *)
THEOREM BuilderComplete == StoriesSpec => []StoryComplete
<1>1. ASSUME Built PROVE StoryComplete
  <2> SUFFICES ASSUME pc = "ok", ~B!BackToStart
               PROVE  /\ nodes[1] = IdStart /\ nodes[B!N] = IdEnd
                      /\ \A n \in B!Reachable :
                           Cardinality({k \in 1 .. B!N : nodes[k] = n}) = 1
                      /\ \A k \in 1 .. B!N : nodes[k] \in B!Reachable \cup {B!Blank, IdEnd}
    BY SameCardinality DEF StoryComplete, B!StoryComplete
  <2> BIInv
    BY <1>1 DEF Built
  <2>1. pc \notin {"sort", "ErrMissingNode"}
    OBVIOUS
  <2>2. /\ Slice /\ Sorted /\ Found /\ nodes[1] = IdStart
        /\ B!Reachable \subseteq Placed \cup {IdEnd} /\ nodes[B!N] = IdEnd
    BY <2>1, ReachedPlaced DEF BIInv, BI, Sorted
  <2>3. /\ B!N \in Nat /\ B!N >= 2 /\ free \in 2 .. B!N
        /\ IdEnd \in B!Defs /\ B!Blank \notin B!Defs
    BY <2>2, BuilderFacts DEF Slice
  <2>4. \A k \in 1 .. B!N : k \in 1 .. free - 1 \/ k \in free .. B!N - 1 \/ k = B!N
    BY <2>3
  <2>5. \A k \in 1 .. free - 1 : nodes[k] \in Placed /\ nodes[k] \in B!Defs \ {IdEnd}
    BY <2>2 DEF Slice, Placed
  <2>6. \A k \in free .. B!N - 1 : nodes[k] = B!Blank
    BY <2>2 DEF Slice
  <2>7. ASSUME NEW n \in B!Reachable
        PROVE  \E k \in 1 .. B!N : {l \in 1 .. B!N : nodes[l] = n} = {k}
    <3>1. CASE n = IdEnd
      <4>1. \A k \in 1 .. B!N : nodes[k] = n => k = B!N
        BY <3>1, <2>3, <2>4, <2>5, <2>6
      <4>2. B!N \in 1 .. B!N /\ nodes[B!N] = n
        BY <2>2, <2>3, <3>1
      <4>3. QED
        BY <4>1, <4>2
    <3>2. CASE n # IdEnd
      <4>1. PICK k \in 1 .. free - 1 : nodes[k] = n
        BY <2>2, <2>7, <3>2 DEF Placed
      <4>2. n # B!Blank
        BY <2>3, <2>5, <4>1
      <4>3. \A l \in 1 .. B!N : nodes[l] = n => l \in 1 .. free - 1
        BY <2>2, <2>4, <2>6, <3>2, <4>2
      <4>4. \A l \in 1 .. free - 1 : nodes[l] = nodes[k] => l = k
        BY <2>2 DEF Slice
      <4>5. k \in 1 .. B!N
        BY <2>3
      <4>6. QED
        BY <4>1, <4>3, <4>4, <4>5
    <3>3. QED
      BY <3>1, <3>2
  <2>8. \A n \in B!Reachable : Cardinality({k \in 1 .. B!N : nodes[k] = n}) = 1
    BY <2>7, FS_Singleton
  <2>9. Placed \subseteq B!Reachable
    <3>1. free - 2 \in 0 .. B!N
      BY <2>3
    <3>2. QED
      BY <2>2, <2>3, <3>1, LevelsGrow DEF Found, B!Reachable
  <2>10. \A k \in 1 .. B!N : nodes[k] \in B!Reachable \cup {B!Blank, IdEnd}
    BY <2>2, <2>4, <2>5, <2>6, <2>9
  <2>11. QED
    BY <2>2, <2>8, <2>10
<1>2. QED
  BY <1>1, BuilderInvariance, PTL

=============================================================================
