------------------------------ MODULE FetchProofs ------------------------------
(***************************************************************************)
(* From a key to a value, for any configuration, any templates and any     *)
(* answers: the router's groups decide, a source asks for its expanded     *)
(* template, and a merge's object is what its rules leave standing.        *)
(*                                                                         *)
(* The three compare what the code does with a reference, and both sides   *)
(* are recursive.  The library's induction theorems are of no use here;    *)
(* Recursion and SameRecursion, which are about sets and functions, take   *)
(* their place, and rest on NatMin.                                        *)
(*                                                                         *)
(* Placeholders: replace_placeholders reads a text symbol by symbol and    *)
(* the reference rewrites it, again and again.  Every rewriting leaves a   *)
(* text whose reading ends with the same (RewriteKeeps) and that closes    *)
(* one placeholder less, or none.  That is so if replacements have no      *)
(* braces; a pass with their braces quoted shows the one without (Shown).  *)
(*                                                                         *)
(* Merges: the calls form a chain, each at the rule that has called the    *)
(* next (Chained).  What set_nested_value leaves at a path is followed     *)
(* name by name (Walks) beside what it has been given (Nests) and what it  *)
(* returns (Grafts).                                                       *)
(***************************************************************************)
EXTENDS Fetch, Integers, FiniteSetTheorems, WellFoundedInduction, SequenceTheorems, TLAPS

\* Every set of natural numbers that is not empty has a least element: the
\* initial segments up to its elements are finite sets, of which one has no
\* smaller one among them.
LEMMA NatMin == ASSUME NEW T, T \subseteq Nat, T # {}
                PROVE  \E x \in T : \A y \in T : x <= y
<1> DEFINE Below == {1 .. n : n \in T}
<1>1. Below \subseteq FiniteSubsetsOf(Nat)
  BY FS_Interval DEF FiniteSubsetsOf
<1>2. Below # {}
  OBVIOUS
<1> HIDE DEF Below
<1>3. PICK b \in Below : \A c \in Below : <<c, b>> \notin StrictSubsetOrdering(Nat)
  BY <1>1, <1>2, FS_StrictSubsetOrderingWellFounded, WFMin
<1>4. PICK x \in T : b = 1 .. x
  BY DEF Below
<1>5. ASSUME NEW y \in T, y < x PROVE FALSE
  <2>1. 1 .. y \in Below /\ 1 .. y \subseteq b /\ 1 .. y # b /\ b \subseteq Nat /\ 1 .. y \subseteq Nat
    <3>1. x \in Nat /\ y \in Nat
      OBVIOUS
    <3>2. x \in b /\ x \notin 1 .. y
      BY <1>4, <1>5, <3>1
    <3> QED BY <1>4, <1>5, <3>1, <3>2 DEF Below
  <2>2. <<1 .. y, b>> \in StrictSubsetOrdering(Nat)
    BY <1>1, <2>1 DEF StrictSubsetOrdering
  <2> QED BY <1>3, <2>1, <2>2
<1> QED BY <1>5

\* Induction over the natural numbers, stated with a set.
LEMMA NatSets == ASSUME NEW T, 0 \in T, \A n \in Nat : n \in T => n + 1 \in T
                 PROVE  Nat \subseteq T
<1> DEFINE F == Nat \ T
<1>1. CASE F # {}
  <2>1. PICK x \in F : \A y \in F : x <= y
    BY <1>1, NatMin
  <2>2. x # 0 /\ x - 1 \in Nat /\ x - 1 \notin F
    BY <2>1
  <2> QED BY <2>1, <2>2
<1> QED BY <1>1

\* What a recursive function is computed by exists: the values are in D, the
\* first is base and step gives the n-th from the one before.
StepOver(step, D, N) == step \in [D \X (1 .. N) -> D]
Computed(f, base, N, step) ==
    f[0] = base /\ \A n \in 1 .. N : f[n] = step[<<f[n - 1], n>>]

LEMMA Recursion ==
    ASSUME NEW D, NEW base \in D, NEW N \in Nat, NEW step, StepOver(step, D, N)
    PROVE  \E f \in [0 .. N -> D] : Computed(f, base, N, step)
<1> DEFINE Computes(f, m) == Computed(f, base, m, step)
           T == {m \in Nat : m <= N => \E f \in [0 .. m -> D] : Computes(f, m)}
<1>1. 0 \in T
  <2>1. [n \in 0 .. 0 |-> base] \in [0 .. 0 -> D] /\ Computes([n \in 0 .. 0 |-> base], 0)
    BY DEF Computed
  <2> HIDE DEF Computes
  <2> QED BY <2>1
<1>2. ASSUME NEW m \in Nat, m \in T PROVE m + 1 \in T
  <2> SUFFICES ASSUME m + 1 <= N PROVE \E f \in [0 .. m + 1 -> D] : Computes(f, m + 1)
    BY DEF T
  <2>1. PICK g \in [0 .. m -> D] : Computes(g, m)
    BY <1>2
  <2> DEFINE next == step[<<g[m], m + 1>>]
             f == [n \in 0 .. m + 1 |-> IF n = m + 1 THEN next ELSE g[n]]
  <2>2. next \in D
    <3>1. g[m] \in D /\ m + 1 \in 1 .. N
      OBVIOUS
    <3> QED BY <3>1 DEF StepOver
  <2>3. f \in [0 .. m + 1 -> D]
    <3> HIDE DEF next
    <3> QED BY <2>2
  <2>4. f[0] = base
    BY <2>1 DEF Computed
  <2>5. ASSUME NEW n \in 1 .. m + 1 PROVE f[n] = step[<<f[n - 1], n>>]
    <3>1. CASE n = m + 1
      <4>1. f[n] = next /\ f[n - 1] = g[m]
        BY <3>1
      <4> QED BY <3>1, <4>1
    <3>2. CASE n # m + 1
      <4>1. n \in 1 .. m /\ f[n] = g[n] /\ f[n - 1] = g[n - 1]
        BY <3>2
      <4> QED BY <2>1, <4>1 DEF Computed
    <3> QED BY <3>1, <3>2
  <2> HIDE DEF f
  <2> QED BY <2>3, <2>4, <2>5 DEF Computed
<1>3. N \in T
  <2> HIDE DEF T
  <2> QED BY <1>1, <1>2, NatSets
<1> QED BY <1>3 DEF Computed

\* Two functions that are computed alike are alike.
Alike(f, g, first, N) ==
    f[first] = g[first] /\ \A n \in first + 1 .. N : f[n - 1] = g[n - 1] => f[n] = g[n]

LEMMA SameRecursion ==
    ASSUME NEW f, NEW g, NEW first \in Nat, NEW N \in Nat, Alike(f, g, first, N)
    PROVE  \A n \in first .. N : f[n] = g[n]
<1> DEFINE T == {n \in Nat : first + n <= N => f[first + n] = g[first + n]}
<1>1. 0 \in T
  BY DEF Alike
<1>2. ASSUME NEW n \in Nat, n \in T PROVE n + 1 \in T
  <2>1. CASE first + n + 1 <= N
    <3>1. first + n + 1 \in first + 1 .. N /\ first + n + 1 - 1 = first + n
      BY <2>1
    <3>2. f[first + n] = g[first + n]
      BY <1>2, <2>1
    <3>3. f[first + n + 1] = g[first + n + 1]
      BY <3>1, <3>2 DEF Alike
    <3>4. first + n + 1 = first + (n + 1)
      OBVIOUS
    <3> QED BY <3>3, <3>4
  <2> QED BY <2>1
<1>3. Nat \subseteq T
  <2> HIDE DEF T
  <2> QED BY <1>1, <1>2, NatSets
<1>4. ASSUME NEW n \in first .. N PROVE f[n] = g[n]
  <2>1. n - first \in Nat /\ first + (n - first) = n
    OBVIOUS
  <2>2. n - first \in T
    BY <1>3, <2>1
  <2> QED BY <2>1, <2>2
<1> QED BY <1>4

-----------------------------------------------------------------------------
(* Router.                                                                 *)

Flat(blocks) == R!FlattenSeq(blocks)
FirstIn(list, key) == R!SelectInSeq(list, LAMBDA route : Matches(route.pattern, key))

\* SelectInSeq finds the first element that matches.
LEMMA FirstInList ==
    ASSUME NEW list, Len(list) \in Nat, NEW key
    PROVE  /\ FirstIn(list, key) \in 0 .. Len(list)
           /\ FirstIn(list, key) = 0 =>
                  \A i \in 1 .. Len(list) : ~Matches(list[i].pattern, key)
           /\ FirstIn(list, key) # 0 =>
                  /\ Matches(list[FirstIn(list, key)].pattern, key)
                  /\ \A i \in 1 .. FirstIn(list, key) - 1 : ~Matches(list[i].pattern, key)
<1> DEFINE I == {i \in 1 .. Len(list) : Matches(list[i].pattern, key)}
<1>1. FirstIn(list, key) = IF I # {} THEN R!Min(I) ELSE 0
  BY DEF FirstIn, R!SelectInSeq
<1>2. I \subseteq 1 .. Len(list) /\ I \subseteq Nat
  OBVIOUS
<1>3. \A i \in 1 .. Len(list) : i \in I <=> Matches(list[i].pattern, key)
  OBVIOUS
<1> HIDE DEF I
<1>4. CASE I = {}
  BY <1>1, <1>3, <1>4
<1>5. CASE I # {}
  <2>1. \E x \in I : \A y \in I : x <= y
    BY <1>2, <1>5, NatMin
  <2>2. R!Min(I) \in I /\ \A y \in I : R!Min(I) <= y
    BY <2>1 DEF R!Min
  <2> DEFINE least == R!Min(I)
  <2>3. FirstIn(list, key) = least
    BY <1>1, <1>5
  <2>4. /\ least \in 1 .. Len(list)
        /\ Matches(list[least].pattern, key)
        /\ \A i \in 1 .. least - 1 : ~Matches(list[i].pattern, key)
    <3>1. least \in I /\ \A y \in I : least <= y
      BY <2>2
    <3> HIDE DEF least
    <3> QED BY <1>2, <1>3, <3>1
  <2> HIDE DEF least
  <2> QED BY <2>3, <2>4
<1> QED BY <1>4, <1>5

\* FlattenSeq appends the blocks one after the other.
LEMMA FlatSteps ==
    ASSUME NEW S, NEW blocks \in Seq(Seq(S)), blocks # <<>>
    PROVE  \E f \in [0 .. Len(blocks) -> Seq(S)] :
               /\ f[0] = <<>>
               /\ \A n \in 1 .. Len(blocks) : f[n] = f[n - 1] \o blocks[n]
               /\ Flat(blocks) = f[Len(blocks)]
<1> DEFINE Flattens(f) ==
               f = [i \in 1 .. Len(blocks) |->
                       IF i = 1 THEN blocks[i] ELSE f[i - 1] \o blocks[i]]
           flatten == CHOOSE g : Flattens(g)
<1>1. Len(blocks) \in Nat \ {0} /\ \A n \in 1 .. Len(blocks) : blocks[n] \in Seq(S)
  BY EmptySeq, ElementOfSeq
<1>2. Flat(blocks) = flatten[Len(blocks)]
  <2>1. Len(blocks) # 0
    BY <1>1
  <2> QED BY <2>1 DEF Flat, R!FlattenSeq
<1> DEFINE N == Len(blocks)
           step == [a \in Seq(S) \X (1 .. N) |-> a[1] \o blocks[a[2]]]
<1>3. StepOver(step, Seq(S), N)
  <2>1. ASSUME NEW a \in Seq(S) \X (1 .. N) PROVE a[1] \o blocks[a[2]] \in Seq(S)
    BY <1>1, ConcatProperties
  <2> QED BY <2>1 DEF StepOver
<1>4. \A s \in Seq(S), n \in 1 .. N : step[<<s, n>>] = s \o blocks[n]
  OBVIOUS
<1> HIDE DEF step
<1>5. PICK f \in [0 .. N -> Seq(S)] : Computed(f, <<>>, N, step)
  <2> HIDE DEF N
  <2>1. <<>> \in Seq(S) /\ N \in Nat
    BY <1>1 DEF N
  <2> QED BY <1>3, <2>1, Recursion
<1>6. f[0] = <<>> /\ \A n \in 1 .. N : f[n] = f[n - 1] \o blocks[n]
  <2>1. ASSUME NEW n \in 1 .. N PROVE f[n - 1] \in Seq(S)
    <3>1. n - 1 \in 0 .. N
      BY <1>1
    <3> HIDE DEF N
    <3> QED BY <3>1
  <2> HIDE DEF N
  <2> QED BY <1>4, <1>5, <2>1 DEF Computed
<1>6a. f[1] = blocks[1]
  <2>1. 1 \in 1 .. N /\ blocks[1] \in Seq(S)
    <3>1. 1 \in 1 .. Len(blocks)
      BY <1>1
    <3> QED BY <1>1, <3>1
  <2>2. f[1] = <<>> \o blocks[1]
    <3>1. f[1] = f[1 - 1] \o blocks[1]
      BY <1>6, <2>1, Zenon
    <3>2. f[0] = <<>> /\ 1 - 1 = 0
      BY <1>6
    <3> QED BY <3>1, <3>2, Zenon
  <2> QED BY <2>1, <2>2, ConcatEmptySeq
<1> DEFINE h == [i \in 1 .. N |-> f[i]]
<1>7. Flattens(h)
  <2>1. ASSUME NEW i \in 1 .. N
        PROVE  h[i] = IF i = 1 THEN blocks[i] ELSE h[i - 1] \o blocks[i]
    <3>1. CASE i = 1
      BY <1>6a, <3>1
    <3>2. CASE i # 1
      <4>1. i - 1 \in 1 .. N
        BY <1>1, <3>2
      <4> QED BY <1>6, <3>2, <4>1
    <3> QED BY <3>1, <3>2
  <2>2. h = [i \in 1 .. N |-> h[i]]
    OBVIOUS
  <2> HIDE DEF h
  <2> QED BY <2>1, <2>2, Zenon
<1>8. Flattens(flatten)
  <2> HIDE DEF Flattens, h
  <2> QED BY <1>7
<1> HIDE DEF flatten
<1>9. ASSUME NEW i \in 1 .. N
      PROVE  flatten[i] = IF i = 1 THEN blocks[i] ELSE flatten[i - 1] \o blocks[i]
  BY <1>8
<1> HIDE DEF Flattens, N
<1>10. N \in Nat \ {0} /\ N = Len(blocks) /\ \A n \in 1 .. N : blocks[n] \in Seq(S)
  BY <1>1 DEF N
<1>11. \A n \in 1 .. N : flatten[n] = f[n]
  <2>1. flatten[1] = f[1]
    BY <1>6a, <1>9, <1>10
  <2>2. ASSUME NEW n \in 1 + 1 .. N, flatten[n - 1] = f[n - 1] PROVE flatten[n] = f[n]
    <3>1. n \in 1 .. N /\ n # 1
      BY <1>10
    <3> QED BY <1>6, <1>9, <2>2, <3>1
  <2>3. Alike(flatten, f, 1, N)
    BY <2>1, <2>2 DEF Alike
  <2> QED BY <1>10, <2>3, SameRecursion
<1>12. N \in 1 .. N
  BY <1>10
<1>13. /\ f[0] = <<>>
       /\ \A n \in 1 .. N : f[n] = f[n - 1] \o blocks[n]
       /\ Flat(blocks) = f[N]
  BY <1>2, <1>6, <1>10, <1>11, <1>12
<1> QED BY <1>13 DEF N

\* What stands at p in a flat sequence is in the block, and what is before it
\* in the block stands before p.
FromBlock(flat, p, block) ==
    \E q \in 1 .. Len(block) :
        /\ flat[p] = block[q]
        /\ \A before \in 1 .. q - 1 : \E i \in 1 .. p - 1 : flat[i] = block[before]

Flattened(flat, blocks, n) ==
    /\ \A p \in 1 .. Len(flat) : \E b \in 1 .. n : FromBlock(flat, p, blocks[b])
    /\ \A b \in 1 .. n : \A q \in 1 .. Len(blocks[b]) :
           \E p \in 1 .. Len(flat) : flat[p] = blocks[b][q]

\* One more block is appended.
LEMMA AppendBlock ==
    ASSUME NEW S, NEW blocks \in Seq(Seq(S)), NEW flat \in Seq(S),
           NEW n \in Nat, n + 1 \in 1 .. Len(blocks), Flattened(flat, blocks, n)
    PROVE  Flattened(flat \o blocks[n + 1], blocks, n + 1)
<1> DEFINE next == blocks[n + 1]
           more == flat \o next
<1>1. next \in Seq(S)
  BY ElementOfSeq
<1> HIDE DEF next
<1>2. /\ more \in Seq(S)
      /\ Len(more) = Len(flat) + Len(next)
      /\ \A i \in 1 .. Len(flat) + Len(next) :
             more[i] = IF i <= Len(flat) THEN flat[i] ELSE next[i - Len(flat)]
      /\ Len(flat) \in Nat /\ Len(next) \in Nat
  BY <1>1, ConcatProperties, LenProperties
<1> HIDE DEF more
<1>3. ASSUME NEW p \in 1 .. Len(more)
      PROVE  \E b \in 1 .. n + 1 : FromBlock(more, p, blocks[b])
  <2>1. CASE p <= Len(flat)
    <3>1. PICK b \in 1 .. n : FromBlock(flat, p, blocks[b])
      BY <1>2, <2>1 DEF Flattened
    <3>2. PICK q \in 1 .. Len(blocks[b]) :
              /\ flat[p] = blocks[b][q]
              /\ \A before \in 1 .. q - 1 :
                     \E i \in 1 .. p - 1 : flat[i] = blocks[b][before]
      BY <3>1 DEF FromBlock
    <3>3. more[p] = blocks[b][q]
      BY <1>2, <2>1, <3>2
    <3>4. ASSUME NEW before \in 1 .. q - 1
          PROVE  \E i \in 1 .. p - 1 : more[i] = blocks[b][before]
      <4>1. PICK i \in 1 .. p - 1 : flat[i] = blocks[b][before]
        BY <3>2
      <4>2. more[i] = flat[i]
        BY <1>2, <2>1
      <4> QED BY <4>1, <4>2
    <3>5. FromBlock(more, p, blocks[b])
      BY <3>3, <3>4 DEF FromBlock
    <3> QED BY <3>5
  <2>2. CASE p > Len(flat)
    <3> DEFINE q == p - Len(flat)
    <3>1. q \in 1 .. Len(next) /\ more[p] = next[q]
      BY <1>2, <2>2
    <3>2. ASSUME NEW before \in 1 .. q - 1
          PROVE  \E i \in 1 .. p - 1 : more[i] = next[before]
      <4> DEFINE i == before + Len(flat)
      <4>1. /\ i \in 1 .. p - 1 /\ i \in 1 .. Len(flat) + Len(next)
            /\ ~(i <= Len(flat)) /\ i - Len(flat) = before
        BY <1>2, <2>2
      <4> HIDE DEF i
      <4>2. more[i] = next[i - Len(flat)]
        BY <1>2, <4>1
      <4> QED BY <4>1, <4>2
    <3> HIDE DEF q
    <3>3. FromBlock(more, p, next)
      BY <3>1, <3>2 DEF FromBlock
    <3>4. n + 1 \in 1 .. n + 1
      OBVIOUS
    <3> QED BY <3>3, <3>4 DEF next
  <2> QED BY <1>2, <2>1, <2>2
<1>4. ASSUME NEW b \in 1 .. n + 1, NEW q \in 1 .. Len(blocks[b])
      PROVE  \E p \in 1 .. Len(more) : more[p] = blocks[b][q]
  <2>1. CASE b \in 1 .. n
    <3>1. PICK p \in 1 .. Len(flat) : flat[p] = blocks[b][q]
      BY <2>1 DEF Flattened
    <3>2. p \in 1 .. Len(more) /\ more[p] = flat[p]
      BY <1>2
    <3> QED BY <3>1, <3>2
  <2>2. CASE b = n + 1
    <3>1. q \in 1 .. Len(next)
      BY <2>2 DEF next
    <3> DEFINE i == q + Len(flat)
    <3>2. /\ i \in 1 .. Len(more) /\ i \in 1 .. Len(flat) + Len(next)
          /\ ~(i <= Len(flat)) /\ i - Len(flat) = q
      BY <1>2, <3>1
    <3> HIDE DEF i
    <3>3. more[i] = next[q]
      BY <1>2, <3>2
    <3> QED BY <2>2, <3>2, <3>3 DEF next
  <2> QED BY <2>1, <2>2
<1> QED BY <1>3, <1>4 DEF Flattened, more, next

\* FlattenSeq has every element of every block, in the block's order.
LEMMA FlatHasBlocks ==
    ASSUME NEW S, NEW blocks \in Seq(Seq(S))
    PROVE  Flat(blocks) \in Seq(S) /\ Flattened(Flat(blocks), blocks, Len(blocks))
<1>1. CASE blocks = <<>>
  <2>1. Flat(blocks) = <<>> /\ Len(blocks) = 0 /\ Len(Flat(blocks)) = 0
    BY <1>1 DEF Flat, R!FlattenSeq
  <2> QED BY <2>1 DEF Flattened
<1>2. CASE blocks # <<>>
  <2> DEFINE N == Len(blocks)
  <2>1. PICK f \in [0 .. N -> Seq(S)] :
            /\ f[0] = <<>>
            /\ \A n \in 1 .. N : f[n] = f[n - 1] \o blocks[n]
            /\ Flat(blocks) = f[N]
    BY <1>2, FlatSteps
  <2>2. N \in Nat
    OBVIOUS
  <2> DEFINE T == {n \in Nat : n <= N => Flattened(f[n], blocks, n)}
  <2>3. 0 \in T
    <3>1. f[0] = <<>>
      BY <2>1
    <3> HIDE DEF N
    <3>2. Flattened(f[0], blocks, 0)
      BY <3>1 DEF Flattened
    <3> QED BY <3>2
  <2>4. ASSUME NEW n \in Nat, n \in T PROVE n + 1 \in T
    <3>1. CASE n + 1 <= N
      <4> HIDE DEF N
      <4>1. Flattened(f[n], blocks, n) /\ f[n] \in Seq(S) /\ n + 1 \in 1 .. N
        BY <2>2, <2>4, <3>1
      <4>2. f[n + 1] = f[n] \o blocks[n + 1]
        <5> DEFINE k == n + 1
        <5>1. k \in 1 .. N /\ k - 1 = n
          BY <4>1
        <5> HIDE DEF k
        <5>2. f[k] = f[k - 1] \o blocks[k]
          BY <2>1, <5>1
        <5>3. f[k] = f[n] \o blocks[k]
          BY <5>1, <5>2
        <5> QED BY <5>3 DEF k
      <4>3. Flattened(f[n] \o blocks[n + 1], blocks, n + 1)
        BY <4>1, AppendBlock DEF N
      <4> HIDE DEF T
      <4>4. Flattened(f[n + 1], blocks, n + 1)
        BY <4>2, <4>3, Zenon
      <4> QED BY <4>4 DEF T
    <3> QED BY <3>1, <2>2
  <2>5. Nat \subseteq T
    <3> HIDE DEF T
    <3> QED BY <2>3, <2>4, NatSets
  <2>6. f[N] \in Seq(S)
    <3> HIDE DEF N
    <3> QED BY <2>2
  <2> QED BY <2>1, <2>2, <2>5, <2>6
<1> QED BY <1>1, <1>2

RouterOK ==
    /\ \E config \in Configs : groups = config.routes
    /\ rules \in {R!Routes(order) : order \in R!Orders}

\* The routes of all groups.
AllRoutes == UNION {{groups[group][i] : i \in DOMAIN groups[group]} : group \in DOMAIN groups}

LEMMA GroupsAreLists ==
    ASSUME RouterOK, NEW group \in DOMAIN groups
    PROVE  groups[group] \in Seq(AllRoutes) /\ IsFiniteSet(DOMAIN groups)
<1>1. IsSequence(groups[group]) /\ IsFiniteSet(DOMAIN groups)
  BY FetchAssumption DEF RouterOK
<1> DEFINE S == {groups[group][i] : i \in DOMAIN groups[group]}
<1>2. groups[group] \in Seq(S)
  BY <1>1 DEF IsSequence
<1>3. S \subseteq AllRoutes
  BY DEF AllRoutes
<1> QED BY <1>1, <1>2, <1>3, SeqMonotonic

\* Every group has one place in an order of the groups.
LEMMA OrderHasGroups ==
    ASSUME RouterOK, NEW order \in R!Orders
    PROVE  /\ order \in Seq(DOMAIN groups)
           /\ DOMAIN order = 1 .. Len(order)
           /\ \A group \in DOMAIN groups : \E i \in 1 .. Len(order) : order[i] = group
<1> DEFINE G == DOMAIN groups
           n == Cardinality(G)
<1>1. IsFiniteSet(G)
  BY FetchAssumption DEF RouterOK
<1>2. n \in Nat
  BY <1>1, FS_CardinalityType
<1>3. order \in [1 .. n -> G] /\ \A i, j \in 1 .. n : i # j => order[i] # order[j]
  BY DEF R!Orders, R!SetToSeqs, R!Cardinality, Cardinality
<1> HIDE DEF G, n
<1>4. order \in Seq(G) /\ Len(order) = n /\ DOMAIN order = 1 .. n
  BY <1>2, <1>3
<1>5. order \in Injection(1 .. n, G)
  BY <1>3 DEF Injection, IsInjective
<1>6. Cardinality(1 .. n) = n
  BY <1>2, FS_Interval
<1>7. order \in Surjection(1 .. n, G)
  BY <1>1, <1>5, <1>6, FS_Injection DEF n
<1>8. \A group \in G : \E i \in 1 .. n : order[i] = group
  BY <1>7 DEF Surjection
<1> QED BY <1>4, <1>8 DEF G

\* The first rule that matches is the first match of a group, if one has any.
LEMMA FirstRuleIsFirstOfGroup ==
    ASSUME RouterOK, NEW key
    PROVE  IF R!GroupsOf(key) = {} THEN R!FirstMatch(key) = 0
           ELSE /\ R!FirstMatch(key) # 0
                /\ \E group \in R!GroupsOf(key) :
                       rules[R!FirstMatch(key)] = groups[group][R!MatchIn(group, key)]
<1>1. PICK order \in R!Orders : rules = R!Routes(order)
  BY DEF RouterOK
<1> DEFINE blocks == [i \in DOMAIN order |-> groups[order[i]]]
           p == FirstIn(rules, key)
<1>2. rules = Flat(blocks)
  BY <1>1 DEF R!Routes, Flat
<1>3. /\ blocks \in Seq(Seq(AllRoutes))
      /\ Len(blocks) = Len(order) /\ Len(order) \in Nat
      /\ \A i \in 1 .. Len(order) : blocks[i] = groups[order[i]] /\ order[i] \in DOMAIN groups
      /\ \A group \in DOMAIN groups : \E i \in 1 .. Len(order) : order[i] = group
  <2>1. /\ order \in Seq(DOMAIN groups) /\ DOMAIN order = 1 .. Len(order)
        /\ \A group \in DOMAIN groups : \E i \in 1 .. Len(order) : order[i] = group
    BY OrderHasGroups
  <2>2. \A i \in 1 .. Len(order) : groups[order[i]] \in Seq(AllRoutes)
    BY <2>1, GroupsAreLists
  <2> QED BY <2>1, <2>2
<1> HIDE DEF blocks
<1>4. rules \in Seq(AllRoutes) /\ Flattened(rules, blocks, Len(blocks))
  BY <1>2, <1>3, FlatHasBlocks
<1>5. R!FirstMatch(key) = p
  BY DEF R!FirstMatch, FirstIn
<1>6. \A group : R!MatchIn(group, key) = FirstIn(groups[group], key)
  BY DEF R!MatchIn, FirstIn
<1>7. \A group \in DOMAIN groups : Len(groups[group]) \in Nat
  BY GroupsAreLists
<1>8. ASSUME NEW group \in R!GroupsOf(key) PROVE p # 0
  <2>1. group \in DOMAIN groups /\ FirstIn(groups[group], key) > 0
    BY <1>6 DEF R!GroupsOf
  <2>2. PICK q \in 1 .. Len(groups[group]) : Matches(groups[group][q].pattern, key)
    BY <1>7, <2>1, FirstInList
  <2>3. PICK b \in 1 .. Len(blocks) : blocks[b] = groups[group]
    BY <1>3, <2>1
  <2>4. PICK i \in 1 .. Len(rules) : rules[i] = groups[group][q]
    BY <1>4, <2>2, <2>3 DEF Flattened
  <2>5. Matches(rules[i].pattern, key) /\ Len(rules) \in Nat
    BY <1>4, <2>2, <2>4
  <2> QED BY <2>5, FirstInList
<1>9. ASSUME p # 0
      PROVE  \E group \in R!GroupsOf(key) : rules[p] = groups[group][R!MatchIn(group, key)]
  <2> HIDE DEF p
  <2>1. /\ p \in 1 .. Len(rules) /\ Matches(rules[p].pattern, key)
        /\ \A i \in 1 .. p - 1 : ~Matches(rules[i].pattern, key)
    <3>1. Len(rules) \in Nat
      BY <1>4
    <3> QED BY <1>9, <3>1, FirstInList DEF p
  <2>2. PICK b \in 1 .. Len(blocks) : FromBlock(rules, p, blocks[b])
    BY <1>4, <2>1 DEF Flattened
  <2> DEFINE list == blocks[b]
             first == FirstIn(list, key)
  <2>3. list = groups[order[b]] /\ order[b] \in DOMAIN groups /\ Len(list) \in Nat
    BY <1>3, <1>7
  <2> HIDE DEF list
  <2>4. PICK q \in 1 .. Len(list) :
            /\ rules[p] = list[q]
            /\ \A before \in 1 .. q - 1 : \E i \in 1 .. p - 1 : rules[i] = list[before]
    BY <2>2 DEF FromBlock, list
  <2>5. Matches(list[q].pattern, key)
        /\ \A before \in 1 .. q - 1 : ~Matches(list[before].pattern, key)
    BY <2>1, <2>4
  <2>6. /\ first \in 0 .. Len(list)
        /\ first = 0 => \A i \in 1 .. Len(list) : ~Matches(list[i].pattern, key)
        /\ first # 0 =>
               /\ Matches(list[first].pattern, key)
               /\ \A i \in 1 .. first - 1 : ~Matches(list[i].pattern, key)
    BY <2>3, FirstInList
  <2> HIDE DEF first
  <2>7. first = q
    BY <2>3, <2>5, <2>6
  <2>8. R!MatchIn(order[b], key) = q /\ q > 0
    BY <1>6, <2>3, <2>7 DEF first
  <2>9. order[b] \in R!GroupsOf(key)
    BY <2>3, <2>8 DEF R!GroupsOf
  <2> QED BY <2>3, <2>4, <2>8, <2>9
<1> HIDE DEF p
<1> QED BY <1>5, <1>8, <1>9

\* Whatever the order in which the groups came, what a lookup finds is right.
LEMMA SourceIsDecided ==
    ASSUME RouterOK, NEW key
    PROVE  IF R!GroupsOf(key) = {} THEN R!Source(key) = NoRoute
           ELSE \E group \in R!GroupsOf(key) :
                    R!Source(key) = groups[group][R!MatchIn(group, key)].source
<1> DEFINE first == R!FirstMatch(key)
<1>1. R!Source(key) = IF first = 0 THEN NoRoute ELSE rules[first].source
  BY DEF R!Source
<1>2. IF R!GroupsOf(key) = {} THEN first = 0
      ELSE /\ first # 0
           /\ \E group \in R!GroupsOf(key) :
                  rules[first] = groups[group][R!MatchIn(group, key)]
  BY FirstRuleIsFirstOfGroup
<1> HIDE DEF first
<1> QED BY <1>1, <1>2

\* GroupDecides, of the groups and the lookups.
GroupsWith(lists, key) == {group \in DOMAIN lists : FirstIn(lists[group], key) > 0}

DecidedBy(lists, l) ==
    IF GroupsWith(lists, l.key) = {} THEN l.source = NoRoute
    ELSE \E group \in GroupsWith(lists, l.key) :
             l.source = lists[group][FirstIn(lists[group], l.key)].source

LEMMA DecidedByGroups ==
    /\ GroupDecides <=> \A l \in lookups : DecidedBy(groups, l)
    /\ GroupDecides' <=> \A l \in lookups' : DecidedBy(groups', l)
<1>1. \A key, group : R!MatchIn(group, key) = FirstIn(groups[group], key)
  BY DEF R!MatchIn, FirstIn
<1>2. \A key : R!GroupsOf(key) = GroupsWith(groups, key)
  BY <1>1 DEF R!GroupsOf, GroupsWith
<1>3. GroupDecides <=> \A l \in lookups : DecidedBy(groups, l)
  BY <1>1, <1>2 DEF GroupDecides, R!GroupDecides, DecidedBy
<1>4. (GroupDecides <=> \A l \in lookups : DecidedBy(groups, l))'
  <2>1. (\A key, group : R!MatchIn(group, key) = FirstIn(groups[group], key))'
    BY DEF R!MatchIn, FirstIn
  <2>2. (\A key : R!GroupsOf(key) = GroupsWith(groups, key))'
    BY <2>1 DEF R!GroupsOf, GroupsWith
  <2> QED BY <2>1, <2>2 DEF GroupDecides, R!GroupDecides, DecidedBy
<1> QED BY <1>3, <1>4

LEMMA LookupKeepsDecided ==
    ASSUME RouterOK, GroupDecides, NEW key, R!Lookup(key)
    PROVE  RouterOK' /\ GroupDecides'
<1> DEFINE new == [key |-> key, source |-> R!Source(key)]
<1>1. lookups' = lookups \cup {new} /\ UNCHANGED <<groups, rules>>
  BY DEF R!Lookup
<1>2. RouterOK'
  BY <1>1 DEF RouterOK, R!Orders, R!Routes
<1>3. DecidedBy(groups, new)
  <2>1. R!GroupsOf(key) = GroupsWith(groups, key)
        /\ \A group : R!MatchIn(group, key) = FirstIn(groups[group], key)
    BY DEF R!GroupsOf, R!MatchIn, GroupsWith, FirstIn
  <2>2. IF R!GroupsOf(key) = {} THEN R!Source(key) = NoRoute
        ELSE \E group \in R!GroupsOf(key) :
                 R!Source(key) = groups[group][R!MatchIn(group, key)].source
    BY SourceIsDecided
  <2> QED BY <2>1, <2>2 DEF DecidedBy
<1> HIDE DEF new
<1> QED BY <1>1, <1>2, <1>3, DecidedByGroups

(* In every life of the server, a key has no source if no group matches it *)
(* and else the source of the first route that matches in one of them,     *)
(* however many groups, routes and keys there are (to_router, rule).       *)
THEOREM GroupDecidesHolds == Spec => []GroupDecides
<1>1. Init => RouterOK /\ GroupDecides
  BY DEF Init, R!Init, RouterOK, GroupDecides, R!GroupDecides
<1>2. RouterOK /\ GroupDecides /\ [Next]_fetchVars => RouterOK' /\ GroupDecides'
  <2> SUFFICES ASSUME RouterOK, GroupDecides, [Next]_fetchVars
               PROVE  RouterOK' /\ GroupDecides'
    OBVIOUS
  <2>1. ASSUME NEW key, R!Lookup(key) PROVE RouterOK' /\ GroupDecides'
    BY <2>1, LookupKeepsDecided
  <2>2. ASSUME UNCHANGED router PROVE RouterOK' /\ GroupDecides'
    <3>1. RouterOK'
      BY <2>2 DEF router, RouterOK, R!Orders, R!Routes
    <3> QED BY <2>2, <3>1, DecidedByGroups DEF router
  <2>3. CASE \E key \in Keys : Ask(key) \/ AskNoRoute(key)
    BY <2>1, <2>3 DEF Ask, AskNoRoute
  <2>4. CASE Call \/ Timeout \/ UNCHANGED fetchVars
    BY <2>2, <2>4 DEF Call, Timeout, fetchVars
  <2>5. CASE Restart
    <3>1. RouterOK'
      BY <2>5 DEF Restart, R!Restart, R!ToRouter, RouterOK, R!Orders, R!Routes
    <3> QED BY <2>5, <3>1, DecidedByGroups DEF Restart, R!Restart
  <2> QED BY <2>3, <2>4, <2>5 DEF Next
<1> QED BY <1>1, <1>2, PTL DEF Spec

-----------------------------------------------------------------------------
(* Placeholders.                                                           *)

Symbol == STRING \cup {"{", "}"} \cup M!Quotes
Text == Seq(Symbol)

\* A text without braces.
Plain == Seq(Symbol \ {"{", "}"})

Pass == [ret : Text, placeholders : Seq(Text)]

\* Replacements without braces.
Braceless(r) == \A v \in DOMAIN r : r[v] \in Plain

LEMMA PlainIsText == Plain \subseteq Text
<1>1. Symbol \ {"{", "}"} \subseteq Symbol
  OBVIOUS
<1> QED BY <1>1, SeqMonotonic DEF Plain, Text

LEMMA Singleton ==
    ASSUME NEW S, NEW e \in S
    PROVE  <<e>> \in Seq(S) /\ Len(<<e>>) = 1 /\ <<e>>[1] = e
OBVIOUS

LEMMA TextConcat ==
    ASSUME NEW s \in Text, NEW t \in Text
    PROVE  /\ s \o t \in Text
           /\ Len(s) \in Nat /\ Len(t) \in Nat /\ Len(s \o t) = Len(s) + Len(t)
           /\ \A i \in 1 .. Len(s) + Len(t) :
                  (s \o t)[i] = IF i <= Len(s) THEN s[i] ELSE t[i - Len(s)]
           /\ s \o <<>> = s /\ <<>> \o s = s /\ <<>> \in Text
           /\ \A u \in Text : (s \o t) \o u = s \o (t \o u)
<1>1. \A u \in Text : (s \o t) \o u = s \o (t \o u)
  BY ConcatAssociative DEF Text
<1> QED BY <1>1, ConcatProperties, ConcatEmptySeq, EmptySeq, LenProperties DEF Text

LEMMA Braces ==
    "{" \in Symbol /\ "}" \in Symbol /\ <<"{">> \in Text /\ <<"}">> \in Text
<1>1. "{" \in Symbol /\ "}" \in Symbol
  BY DEF Symbol
<1>2. \A ch \in Symbol : <<ch>> \in Text
  BY Singleton DEF Text
<1> QED BY <1>1, <1>2, Zenon

LEMMA PushTypes ==
    ASSUME NEW pass \in Pass, NEW t \in Text
    PROVE  M!Push(pass, t) \in Pass
<1>1. CASE pass.placeholders = <<>>
  <2>1. pass.ret \o t \in Text
    BY ConcatProperties DEF Pass, Text
  <2> QED BY <1>1, <2>1 DEF M!Push, Pass
<1>2. CASE pass.placeholders # <<>>
  <2> DEFINE p == pass.placeholders
             n == Len(p)
  <2>1. p \in Seq(Text) /\ n \in 1 .. Len(p)
    BY <1>2, EmptySeq DEF Pass
  <2>2. p[n] \in Text
    BY <2>1, ElementOfSeq
  <2>3. p[n] \o t \in Text
    BY <2>2, ConcatProperties DEF Text
  <2> HIDE DEF n
  <2>4. [p EXCEPT ![n] = p[n] \o t] \in Seq(Text)
    BY <2>1, <2>3, ExceptSeq
  <2>5. M!Push(pass, t) = [pass EXCEPT !.placeholders = [p EXCEPT ![n] = p[n] \o t]]
    BY <1>2 DEF M!Push, n
  <2> HIDE DEF p
  <2> QED BY <2>4, <2>5 DEF Pass
<1> QED BY <1>1, <1>2

LEMMA OpenTypes == ASSUME NEW pass \in Pass PROVE M!Open(pass) \in Pass
<1>1. <<>> \in Text
  BY EmptySeq DEF Text
<1>2. Append(pass.placeholders, <<>>) \in Seq(Text)
  BY <1>1 DEF Pass
<1> QED BY <1>2 DEF M!Open, Pass

LEMMA CloseTypes ==
    ASSUME NEW pass \in Pass, NEW r, Braceless(r)
    PROVE  M!Close(pass, r) \in Pass
<1>1. CASE pass.placeholders = <<>>
  BY <1>1 DEF M!Close
<1>2. CASE pass.placeholders # <<>>
  <2> DEFINE outer == [pass EXCEPT !.placeholders = M!Front(@)]
             name == M!Last(pass.placeholders)
  <2>1. outer \in Pass
    BY <1>2 DEF Pass, M!Front
  <2>2. CASE name \notin DOMAIN r
    BY <1>2, <2>1, <2>2 DEF M!Close
  <2>3. CASE name \in DOMAIN r
    <3>1. r[name] \in Text
      BY <2>3, PlainIsText DEF Braceless
    <3>2. M!Close(pass, r) = M!Push(outer, r[name])
      BY <1>2, <2>3 DEF M!Close
    <3> QED BY <2>1, <3>1, <3>2, PushTypes
  <2> QED BY <2>2, <2>3
<1> QED BY <1>1, <1>2

LEMMA ReadTypes ==
    ASSUME NEW pass \in Pass, NEW ch \in Symbol, NEW r, Braceless(r)
    PROVE  M!Read(pass, ch, r) \in Pass
<1>1. <<ch>> \in Text
  BY Singleton DEF Text
<1>2. CASE ch = "{"
  <2>1. M!Read(pass, ch, r) = M!Open(pass)
    BY <1>2 DEF M!Read
  <2> QED BY <2>1, OpenTypes
<1>3. CASE ch = "}"
  <2>1. M!Read(pass, ch, r) = M!Close(pass, r)
    BY <1>3 DEF M!Read
  <2> QED BY <2>1, CloseTypes
<1>4. CASE ch # "{" /\ ch # "}"
  <2>1. M!Read(pass, ch, r) = M!Push(pass, <<ch>>)
    BY <1>4 DEF M!Read
  <2> QED BY <1>1, <2>1, PushTypes
<1> QED BY <1>2, <1>3, <1>4

\* Reading a text, symbol by symbol, takes the pass from one state to another.
ReadsBy(f, from, t, r) ==
    f[0] = from /\ \A n \in 1 .. Len(t) : f[n] = M!Read(f[n - 1], t[n], r)

Reads(from, t, r, to) ==
    \E f \in [0 .. Len(t) -> Pass] : ReadsBy(f, from, t, r) /\ f[Len(t)] = to

\* There is such a state.
LEMMA ReadsAll ==
    ASSUME NEW t \in Text, NEW from \in Pass, NEW r, Braceless(r)
    PROVE  \E to \in Pass : Reads(from, t, r, to)
<1> DEFINE N == Len(t)
           step == [a \in Pass \X (1 .. N) |-> M!Read(a[1], t[a[2]], r)]
<1>1. N \in Nat /\ \A n \in 1 .. N : t[n] \in Symbol
  BY DEF Text
<1> HIDE DEF N
<1>2. StepOver(step, Pass, N)
  <2>1. ASSUME NEW a \in Pass \X (1 .. N) PROVE M!Read(a[1], t[a[2]], r) \in Pass
    BY <1>1, ReadTypes
  <2> QED BY <2>1 DEF StepOver
<1>3. \A pass \in Pass, n \in 1 .. N : step[<<pass, n>>] = M!Read(pass, t[n], r)
  OBVIOUS
<1> HIDE DEF step
<1>4. PICK f \in [0 .. N -> Pass] : Computed(f, from, N, step)
  BY <1>1, <1>2, Recursion
<1>5. ASSUME NEW n \in 1 .. N PROVE f[n] = M!Read(f[n - 1], t[n], r)
  <2>1. f[n - 1] \in Pass
    <3>1. n - 1 \in 0 .. N
      BY <1>1
    <3> QED BY <3>1
  <2> QED BY <1>3, <1>4, <2>1 DEF Computed
<1>6. ReadsBy(f, from, t, r)
  <2>1. f[0] = from
    BY <1>4 DEF Computed
  <2> QED BY <1>5, <2>1 DEF ReadsBy, N
<1>7. f[N] \in Pass
  BY <1>1
<1> QED BY <1>6, <1>7 DEF Reads, N

\* There is one such state.
LEMMA ReadsSame ==
    ASSUME NEW t \in Text, NEW from, NEW r, NEW f, NEW g,
           ReadsBy(f, from, t, r), ReadsBy(g, from, t, r)
    PROVE  f[Len(t)] = g[Len(t)]
<1>1. Len(t) \in Nat
  BY DEF Text
<1>2. Alike(f, g, 0, Len(t))
  BY <1>1 DEF Alike, ReadsBy
<1>3. Len(t) \in 0 .. Len(t)
  BY <1>1
<1> QED BY <1>1, <1>2, <1>3, SameRecursion

LEMMA ReplacedByReading ==
    ASSUME NEW t \in Text, NEW r, NEW to, Reads(M!Unread, t, r, to)
    PROVE  M!ReplacePlaceholders(t, r) = to.ret
<1> DEFINE Passes(f) ==
               f = [n \in 0 .. Len(t) |->
                       IF n = 0 THEN M!Unread ELSE M!Read(f[n - 1], t[n], r)]
           pass == CHOOSE f : Passes(f)
<1>1. PICK f \in [0 .. Len(t) -> Pass] : ReadsBy(f, M!Unread, t, r) /\ f[Len(t)] = to
  BY DEF Reads
<1>2. Len(t) \in Nat
  BY DEF Text
<1>3. Passes(f)
  <2>1. ASSUME NEW n \in 0 .. Len(t)
        PROVE  f[n] = IF n = 0 THEN M!Unread ELSE M!Read(f[n - 1], t[n], r)
    <3>1. n # 0 => n \in 1 .. Len(t)
      BY <1>2
    <3> QED BY <1>1, <3>1 DEF ReadsBy
  <2>2. f = [n \in 0 .. Len(t) |-> f[n]]
    OBVIOUS
  <2> QED BY <2>1, <2>2, Zenon
<1>4. Passes(pass)
  <2> HIDE DEF Passes
  <2> QED BY <1>3
<1>5. M!ReplacePlaceholders(t, r) = pass[Len(t)].ret
  BY DEF M!ReplacePlaceholders
<1> HIDE DEF pass
<1>6. ReadsBy(pass, M!Unread, t, r)
  BY <1>2, <1>4 DEF ReadsBy
<1> HIDE DEF Passes
<1>7. pass[Len(t)] = f[Len(t)]
  BY <1>1, <1>6, ReadsSame
<1> QED BY <1>1, <1>5, <1>7

LEMMA ReadsNothing == ASSUME NEW from \in Pass, NEW r PROVE Reads(from, <<>>, r, from)
<1> DEFINE f == [n \in 0 .. 0 |-> from]
<1>1. f \in [0 .. Len(<<>>) -> Pass] /\ ReadsBy(f, from, <<>>, r) /\ f[Len(<<>>)] = from
  BY DEF ReadsBy
<1> QED BY <1>1 DEF Reads

LEMMA ReadsSymbol ==
    ASSUME NEW from \in Pass, NEW ch \in Symbol, NEW r, Braceless(r)
    PROVE  Reads(from, <<ch>>, r, M!Read(from, ch, r))
<1> DEFINE t == <<ch>>
           to == M!Read(from, ch, r)
           f == [n \in 0 .. 1 |-> IF n = 0 THEN from ELSE to]
<1>1. Len(t) = 1 /\ t[1] = ch
  OBVIOUS
<1>2. to \in Pass
  BY ReadTypes
<1>3. f \in [0 .. 1 -> Pass] /\ f[0] = from /\ f[1] = to
  <2> HIDE DEF to
  <2> QED BY <1>2
<1>4. ReadsBy(f, from, t, r)
  <2> HIDE DEF f, t
  <2>1. ASSUME NEW n \in 1 .. 1 PROVE f[n] = M!Read(f[n - 1], t[n], r)
    <3>1. n = 1 /\ n - 1 = 0
      OBVIOUS
    <3> QED BY <1>1, <1>3, <3>1
  <2> QED BY <1>1, <1>3, <2>1 DEF ReadsBy
<1> HIDE DEF f, t, to
<1>5. Reads(from, t, r, to)
  BY <1>1, <1>3, <1>4 DEF Reads
<1> QED BY <1>5 DEF t, to

LEMMA ReadsBraces ==
    ASSUME NEW from \in Pass, NEW r, Braceless(r)
    PROVE  /\ Reads(from, <<"{">>, r, M!Open(from))
           /\ Reads(from, <<"}">>, r, M!Close(from, r))
<1>1. \A ch \in Symbol : Reads(from, <<ch>>, r, M!Read(from, ch, r))
  BY ReadsSymbol
<1>2. M!Read(from, "{", r) = M!Open(from) /\ M!Read(from, "}", r) = M!Close(from, r)
  BY DEF M!Read
<1>3. Reads(from, <<"{">>, r, M!Read(from, "{", r))
  BY <1>1, Braces, Zenon
<1>4. Reads(from, <<"}">>, r, M!Read(from, "}", r))
  BY <1>1, Braces, Zenon
<1> QED BY <1>2, <1>3, <1>4, Zenon

LEMMA ReadsConcat ==
    ASSUME NEW t \in Text, NEW u \in Text, NEW r, NEW from, NEW mid, NEW to,
           Reads(from, t, r, mid), Reads(mid, u, r, to)
    PROVE  Reads(from, t \o u, r, to)
<1> DEFINE m == Len(t)
           n == Len(u)
           tu == t \o u
<1>1. /\ m \in Nat /\ n \in Nat /\ Len(tu) = m + n
      /\ \A i \in 1 .. m + n : tu[i] = IF i <= m THEN t[i] ELSE u[i - m]
  BY ConcatProperties DEF Text
<1>2. PICK f \in [0 .. m -> Pass] : ReadsBy(f, from, t, r) /\ f[m] = mid
  BY DEF Reads
<1>3. PICK g \in [0 .. n -> Pass] : ReadsBy(g, mid, u, r) /\ g[n] = to
  BY DEF Reads
<1> DEFINE h == [i \in 0 .. m + n |-> IF i <= m THEN f[i] ELSE g[i - m]]
<1> HIDE DEF tu
<1>4. h \in [0 .. m + n -> Pass]
  <2>1. ASSUME NEW i \in 0 .. m + n PROVE (IF i <= m THEN f[i] ELSE g[i - m]) \in Pass
    <3> HIDE DEF m, n
    <3>1. CASE i <= m
      BY <1>1, <3>1
    <3>2. CASE ~(i <= m)
      <4>1. i - m \in 0 .. n
        BY <1>1, <3>2
      <4> QED BY <3>2, <4>1
    <3> QED BY <3>1, <3>2
  <2> QED BY <2>1
<1>5. \A i \in 0 .. m + n : h[i] = IF i <= m THEN f[i] ELSE g[i - m]
  OBVIOUS
<1> HIDE DEF h
<1>6. /\ f[0] = from /\ \A i \in 1 .. m : f[i] = M!Read(f[i - 1], t[i], r)
      /\ g[0] = mid /\ \A i \in 1 .. n : g[i] = M!Read(g[i - 1], u[i], r)
  BY <1>2, <1>3 DEF ReadsBy
<1> HIDE DEF m, n
<1>7. ASSUME NEW i \in 1 .. m + n PROVE h[i] = M!Read(h[i - 1], tu[i], r)
  <2>1. CASE i <= m
    <3>1. i \in 1 .. m /\ i - 1 \in 0 .. m + n /\ i - 1 <= m /\ i \in 0 .. m + n
      BY <1>1, <2>1
    <3>2. h[i] = f[i] /\ h[i - 1] = f[i - 1] /\ tu[i] = t[i]
      BY <1>1, <1>5, <2>1, <3>1
    <3> QED BY <1>6, <3>1, <3>2
  <2>2. CASE ~(i <= m)
    <3> DEFINE k == i - m
    <3>1. k \in 1 .. n /\ i - 1 \in 0 .. m + n /\ i \in 0 .. m + n
      BY <1>1, <2>2
    <3>2. h[i] = g[k] /\ tu[i] = u[k]
      BY <1>1, <1>5, <2>2, <3>1
    <3>3. h[i - 1] = g[k - 1]
      <4>1. CASE i - 1 <= m
        <5>1. i - 1 = m /\ k - 1 = 0
          BY <1>1, <2>2, <4>1
        <5>2. h[i - 1] = f[i - 1]
          BY <1>5, <3>1, <4>1
        <5> QED BY <1>2, <1>6, <5>1, <5>2
      <4>2. CASE ~(i - 1 <= m)
        <5>1. h[i - 1] = g[i - 1 - m]
          BY <1>5, <3>1, <4>2
        <5>2. i - 1 - m = k - 1
          BY <1>1
        <5> QED BY <5>1, <5>2
      <4> QED BY <4>1, <4>2
    <3> HIDE DEF k
    <3>4. g[k] = M!Read(g[k - 1], u[k], r)
      BY <1>6, <3>1
    <3> QED BY <3>2, <3>3, <3>4
  <2> QED BY <2>1, <2>2
<1>8. h[0] = from
  <2>1. 0 \in 0 .. m + n /\ 0 <= m
    BY <1>1
  <2> QED BY <1>5, <1>6, <2>1
<1>9. h[m + n] = to
  <2>1. m + n \in 0 .. m + n
    BY <1>1
  <2>2. CASE n = 0
    <3>1. m + n = m /\ m + n <= m
      BY <1>1, <2>2
    <3>2. h[m + n] = f[m]
      BY <1>5, <2>1, <3>1
    <3> QED BY <1>2, <1>3, <1>6, <2>2, <3>2
  <2>3. CASE n # 0
    <3>1. ~(m + n <= m) /\ m + n - m = n
      BY <1>1, <2>3
    <3>2. h[m + n] = g[n]
      <4> DEFINE k == m + n
      <4>1. k \in 0 .. m + n /\ ~(k <= m) /\ k - m = n
        BY <1>1, <2>1, <3>1
      <4> HIDE DEF k
      <4>2. h[k] = g[k - m]
        BY <1>5, <4>1
      <4> QED BY <4>1, <4>2 DEF k
    <3> QED BY <1>3, <3>2
  <2> QED BY <2>2, <2>3
<1>10. ReadsBy(h, from, tu, r)
  BY <1>1, <1>7, <1>8 DEF ReadsBy
<1>11. Reads(from, tu, r, to)
  BY <1>1, <1>4, <1>9, <1>10 DEF Reads
<1> QED BY <1>11 DEF tu

\* Texts are pushed one after the other as they are pushed together.
LEMMA PushPush ==
    ASSUME NEW pass \in Pass, NEW t \in Text, NEW u \in Text
    PROVE  /\ M!Push(M!Push(pass, t), u) = M!Push(pass, t \o u)
           /\ M!Push(pass, <<>>) = pass
<1>1. CASE pass.placeholders = <<>>
  <2>1. /\ pass.ret \in Text /\ (pass.ret \o t) \o u = pass.ret \o (t \o u)
        /\ pass.ret \o <<>> = pass.ret
    BY ConcatAssociative, ConcatEmptySeq DEF Pass, Text
  <2> QED BY <1>1, <2>1 DEF M!Push, Pass
<1>2. CASE pass.placeholders # <<>>
  <2> DEFINE p == pass.placeholders
             n == Len(p)
             old == p[n]
             Put(e) == [p EXCEPT ![n] = e]
  <2>1. p \in Seq(Text) /\ n \in 1 .. Len(p) /\ n \in Nat \ {0}
    BY <1>2, EmptySeq DEF Pass
  <2>2. old \in Text
    BY <2>1, ElementOfSeq
  <2>3. /\ old \o t \in Text /\ t \o u \in Text /\ (old \o t) \o u = old \o (t \o u)
        /\ old \o (t \o u) \in Text /\ old \o <<>> = old
    <3> HIDE DEF old
    <3>1. old \o t \in Text /\ t \o u \in Text /\ old \o <<>> = old
      BY <2>2, TextConcat
    <3>2. (old \o t) \o u = old \o (t \o u)
      BY <2>2, ConcatAssociative DEF Text
    <3>3. old \o (t \o u) \in Text
      BY <2>2, <3>1, TextConcat
    <3> QED BY <3>1, <3>2, <3>3
  <2> HIDE DEF n
  <2>4. \A e \in Text : /\ Put(e) \in Seq(Text) /\ Len(Put(e)) = n
                        /\ \A i \in 1 .. n : Put(e)[i] = IF i = n THEN e ELSE p[i]
    BY <2>1, ExceptSeq DEF n
  <2>5. \A e \in Text : Put(e) # <<>>
    BY <2>1, <2>4
  <2> DEFINE more == M!Push(pass, t)
  <2>6. more = [pass EXCEPT !.placeholders = Put(old \o t)]
    BY <1>2 DEF M!Push, n
  <2>7. M!Push(pass, t \o u) = [pass EXCEPT !.placeholders = Put(old \o (t \o u))]
    BY <1>2 DEF M!Push, n
  <2>8. M!Push(pass, <<>>) = [pass EXCEPT !.placeholders = Put(old)]
    BY <1>2, <2>3 DEF M!Push, n
  <2>9. more.placeholders = Put(old \o t) /\ more.ret = pass.ret /\ more \in Pass
    <3>1. Put(old \o t) \in Seq(Text)
      BY <2>3, <2>4
    <3> HIDE DEF more, p
    <3> QED BY <2>6, <3>1 DEF Pass
  <2>10. M!Push(more, u) = 
               [more EXCEPT !.placeholders =
                   [more.placeholders EXCEPT ![n] = more.placeholders[n] \o u]]
    <3>1. more.placeholders # <<>> /\ Len(more.placeholders) = n
      BY <2>3, <2>4, <2>5, <2>9
    <3> HIDE DEF more
    <3> QED BY <3>1 DEF M!Push
  <2>11. [Put(old \o t) EXCEPT ![n] = Put(old \o t)[n] \o u] = Put(old \o (t \o u))
    <3> DEFINE q == Put(old \o t)
    <3>1. q \in Seq(Text) /\ Len(q) = n /\ q[n] = old \o t /\ n \in 1 .. Len(q)
      BY <2>1, <2>3, <2>4
    <3>2. \A i \in 1 .. n : q[i] = IF i = n THEN old \o t ELSE p[i]
      BY <2>3, <2>4
    <3> DEFINE q2 == [q EXCEPT ![n] = old \o (t \o u)]
               q3 == Put(old \o (t \o u))
    <3>3. /\ q3 \in Seq(Text) /\ Len(q3) = n
          /\ \A i \in 1 .. n : q3[i] = IF i = n THEN old \o (t \o u) ELSE p[i]
      BY <2>3, <2>4
    <3> HIDE DEF q, q3
    <3>4. /\ q2 \in Seq(Text) /\ Len(q2) = n
          /\ \A i \in 1 .. n : q2[i] = IF i = n THEN old \o (t \o u) ELSE q[i]
      BY <2>3, <3>1, ExceptSeq
    <3> HIDE DEF q2
    <3>5. \A i \in 1 .. Len(q2) : q2[i] = q3[i]
      BY <3>2, <3>3, <3>4
    <3>6. q2 = q3
      BY <3>3, <3>4, <3>5, SeqEqual
    <3>7. [q EXCEPT ![n] = q[n] \o u] = q2
      BY <2>3, <3>1 DEF q2
    <3> QED BY <3>6, <3>7 DEF q, q3
  <2>12. Put(old) = p
    <3>1. Put(old) \in Seq(Text) /\ Len(Put(old)) = n /\ \A i \in 1 .. n : Put(old)[i] = p[i]
      BY <2>2, <2>4
    <3> HIDE DEF p
    <3> QED BY <2>1, <3>1, SeqEqual DEF n
  <2>13. M!Push(pass, <<>>) = pass
    <3> HIDE DEF p
    <3> QED BY <2>8, <2>12 DEF Pass, p
  <2>14. M!Push(more, u) = M!Push(pass, t \o u)
    <3> DEFINE a == Put(old \o t)
               c == Put(old \o (t \o u))
    <3>1. M!Push(more, u) = [more EXCEPT !.placeholders = [a EXCEPT ![n] = a[n] \o u]]
      BY <2>9, <2>10
    <3>2. M!Push(more, u) = [more EXCEPT !.placeholders = c]
      BY <2>11, <3>1
    <3>3. M!Push(pass, t \o u) = [pass EXCEPT !.placeholders = c]
      BY <2>7
    <3>4. more = [pass EXCEPT !.placeholders = a]
      BY <2>6
    <3> HIDE DEF a, c, more
    <3> QED BY <3>2, <3>3, <3>4 DEF Pass
  <2> QED BY <2>13, <2>14
<1> QED BY <1>1, <1>2

\* A text without braces is pushed.
LEMMA ReadsPlain ==
    ASSUME NEW t \in Plain, NEW from \in Pass, NEW r, Braceless(r)
    PROVE  Reads(from, t, r, M!Push(from, t))
<1> DEFINE First(n) == SubSeq(t, 1, n)
           Pushes(s) == Reads(from, s, r, M!Push(from, s))
           T == {n \in Nat : n <= Len(t) => Pushes(First(n))}
<1>1. t \in Text /\ Len(t) \in Nat
      /\ \A i \in 1 .. Len(t) : t[i] \in Symbol /\ t[i] # "{" /\ t[i] # "}"
  <2>1. t \in Text /\ Len(t) \in Nat
    BY PlainIsText DEF Text
  <2> DEFINE S == Symbol \ {"{", "}"}
  <2>2. t \in Seq(S)
    BY DEF Plain
  <2>3. \A s \in S : s \in Symbol /\ s # "{" /\ s # "}"
    BY DEF Symbol
  <2> HIDE DEF S
  <2>4. \A i \in 1 .. Len(t) : t[i] \in S
    BY <2>2, ElementOfSeq
  <2> QED BY <2>1, <2>3, <2>4
<1> HIDE DEF Pushes
<1>2. 0 \in T
  <2>1. First(0) = <<>>
    BY SubSeqEmpty
  <2>2. Reads(from, <<>>, r, from) /\ M!Push(from, <<>>) = from
    <3>1. <<>> \in Text
      BY EmptySeq DEF Text
    <3> QED BY <3>1, ReadsNothing, PushPush
  <2>3. Pushes(<<>>)
    BY <2>2 DEF Pushes
  <2> HIDE DEF First
  <2> QED BY <2>1, <2>3
<1>3. ASSUME NEW n \in Nat, n \in T PROVE n + 1 \in T
  <2> SUFFICES ASSUME n + 1 <= Len(t) PROVE Pushes(First(n + 1))
    OBVIOUS
  <2> DEFINE s == First(n)
             ch == t[n + 1]
             pushed == M!Push(from, s)
  <2>0. Len(t) \in Nat
    BY <1>1
  <2>1. n + 1 \in 1 .. Len(t) /\ n <= Len(t) /\ n \in 0 .. Len(t)
    BY <2>0
  <2>1a. Pushes(s)
    <3> HIDE DEF First
    <3> QED BY <1>3, <2>1
  <2>2. s \in Text /\ First(n + 1) = s \o <<ch>>
    <3>1. s \in Seq(Symbol)
      <4>1. \A i \in 1 .. n : t[i] \in Symbol
        <5>1. \A i \in 1 .. n : i \in 1 .. Len(t)
          BY <2>1
        <5> QED BY <1>1, <5>1
      <4> QED BY <4>1, SubSeqProperties
    <3>2. SubSeq(t, 1, n + 1) = SubSeq(t, 1, n + 1 - 1) \o <<t[n + 1]>>
      <4> DEFINE k == n + 1
      <4>1. k \in 1 .. Len(t) /\ 1 \in 1 .. Len(t)
        BY <2>0, <2>1
      <4> HIDE DEF k
      <4>2. SubSeq(t, 1, k) = SubSeq(t, 1, k - 1) \o <<t[k]>>
        BY <1>1, <4>1, SubSeqRecursiveSecond DEF Text
      <4> QED BY <4>2 DEF k
    <3>3. n + 1 - 1 = n
      OBVIOUS
    <3> QED BY <3>1, <3>2, <3>3 DEF Text
  <2>3. <<ch>> \in Text /\ ch \in Symbol /\ ch # "{" /\ ch # "}"
    BY <1>1, <2>1, Singleton DEF Text
  <2>4. Reads(from, s, r, pushed)
    BY <2>1a DEF Pushes
  <2> HIDE DEF s, ch, T, First
  <2>5. pushed \in Pass
    BY <2>2, PushTypes
  <2> HIDE DEF pushed
  <2>6. Reads(pushed, <<ch>>, r, M!Read(pushed, ch, r))
    BY <2>3, <2>5, ReadsSymbol
  <2>7. M!Read(pushed, ch, r) = M!Push(from, s \o <<ch>>)
    <3>1. M!Read(pushed, ch, r) = M!Push(pushed, <<ch>>)
      BY <2>3 DEF M!Read
    <3> QED BY <2>2, <2>3, <3>1, PushPush DEF pushed
  <2>8. Reads(from, s \o <<ch>>, r, M!Push(from, s \o <<ch>>))
    BY <2>2, <2>3, <2>4, <2>6, <2>7, ReadsConcat
  <2> QED BY <2>2, <2>8 DEF Pushes
<1>4. Nat \subseteq T
  <2> HIDE DEF T
  <2> QED BY <1>2, <1>3, NatSets
<1>5. First(Len(t)) = t
  BY <1>1, SubSeqFull DEF Text
<1>6. Pushes(First(Len(t)))
  <2>1. Len(t) \in Nat
    BY <1>1
  <2>2. Len(t) \in T
    BY <1>4, <2>1
  <2> HIDE DEF First
  <2> QED BY <2>1, <2>2
<1> HIDE DEF First
<1> QED BY <1>5, <1>6 DEF Pushes

FirstOf(t, symbol) == M!SelectInSeq(t, LAMBDA ch : ch = symbol)
LastOpen(t, close) == M!SelectLastInSubSeq(t, 1, close - 1, LAMBDA ch : ch = "{")
Without(t, symbol) == \A i \in 1 .. Len(t) : t[i] # symbol

LEMMA FirstOfIs ==
    ASSUME NEW t \in Text, NEW symbol
    PROVE  /\ FirstOf(t, symbol) \in 0 .. Len(t)
           /\ FirstOf(t, symbol) = 0 => Without(t, symbol)
           /\ FirstOf(t, symbol) # 0 =>
                  /\ t[FirstOf(t, symbol)] = symbol
                  /\ \A i \in 1 .. FirstOf(t, symbol) - 1 : t[i] # symbol
<1> DEFINE I == {i \in 1 .. Len(t) : t[i] = symbol}
<1>1. FirstOf(t, symbol) = IF I # {} THEN M!Min(I) ELSE 0
  BY DEF FirstOf, M!SelectInSeq
<1>2. I \subseteq 1 .. Len(t) /\ I \subseteq Nat /\ Len(t) \in Nat
  BY DEF Text
<1>3. \A i \in 1 .. Len(t) : i \in I <=> t[i] = symbol
  OBVIOUS
<1> HIDE DEF I
<1>4. CASE I = {}
  BY <1>1, <1>2, <1>3, <1>4 DEF Without
<1>5. CASE I # {}
  <2>1. \E x \in I : \A y \in I : x <= y
    BY <1>2, <1>5, NatMin
  <2> DEFINE least == M!Min(I)
  <2>2. least \in I /\ \A y \in I : least <= y
    BY <2>1 DEF M!Min
  <2>3. FirstOf(t, symbol) = least
    BY <1>1, <1>5
  <2> HIDE DEF least
  <2>4. least \in 1 .. Len(t) /\ t[least] = symbol
    BY <1>2, <1>3, <2>2
  <2>5. \A i \in 1 .. least - 1 : t[i] # symbol
    <3> SUFFICES ASSUME NEW i \in 1 .. least - 1 PROVE t[i] # symbol
      OBVIOUS
    <3>1. i \in 1 .. Len(t) /\ ~(least <= i)
      BY <1>2, <2>4
    <3> QED BY <1>3, <2>2, <3>1
  <2>6. least \in 0 .. Len(t) /\ least # 0
    BY <1>2, <2>4
  <2> QED BY <2>3, <2>4, <2>5, <2>6
<1> QED BY <1>4, <1>5

\* Every bounded set of natural numbers that is not empty has a greatest element.
LEMMA NatMax == ASSUME NEW n \in Nat, NEW T, T \subseteq 0 .. n, T # {}
                PROVE  \E x \in T : \A y \in T : x >= y
<1> DEFINE Gaps == {n - x : x \in T}
<1>1. Gaps \subseteq Nat /\ Gaps # {}
  <2>1. \A x \in T : n - x \in Nat
    OBVIOUS
  <2> QED BY <2>1
<1>2. \A x \in T : n - x \in Gaps
  OBVIOUS
<1>3. \A g \in Gaps : n - g \in T
  <2>1. \A x \in T : n - (n - x) = x
    OBVIOUS
  <2> QED BY <2>1
<1> HIDE DEF Gaps
<1>4. PICK g \in Gaps : \A h \in Gaps : g <= h
  BY <1>1, NatMin
<1>5. \A y \in T : n - g >= y
  <2> SUFFICES ASSUME NEW y \in T PROVE n - g >= y
    OBVIOUS
  <2>1. g <= n - y
    BY <1>2, <1>4
  <2>2. g \in Nat /\ y \in Nat
    BY <1>1
  <2> QED BY <2>1, <2>2
<1> QED BY <1>3, <1>5

LEMMA LastOpenIs ==
    ASSUME NEW t \in Text, NEW close \in 1 .. Len(t)
    PROVE  /\ LastOpen(t, close) \in 0 .. close - 1
           /\ LastOpen(t, close) = 0 => \A i \in 1 .. close - 1 : t[i] # "{"
           /\ LastOpen(t, close) # 0 =>
                  /\ t[LastOpen(t, close)] = "{"
                  /\ \A i \in LastOpen(t, close) + 1 .. close - 1 : t[i] # "{"
<1> DEFINE I == {i \in 1 .. close - 1 : t[i] = "{"}
<1>1. LastOpen(t, close) = IF I # {} THEN M!Max(I) ELSE 0
  BY DEF LastOpen, M!SelectLastInSubSeq
<1>0. Len(t) \in Nat
  BY DEF Text
<1>2. I \subseteq 1 .. close - 1 /\ I \subseteq 0 .. close - 1 /\ close - 1 \in Nat
  <2>1. close \in Nat \ {0}
    BY <1>0
  <2>2. close - 1 \in Nat
    BY <2>1
  <2>3. I \subseteq 1 .. close - 1
    OBVIOUS
  <2>4. 1 .. close - 1 \subseteq 0 .. close - 1
    BY <2>1
  <2> QED BY <2>2, <2>3, <2>4
<1>3. \A i \in 1 .. close - 1 : i \in I <=> t[i] = "{"
  OBVIOUS
<1> HIDE DEF I
<1>4. CASE I = {}
  <2>1. LastOpen(t, close) = 0 /\ 0 \in 0 .. close - 1
    BY <1>1, <1>2, <1>4
  <2> QED BY <1>3, <1>4, <2>1
<1>5. CASE I # {}
  <2>1. \E x \in I : \A y \in I : x >= y
    BY <1>2, <1>5, NatMax
  <2> DEFINE most == M!Max(I)
  <2>2. most \in I /\ \A y \in I : most >= y
    BY <2>1 DEF M!Max
  <2>3. LastOpen(t, close) = most
    BY <1>1, <1>5
  <2> HIDE DEF most
  <2>4. most \in 1 .. close - 1 /\ t[most] = "{"
    BY <1>2, <1>3, <2>2
  <2>5. \A i \in most + 1 .. close - 1 : t[i] # "{"
    <3> SUFFICES ASSUME NEW i \in most + 1 .. close - 1 PROVE t[i] # "{"
      OBVIOUS
    <3>1. i \in 1 .. close - 1 /\ ~(most >= i)
      <4> DEFINE c == close - 1
      <4>1. c \in Nat /\ most \in 1 .. c /\ i \in most + 1 .. c
        BY <1>2, <2>4
      <4> HIDE DEF c
      <4>2. i \in 1 .. c /\ ~(most >= i)
        BY <4>1
      <4> QED BY <4>2 DEF c
    <3> QED BY <1>3, <2>2, <3>1
  <2>6. most \in 0 .. close - 1 /\ most # 0
    <3> DEFINE c == close - 1
    <3>1. c \in Nat /\ most \in 1 .. c
      BY <1>2, <2>4
    <3> HIDE DEF c
    <3>2. most \in 0 .. c /\ most # 0
      BY <3>1
    <3> QED BY <3>2 DEF c
  <2> QED BY <2>3, <2>4, <2>5, <2>6
<1> QED BY <1>4, <1>5

\* A text is what comes before a symbol, the symbol and what comes after it.
LEMMA SplitAt ==
    ASSUME NEW t \in Text, NEW c \in 1 .. Len(t)
    PROVE  LET before == SubSeq(t, 1, c - 1)
               after == SubSeq(t, c + 1, Len(t))
           IN  /\ before \in Text /\ after \in Text
               /\ Len(before) = c - 1 /\ Len(after) = Len(t) - c
               /\ \A i \in 1 .. c - 1 : before[i] = t[i]
               /\ \A i \in 1 .. Len(t) - c : after[i] = t[c + i]
               /\ t = (before \o <<t[c]>>) \o after
<1>1. t \in Seq(Symbol) /\ Len(t) \in Nat /\ c \in Nat /\ 1 <= c /\ c <= Len(t)
  BY DEF Text
<1>2. /\ \A i \in 1 .. c - 1 : t[i] \in Symbol
      /\ \A i \in c + 1 .. Len(t) : t[i] \in Symbol
  <2>1. /\ \A i \in 1 .. c - 1 : i \in 1 .. Len(t)
        /\ \A i \in c + 1 .. Len(t) : i \in 1 .. Len(t)
    BY <1>1
  <2> QED BY <1>1, <2>1, ElementOfSeq
<1> DEFINE before == SubSeq(t, 1, c - 1)
           after == SubSeq(t, c + 1, Len(t))
<1>3. /\ before \in Seq(Symbol) /\ Len(before) = c - 1
      /\ \A i \in 1 .. c - 1 : before[i] = t[i]
  <2> DEFINE n == c - 1
  <2>1. n \in Nat /\ 1 \in Int /\ n \in Int
    BY <1>1
  <2>2. \A i \in 1 .. n : t[i] \in Symbol
    BY <1>2
  <2> HIDE DEF n
  <2>3. /\ SubSeq(t, 1, n) \in Seq(Symbol)
        /\ Len(SubSeq(t, 1, n)) = IF 1 <= n THEN n - 1 + 1 ELSE 0
        /\ \A i \in 1 .. n - 1 + 1 : SubSeq(t, 1, n)[i] = t[1 + i - 1]
    BY <2>1, <2>2, SubSeqProperties
  <2>4. Len(SubSeq(t, 1, n)) = n
    BY <2>1, <2>3
  <2>5. ASSUME NEW i \in 1 .. n PROVE SubSeq(t, 1, n)[i] = t[i]
    <3>1. i \in 1 .. n - 1 + 1 /\ 1 + i - 1 = i
      BY <2>1
    <3> QED BY <2>3, <3>1
  <2> QED BY <2>3, <2>4, <2>5 DEF n
<1>4. /\ after \in Seq(Symbol) /\ Len(after) = Len(t) - c
      /\ \A i \in 1 .. Len(t) - c : after[i] = t[c + i]
  <2> DEFINE m == c + 1
             n == Len(t)
  <2>1. m \in Int /\ n \in Int /\ m = c + 1 /\ n \in Nat /\ m <= n + 1
    BY <1>1
  <2>2. \A i \in m .. n : t[i] \in Symbol
    BY <1>2
  <2> HIDE DEF m, n
  <2>3. /\ SubSeq(t, m, n) \in Seq(Symbol)
        /\ Len(SubSeq(t, m, n)) = IF m <= n THEN n - m + 1 ELSE 0
        /\ \A i \in 1 .. n - m + 1 : SubSeq(t, m, n)[i] = t[m + i - 1]
    BY <2>1, <2>2, SubSeqProperties
  <2>4. Len(SubSeq(t, m, n)) = n - c
    BY <1>1, <2>1, <2>3
  <2>5. ASSUME NEW i \in 1 .. n - c PROVE SubSeq(t, m, n)[i] = t[c + i]
    <3>1. i \in 1 .. n - m + 1 /\ m + i - 1 = c + i
      BY <1>1, <2>1
    <3> QED BY <2>3, <3>1
  <2> QED BY <2>3, <2>4, <2>5 DEF m, n
<1>5. SubSeq(t, 1, c) = before \o <<t[c]>>
  BY <1>1, SubSeqRecursiveSecond
<1>6. SubSeq(t, 1, c) \o after = t
  <2>1. SubSeq(t, 1, c) \o after = SubSeq(t, 1, Len(t))
    BY <1>1, ConcatAdjacentSubSeq
  <2> QED BY <1>1, <2>1, SubSeqFull
<1> HIDE DEF before, after
<1>7. t = (before \o <<t[c]>>) \o after
  BY <1>5, <1>6
<1> QED BY <1>3, <1>4, <1>7 DEF before, after, Text

\* Closing a placeholder that was opened and named leaves what replaces it.
LEMMA CloseOpened ==
    ASSUME NEW pass \in Pass, NEW name \in Text, NEW r, Braceless(r)
    PROVE  M!Close(M!Push(M!Open(pass), name), r) =
               IF name \in DOMAIN r THEN M!Push(pass, r[name]) ELSE pass
<1> DEFINE p == pass.placeholders
           n == Len(p)
           open == M!Open(pass)
           named == M!Push(open, name)
           q == Append(p, <<>>)
           q2 == [q EXCEPT ![n + 1] = name]
<1>1. p \in Seq(Text) /\ n \in Nat /\ <<>> \in Text
  BY EmptySeq DEF Pass, Text
<1>2. q \in Seq(Text) /\ Len(q) = n + 1 /\ q[n + 1] = <<>> /\ \A i \in 1 .. n : q[i] = p[i]
  BY <1>1
<1> HIDE DEF q
<1>3. n + 1 \in 1 .. Len(q) /\ q # <<>>
  BY <1>1, <1>2
<1>4. /\ q2 \in Seq(Text) /\ Len(q2) = n + 1
      /\ \A i \in 1 .. n + 1 : q2[i] = IF i = n + 1 THEN name ELSE q[i]
  BY <1>2, <1>3, ExceptSeq
<1>5. open = [pass EXCEPT !.placeholders = q] /\ open.placeholders = q
  BY DEF M!Open, Pass, q
<1>6. named = [open EXCEPT !.placeholders = q2]
  <2>1. q[Len(q)] \o name = name /\ Len(q) = n + 1
    BY <1>2, TextConcat
  <2>2. named = [open EXCEPT !.placeholders = [q EXCEPT ![Len(q)] = q[Len(q)] \o name]]
    <3> HIDE DEF open, q2
    <3> QED BY <1>3, <1>5 DEF M!Push
  <2> QED BY <2>1, <2>2
<1> HIDE DEF q2, n
<1>7. named.placeholders = q2 /\ named = [pass EXCEPT !.placeholders = q2]
  <2> HIDE DEF named
  <2> QED BY <1>5, <1>6 DEF Pass
<1>8. q2[n + 1] = name /\ Len(q2) = n + 1 /\ q2 # <<>>
  BY <1>1, <1>4
<1>9. M!Front(q2) = p
  <2>1. M!Front(q2) = SubSeq(q2, 1, n)
    BY <1>1, <1>8 DEF M!Front
  <2>2. \A i \in 1 .. n : q2[i] = p[i] /\ q2[i] \in Text
    <3> SUFFICES ASSUME NEW i \in 1 .. n PROVE q2[i] = p[i] /\ q2[i] \in Text
      OBVIOUS
    <3>1. i \in 1 .. n + 1 /\ i # n + 1 /\ i \in 1 .. Len(p)
      BY <1>1 DEF n
    <3> HIDE DEF p
    <3> QED BY <1>1, <1>2, <1>4, <3>1, ElementOfSeq
  <2>3. /\ SubSeq(q2, 1, n) \in Seq(Text)
        /\ Len(SubSeq(q2, 1, n)) = IF 1 <= n THEN n - 1 + 1 ELSE 0
        /\ \A i \in 1 .. n - 1 + 1 : SubSeq(q2, 1, n)[i] = q2[1 + i - 1]
    BY <1>1, <2>2, SubSeqProperties
  <2>4. \A i \in 1 .. n : SubSeq(q2, 1, n)[i] = p[i]
    <3> SUFFICES ASSUME NEW i \in 1 .. n PROVE SubSeq(q2, 1, n)[i] = p[i]
      OBVIOUS
    <3>1. i \in 1 .. n - 1 + 1 /\ 1 + i - 1 = i
      BY <1>1
    <3> QED BY <2>2, <2>3, <3>1
  <2>5. Len(SubSeq(q2, 1, n)) = n
    BY <1>1, <2>3
  <2> DEFINE s == SubSeq(q2, 1, n)
  <2>6. s \in Seq(Text) /\ Len(s) = Len(p) /\ \A i \in 1 .. Len(s) : s[i] = p[i]
    BY <2>3, <2>4, <2>5 DEF n
  <2> HIDE DEF s, p
  <2>7. s = p
    BY <1>1, <2>6, SeqEqual
  <2> QED BY <2>1, <2>7 DEF s
<1>10. M!Last(q2) = name
  BY <1>8 DEF M!Last
<1> DEFINE outer == [named EXCEPT !.placeholders = M!Front(@)]
<1>11. outer = pass
  <2>1. outer = [named EXCEPT !.placeholders = p]
    BY <1>7, <1>9
  <2>2. [named EXCEPT !.placeholders = p] = pass
    <3> HIDE DEF named
    <3> QED BY <1>7 DEF Pass
  <2> QED BY <2>1, <2>2
<1>12. M!Close(named, r) = IF name \notin DOMAIN r THEN outer ELSE M!Push(outer, r[name])
  <2> HIDE DEF named
  <2> QED BY <1>7, <1>8, <1>10 DEF M!Close
<1> HIDE DEF outer, named
<1>13. M!Close(named, r) = IF name \in DOMAIN r THEN M!Push(pass, r[name]) ELSE pass
  BY <1>11, <1>12
<1> QED BY <1>13 DEF named

LEMMA SeqOf ==
    ASSUME NEW B, NEW S, NEW t \in Seq(B), \A i \in 1 .. Len(t) : t[i] \in S
    PROVE  t \in Seq(S)
<1>1. Len(t) \in Nat /\ t = [i \in 1 .. Len(t) |-> t[i]]
  OBVIOUS
<1>2. t \in [1 .. Len(t) -> S]
  BY <1>1
<1> QED BY <1>1, <1>2

LEMMA WithoutBraces ==
    ASSUME NEW t \in Text, Without(t, "{"), Without(t, "}")
    PROVE  t \in Plain
<1>1. t \in Seq(Symbol)
  BY DEF Text
<1>2. \A i \in 1 .. Len(t) : t[i] \in Symbol
  BY <1>1, ElementOfSeq
<1> DEFINE S == Symbol \ {"{", "}"}
<1>3. \A i \in 1 .. Len(t) : t[i] \in S
  <2>1. \A s \in Symbol : s # "{" /\ s # "}" => s \in S
    BY DEF Symbol
  <2> HIDE DEF S
  <2> QED BY <1>2, <2>1 DEF Without
<1> HIDE DEF S
<1>4. t \in Seq(S)
  BY <1>1, <1>3, SeqOf
<1> QED BY <1>4 DEF Plain, S

LEMMA PlainIsWithout ==
    ASSUME NEW t \in Plain
    PROVE  t \in Text /\ Without(t, "{") /\ Without(t, "}")
<1> DEFINE S == Symbol \ {"{", "}"}
<1>1. t \in Seq(S)
  BY DEF Plain
<1>2. \A s \in S : s # "{" /\ s # "}"
  OBVIOUS
<1> HIDE DEF S
<1>3. \A i \in 1 .. Len(t) : t[i] \in S
  BY <1>1, ElementOfSeq
<1> QED BY <1>2, <1>3, PlainIsText DEF Without

LEMMA ConcatWithout ==
    ASSUME NEW t \in Text, NEW u \in Text, NEW symbol, Without(t, symbol), Without(u, symbol)
    PROVE  Without(t \o u, symbol)
<1>1. /\ Len(t) \in Nat /\ Len(u) \in Nat /\ Len(t \o u) = Len(t) + Len(u)
      /\ \A i \in 1 .. Len(t) + Len(u) :
             (t \o u)[i] = IF i <= Len(t) THEN t[i] ELSE u[i - Len(t)]
  BY TextConcat
<1>2. ASSUME NEW i \in 1 .. Len(t) + Len(u) PROVE (t \o u)[i] # symbol
  <2>1. CASE i <= Len(t)
    <3>1. i \in 1 .. Len(t)
      BY <1>1, <2>1
    <3> QED BY <1>1, <2>1, <3>1 DEF Without
  <2>2. CASE ~(i <= Len(t))
    <3>1. i - Len(t) \in 1 .. Len(u)
      BY <1>1, <2>2
    <3> QED BY <1>1, <2>2, <3>1 DEF Without
  <2> QED BY <2>1, <2>2
<1> QED BY <1>1, <1>2 DEF Without

LEMMA RewriteIs ==
    ASSUME NEW t, NEW r
    PROVE  LET close == FirstOf(t, "}")
               open == LastOpen(t, close)
               name == SubSeq(t, open + 1, close - 1)
               rest == SubSeq(t, close + 1, Len(t))
           IN  M!Rewrite(t, r) =
                  IF close = 0 THEN t
                  ELSE IF open = 0 THEN SubSeq(t, 1, close - 1) \o rest
                  ELSE IF name \in DOMAIN r
                  THEN (SubSeq(t, 1, open - 1) \o r[name]) \o rest
                  ELSE SubSeq(t, 1, open - 1) \o rest
BY DEF M!Rewrite, M!FirstClose, FirstOf, LastOpen

UnreadIsPass == M!Unread \in Pass

LEMMA UnreadTypes == UnreadIsPass /\ M!Unread.placeholders = <<>>
<1>1. <<>> \in Text /\ <<>> \in Seq(Text)
  BY EmptySeq DEF Text
<1> QED BY <1>1 DEF M!Unread, Pass, UnreadIsPass

\* A brace that closes nothing is left out.
LEMMA ReadsUnopened ==
    ASSUME NEW q \in Plain, NEW r, Braceless(r)
    PROVE  \E mid \in Pass : /\ Reads(M!Unread, q \o <<"}">>, r, mid)
                             /\ Reads(M!Unread, q, r, mid)
<1> DEFINE mid == M!Push(M!Unread, q)
<1>1. q \in Text /\ <<"}">> \in Text
  BY PlainIsText, Braces
<1>2. Reads(M!Unread, q, r, mid)
  BY UnreadTypes, ReadsPlain DEF UnreadIsPass
<1>3. mid \in Pass
  BY <1>1, UnreadTypes, PushTypes DEF UnreadIsPass
<1>4. mid.placeholders = <<>>
  BY UnreadTypes DEF M!Push, Pass, UnreadIsPass
<1> HIDE DEF mid
<1>5. M!Close(mid, r) = mid
  BY <1>4 DEF M!Close
<1>6. Reads(mid, <<"}">>, r, mid)
  BY <1>3, <1>5, ReadsBraces
<1>7. Reads(M!Unread, q \o <<"}">>, r, mid)
  BY <1>1, <1>2, <1>6, ReadsConcat
<1> QED BY <1>2, <1>3, <1>7

\* A placeholder is read as what replaces it.
LEMMA ReadsPlaceholder ==
    ASSUME NEW p \in Text, NEW name \in Plain, NEW r, Braceless(r)
    PROVE  \E mid \in Pass :
               /\ Reads(M!Unread, ((p \o <<"{">>) \o name) \o <<"}">>, r, mid)
               /\ Reads(M!Unread, IF name \in DOMAIN r THEN p \o r[name] ELSE p, r, mid)
<1>1. name \in Text /\ <<"}">> \in Text /\ <<"{">> \in Text
  BY PlainIsText, Braces
<1>2. PICK s \in Pass : Reads(M!Unread, p, r, s)
  BY UnreadTypes, ReadsAll DEF UnreadIsPass
<1> DEFINE open == M!Open(s)
           named == M!Push(open, name)
           mid == M!Close(named, r)
<1>3. open \in Pass /\ named \in Pass /\ mid \in Pass
  <2>1. open \in Pass
    BY OpenTypes
  <2> HIDE DEF open
  <2>2. named \in Pass
    BY <1>1, <2>1, PushTypes
  <2> HIDE DEF named
  <2> QED BY <2>1, <2>2, CloseTypes
<1>4. mid = IF name \in DOMAIN r THEN M!Push(s, r[name]) ELSE s
  BY <1>1, CloseOpened
<1>5. Reads(s, <<"{">>, r, open)
  BY ReadsBraces
<1> HIDE DEF open
<1>6. Reads(open, name, r, named)
  BY <1>3, ReadsPlain
<1> HIDE DEF named
<1>7. Reads(named, <<"}">>, r, mid)
  BY <1>3, ReadsBraces
<1> HIDE DEF mid
<1>8. Reads(M!Unread, ((p \o <<"{">>) \o name) \o <<"}">>, r, mid)
  <2>1. Reads(M!Unread, p \o <<"{">>, r, open) /\ p \o <<"{">> \in Text
    BY <1>1, <1>2, <1>5, ReadsConcat, TextConcat
  <2>2. Reads(M!Unread, (p \o <<"{">>) \o name, r, named) /\ (p \o <<"{">>) \o name \in Text
    BY <1>1, <1>6, <2>1, ReadsConcat, TextConcat
  <2> QED BY <1>1, <1>7, <2>2, ReadsConcat
<1>9. Reads(M!Unread, IF name \in DOMAIN r THEN p \o r[name] ELSE p, r, mid)
  <2>1. CASE name \notin DOMAIN r
    BY <1>2, <1>4, <2>1
  <2>2. CASE name \in DOMAIN r
    <3>1. r[name] \in Plain /\ r[name] \in Text
      BY <2>2, PlainIsText DEF Braceless
    <3>2. Reads(s, r[name], r, M!Push(s, r[name]))
      BY <3>1, ReadsPlain
    <3>3. Reads(M!Unread, p \o r[name], r, M!Push(s, r[name]))
      BY <1>2, <3>1, <3>2, ReadsConcat
    <3> QED BY <1>4, <2>2, <3>3
  <2> QED BY <2>1, <2>2
<1> QED BY <1>3, <1>8, <1>9

LEMMA SubSeqText ==
    ASSUME NEW t \in Text, NEW m \in Nat \ {0}, NEW k \in Nat, m <= k + 1, k <= Len(t)
    PROVE  /\ SubSeq(t, m, k) \in Text
           /\ Len(SubSeq(t, m, k)) = k + 1 - m
           /\ \A i \in 1 .. k + 1 - m : SubSeq(t, m, k)[i] = t[m + i - 1]
<1>1. Len(t) \in Nat /\ \A i \in 1 .. Len(t) : t[i] \in Symbol
  BY ElementOfSeq DEF Text
<1>2. \A i \in m .. k : t[i] \in Symbol
  <2>1. \A i \in m .. k : i \in 1 .. Len(t)
    BY <1>1
  <2> QED BY <1>1, <2>1
<1>3. /\ SubSeq(t, m, k) \in Seq(Symbol)
      /\ Len(SubSeq(t, m, k)) = IF m <= k THEN k - m + 1 ELSE 0
      /\ \A i \in 1 .. k - m + 1 : SubSeq(t, m, k)[i] = t[m + i - 1]
  BY <1>2, SubSeqProperties
<1>4. Len(SubSeq(t, m, k)) = k + 1 - m
  BY <1>3
<1>5. k - m + 1 = k + 1 - m
  OBVIOUS
<1> QED BY <1>3, <1>4, <1>5 DEF Text

LEMMA SubSeqOfPrefix ==
    ASSUME NEW t \in Text, NEW n \in 0 .. Len(t),
           NEW m \in Nat \ {0}, NEW k \in Nat, m <= k + 1, k <= n
    PROVE  SubSeq(SubSeq(t, 1, n), m, k) = SubSeq(t, m, k)
<1> DEFINE s == SubSeq(t, 1, n)
           a == SubSeq(s, m, k)
           b == SubSeq(t, m, k)
           len == k + 1 - m
<1>1. Len(t) \in Nat /\ n \in Nat /\ n <= Len(t) /\ len \in Nat
  BY DEF Text
<1>2. s \in Text /\ Len(s) = n /\ \A i \in 1 .. n : s[i] = t[i]
  <2>1. /\ s \in Text /\ Len(s) = n + 1 - 1
        /\ \A i \in 1 .. n + 1 - 1 : s[i] = t[1 + i - 1]
    BY <1>1, SubSeqText
  <2>2. n + 1 - 1 = n /\ \A i \in 1 .. n : 1 + i - 1 = i
    BY <1>1
  <2> HIDE DEF s
  <2> QED BY <2>1, <2>2
<1> HIDE DEF s
<1>3. a \in Text /\ Len(a) = len /\ \A i \in 1 .. len : a[i] = s[m + i - 1]
  BY <1>2, SubSeqText
<1>4. b \in Text /\ Len(b) = len /\ \A i \in 1 .. len : b[i] = t[m + i - 1]
  <2>1. k <= Len(t)
    BY <1>1
  <2> QED BY <2>1, SubSeqText
<1>5. \A i \in 1 .. len : m + i - 1 \in 1 .. n
  BY <1>1
<1> HIDE DEF a, b, len
<1>6. \A i \in 1 .. Len(a) : a[i] = b[i]
  BY <1>2, <1>3, <1>4, <1>5
<1>7. a = b
  BY <1>3, <1>4, <1>6, SeqEqual DEF Text
<1> QED BY <1>7 DEF a, b, s

\* One rewriting takes out the first closing brace and, up to what follows it,
\* reads as before.
Rewrites(t, r, q, q2, rest, mid) ==
    /\ q \in Text /\ q2 \in Text /\ rest \in Text /\ mid \in Pass
    /\ t = (q \o <<"}">>) \o rest /\ M!Rewrite(t, r) = q2 \o rest
    /\ Without(q, "}") /\ Without(q2, "}")
    /\ Reads(M!Unread, q \o <<"}">>, r, mid)
    /\ Reads(M!Unread, q2, r, mid)

LEMMA RewriteStep ==
    ASSUME NEW t \in Text, NEW r, Braceless(r)
    PROVE  IF Without(t, "}") THEN M!Rewrite(t, r) = t
           ELSE \E q, q2, rest, mid : Rewrites(t, r, q, q2, rest, mid)
<1> DEFINE close == FirstOf(t, "}")
           open == LastOpen(t, close)
           q == SubSeq(t, 1, close - 1)
           rest == SubSeq(t, close + 1, Len(t))
           p == SubSeq(t, 1, open - 1)
           name == SubSeq(t, open + 1, close - 1)
<1>1. M!Rewrite(t, r) =
          IF close = 0 THEN t
          ELSE IF open = 0 THEN q \o rest
          ELSE IF name \in DOMAIN r THEN (p \o r[name]) \o rest
          ELSE p \o rest
  BY RewriteIs
<1>2. /\ close \in 0 .. Len(t)
      /\ close = 0 => Without(t, "}")
      /\ close # 0 => t[close] = "}" /\ \A i \in 1 .. close - 1 : t[i] # "}"
  BY FirstOfIs
<1>3. CASE close = 0
  BY <1>1, <1>2, <1>3
<1>4. CASE close # 0
  <2>1. Len(t) \in Nat
    BY DEF Text
  <2> HIDE DEF close
  <2>2. close \in 1 .. Len(t) /\ close \in Nat \ {0} /\ close - 1 \in Nat
    <3>1. close \in 0 .. Len(t)
      BY <1>2
    <3> QED BY <1>4, <2>1, <3>1
  <2>3. t[close] = "}" /\ \A i \in 1 .. close - 1 : t[i] # "}"
    BY <1>2, <1>4
  <2>4. ~Without(t, "}")
    BY <2>2, <2>3 DEF Without
  <2>5. /\ q \in Text /\ rest \in Text /\ Len(q) = close - 1
        /\ \A i \in 1 .. close - 1 : q[i] = t[i]
        /\ t = (q \o <<"}">>) \o rest
    BY <2>2, <2>3, SplitAt
  <2>6. Without(q, "}")
    BY <2>3, <2>5 DEF Without
  <2> DEFINE n == close - 1
  <2>7. n \in Nat /\ n \in 0 .. Len(t) /\ Len(q) = n
    <3>1. n \in Nat
      BY <2>2
    <3>2. n \in 0 .. Len(t)
      BY <2>1, <2>2
    <3>3. Len(q) = n
      BY <2>5
    <3> HIDE DEF n, q
    <3> QED BY <3>1, <3>2, <3>3
  <2>7a. n \in Nat
    BY <2>7
  <2>8. /\ open \in 0 .. n
        /\ open = 0 => Without(q, "{")
        /\ open # 0 => q[open] = "{" /\ \A i \in open + 1 .. n : q[i] # "{"
    <3>1. /\ open \in 0 .. n
          /\ open = 0 => \A i \in 1 .. n : t[i] # "{"
          /\ open # 0 => t[open] = "{" /\ \A i \in open + 1 .. n : t[i] # "{"
      BY <2>2, LastOpenIs
    <3>2. \A i \in 1 .. n : q[i] = t[i]
      BY <2>5
    <3> HIDE DEF n, open, q
    <3>3. open = 0 => Without(q, "{")
      BY <2>7, <3>1, <3>2 DEF Without
    <3>4. open # 0 => open \in 1 .. n /\ \A i \in open + 1 .. n : i \in 1 .. n
      <4> SUFFICES ASSUME open # 0 PROVE open \in 1 .. n /\ \A i \in open + 1 .. n : i \in 1 .. n
        OBVIOUS
      <4>1. open \in 0 .. n
        BY <3>1
      <4> QED BY <2>7a, <4>1
    <3> QED BY <3>1, <3>2, <3>3, <3>4
  <2>9. name = SubSeq(t, open + 1, n) /\ q = SubSeq(t, 1, n)
    OBVIOUS
  <2> HIDE DEF rest, n, name, p, open
  <2>10. CASE open = 0
    <3> HIDE DEF q
    <3>1. q \in Plain
      BY <2>5, <2>6, <2>8, <2>10, WithoutBraces
    <3>2. PICK mid \in Pass : /\ Reads(M!Unread, q \o <<"}">>, r, mid)
                              /\ Reads(M!Unread, q, r, mid)
      BY <3>1, ReadsUnopened
    <3>3. M!Rewrite(t, r) = q \o rest
      BY <1>1, <1>4, <2>10
    <3>4. Rewrites(t, r, q, q, rest, mid)
      BY <2>5, <2>6, <3>2, <3>3 DEF Rewrites
    <3> QED BY <2>4, <3>4
  <2>11. CASE open # 0
    <3>1. open \in 1 .. n /\ open \in Nat \ {0} /\ q[open] = "{"
      <4>1. open \in 0 .. n
        BY <2>8
      <4>2. open \in 1 .. n /\ open \in Nat \ {0}
        BY <2>7a, <2>11, <4>1
      <4> QED BY <2>8, <2>11, <4>2
    <3>1a. open \in 1 .. n /\ open \in Nat \ {0}
      BY <3>1
    <3>2. p = SubSeq(q, 1, open - 1) /\ name = SubSeq(q, open + 1, n)
      <4>1. SubSeq(q, 1, open - 1) = SubSeq(t, 1, open - 1)
        <5> DEFINE k == open - 1
        <5>1. k \in Nat /\ 1 <= k + 1 /\ k <= n
          BY <2>7a, <3>1a
        <5> HIDE DEF k, q
        <5>2. SubSeq(SubSeq(t, 1, n), 1, k) = SubSeq(t, 1, k)
          <6>1. 1 \in Nat \ {0}
            OBVIOUS
          <6> QED BY <2>7, <5>1, <6>1, SubSeqOfPrefix
        <5>3. SubSeq(q, 1, k) = SubSeq(t, 1, k)
          BY <2>9, <5>2
        <5> QED BY <5>3 DEF k
      <4>2. SubSeq(q, open + 1, n) = SubSeq(t, open + 1, n)
        <5> DEFINE m == open + 1
        <5>1. m \in Nat \ {0} /\ m <= n + 1 /\ n <= n
          BY <2>7a, <3>1a
        <5> HIDE DEF m, q
        <5>2. SubSeq(SubSeq(t, 1, n), m, n) = SubSeq(t, m, n)
          BY <2>7, <5>1, SubSeqOfPrefix
        <5> QED BY <2>9, <5>2 DEF m
      <4> HIDE DEF q
      <4> QED BY <2>9, <4>1, <4>2 DEF p
    <3> HIDE DEF q
    <3>3. /\ p \in Text /\ name \in Text /\ Len(p) = open - 1 /\ Len(name) = n - open
          /\ \A i \in 1 .. open - 1 : p[i] = q[i]
          /\ \A i \in 1 .. n - open : name[i] = q[open + i]
          /\ q = (p \o <<"{">>) \o name
      BY <2>5, <2>7, <3>1, <3>2, SplitAt
    <3>4. Without(p, "}")
      <4>1. \A i \in 1 .. open - 1 : i \in 1 .. n
        BY <2>7a, <3>1a
      <4> QED BY <2>6, <2>7, <3>3, <4>1 DEF Without
    <3>5. name \in Plain
      <4>1. \A i \in 1 .. n - open : open + i \in 1 .. n /\ open + i \in open + 1 .. n
        BY <2>7a, <3>1a
      <4>2. Without(name, "}")
        BY <2>6, <2>7, <3>3, <4>1 DEF Without
      <4>3. Without(name, "{")
        BY <2>8, <2>11, <3>3, <4>1 DEF Without
      <4> QED BY <3>3, <4>2, <4>3, WithoutBraces
    <3> DEFINE q2 == IF name \in DOMAIN r THEN p \o r[name] ELSE p
    <3>6. PICK mid \in Pass :
              /\ Reads(M!Unread, ((p \o <<"{">>) \o name) \o <<"}">>, r, mid)
              /\ Reads(M!Unread, q2, r, mid)
      BY <3>3, <3>5, ReadsPlaceholder
    <3>7. M!Rewrite(t, r) = q2 \o rest
      BY <1>1, <1>4, <2>11
    <3>8. q2 \in Text /\ Without(q2, "}")
      <4>1. CASE name \notin DOMAIN r
        BY <3>3, <3>4, <4>1
      <4>2. CASE name \in DOMAIN r
        <5>1. r[name] \in Plain
          BY <4>2 DEF Braceless
        <5>2. r[name] \in Text /\ Without(r[name], "}")
          BY <5>1, PlainIsWithout
        <5>3. p \o r[name] \in Text /\ Without(p \o r[name], "}")
          BY <3>3, <3>4, <5>2, TextConcat, ConcatWithout
        <5> QED BY <4>2, <5>3
      <4> QED BY <4>1, <4>2
    <3> HIDE DEF q2
    <3>9. Rewrites(t, r, q, q2, rest, mid)
      BY <2>5, <2>6, <3>3, <3>6, <3>7, <3>8 DEF Rewrites
    <3> QED BY <2>4, <3>9
  <2> QED BY <2>10, <2>11
<1> QED BY <1>3, <1>4

LEMMA ReadsUnique ==
    ASSUME NEW t \in Text, NEW from, NEW r, NEW to, NEW too,
           Reads(from, t, r, to), Reads(from, t, r, too)
    PROVE  to = too
<1>1. PICK f \in [0 .. Len(t) -> Pass] : ReadsBy(f, from, t, r) /\ f[Len(t)] = to
  BY DEF Reads
<1>2. PICK g \in [0 .. Len(t) -> Pass] : ReadsBy(g, from, t, r) /\ g[Len(t)] = too
  BY DEF Reads
<1>3. f[Len(t)] = g[Len(t)]
  BY <1>1, <1>2, ReadsSame
<1> QED BY <1>1, <1>2, <1>3

\* What only says that it has braces in it, for the steps that count.
Unclosing(t) == Without(t, "}")
ClosedThen(q, rest) == (q \o <<"}">>) \o rest
Closes(ch) == ch = "}"

\* Only the last k symbols of a text may close placeholders.
Late(t, k) == \A i \in 1 .. Len(t) : t[i] = "}" => i > Len(t) - k

LEMMA RewriteIsLater ==
    ASSUME NEW q \in Text, NEW q2 \in Text, NEW rest \in Text, NEW k \in Nat,
           Late(ClosedThen(q, rest), k + 1), Unclosing(q2)
    PROVE  Late(q2 \o rest, k)
<1> DEFINE close == <<"}">>
           head == q \o close
           t == head \o rest
           u == q2 \o rest
           m == Len(q)
           m2 == Len(q2)
           n == Len(rest)
<1>1. close \in Text /\ Len(close) = 1 /\ Closes(close[1])
  BY Braces DEF Closes
<1>2. m \in Nat /\ m2 \in Nat /\ n \in Nat
  BY DEF Text
<1>3. \A i \in 1 .. Len(t) : Closes(t[i]) => i > Len(t) - (k + 1)
  BY DEF Late, ClosedThen, Closes
<1>4. \A i \in 1 .. m2 : ~Closes(q2[i])
  BY DEF Unclosing, Without, Closes
<1> HIDE DEF close
<1>5. /\ head \in Text /\ Len(head) = m + 1
      /\ \A i \in 1 .. m + 1 : head[i] = IF i <= m THEN q[i] ELSE close[i - m]
  <2>1. /\ head \in Text /\ Len(head) = m + Len(close)
        /\ \A i \in 1 .. m + Len(close) : head[i] = IF i <= m THEN q[i] ELSE close[i - m]
    BY <1>1, TextConcat
  <2> HIDE DEF head, m
  <2> QED BY <1>1, <2>1
<1> HIDE DEF head
<1>6. /\ Len(t) = m + 1 + n
      /\ \A i \in 1 .. m + 1 + n : t[i] = IF i <= m + 1 THEN head[i] ELSE rest[i - (m + 1)]
  <2>1. /\ Len(t) = Len(head) + n
        /\ \A i \in 1 .. Len(head) + n :
               t[i] = IF i <= Len(head) THEN head[i] ELSE rest[i - Len(head)]
    BY <1>5, TextConcat
  <2> HIDE DEF t, m, n
  <2> QED BY <1>5, <2>1
<1>7. /\ Len(u) = m2 + n
      /\ \A i \in 1 .. m2 + n : u[i] = IF i <= m2 THEN q2[i] ELSE rest[i - m2]
  BY TextConcat
<1> HIDE DEF t, u, m, m2, n
<1>8. n <= k
  <2> DEFINE j == m + 1
  <2>1. /\ j \in 1 .. m + 1 /\ j \in 1 .. m + 1 + n /\ ~(j <= m) /\ j - m = 1 /\ j <= m + 1
    BY <1>2
  <2> HIDE DEF j
  <2>2. head[j] = close[j - m] /\ t[j] = head[j]
    BY <1>5, <1>6, <2>1
  <2>3. Closes(t[j])
    BY <1>1, <2>1, <2>2
  <2>4. j \in 1 .. Len(t)
    BY <1>6, <2>1
  <2>5. j > Len(t) - (k + 1)
    BY <1>3, <2>3, <2>4
  <2>6. j = m + 1 /\ Len(t) = m + 1 + n
    BY <1>6 DEF j
  <2> QED BY <1>2, <2>5, <2>6
<1>9. ASSUME NEW i \in 1 .. m2 + n, Closes(u[i]) PROVE i > m2 + n - k
  <2>1. CASE i <= m2
    <3>1. i \in 1 .. m2
      BY <1>2, <2>1
    <3>2. u[i] = q2[i]
      BY <1>7, <2>1
    <3> QED BY <1>4, <1>9, <3>1, <3>2
  <2>2. CASE ~(i <= m2)
    BY <1>2, <1>8, <2>2
  <2> QED BY <2>1, <2>2
<1>10. ASSUME NEW i \in 1 .. Len(u), Closes(u[i]) PROVE i > Len(u) - k
  <2>1. Len(u) = m2 + n
    BY <1>7
  <2>2. i \in 1 .. m2 + n
    BY <2>1
  <2>3. i > m2 + n - k
    BY <1>9, <1>10, <2>2
  <2> QED BY <1>2, <2>1, <2>3
<1>11. Late(u, k)
  BY <1>10 DEF Late, Closes
<1> QED BY <1>11 DEF u

\* Rewriting changes nothing of what a text is read as.
LEMMA RewriteKeeps ==
    ASSUME NEW t \in Text, NEW r, Braceless(r), NEW to, Reads(M!Unread, t, r, to)
    PROVE  /\ M!Rewrite(t, r) \in Text
           /\ Reads(M!Unread, M!Rewrite(t, r), r, to)
           /\ \A k \in Nat : Late(t, k + 1) => Late(M!Rewrite(t, r), k)
<1>1. CASE Without(t, "}")
  <2>1. M!Rewrite(t, r) = t
    BY <1>1, RewriteStep
  <2>2. \A k \in Nat : Late(t, k)
    BY <1>1 DEF Late, Without
  <2> QED BY <2>1, <2>2
<1>2. CASE ~Without(t, "}")
  <2>1. PICK q, q2, rest, mid : Rewrites(t, r, q, q2, rest, mid)
    BY <1>2, RewriteStep
  <2>2. /\ q \in Text /\ q2 \in Text /\ rest \in Text /\ mid \in Pass
        /\ t = (q \o <<"}">>) \o rest /\ M!Rewrite(t, r) = q2 \o rest
        /\ Without(q2, "}")
        /\ Reads(M!Unread, q \o <<"}">>, r, mid)
        /\ Reads(M!Unread, q2, r, mid)
    BY <2>1 DEF Rewrites
  <2>3. q \o <<"}">> \in Text /\ q2 \o rest \in Text
    BY <2>2, Braces, TextConcat
  <2>4. PICK z \in Pass : Reads(mid, rest, r, z)
    BY <2>2, ReadsAll
  <2>5. Reads(M!Unread, t, r, z)
    BY <2>2, <2>3, <2>4, ReadsConcat
  <2>6. z = to
    BY <2>5, ReadsUnique
  <2>7. Reads(M!Unread, q2 \o rest, r, to)
    BY <2>2, <2>4, <2>6, ReadsConcat
  <2>8. \A k \in Nat : Late(t, k + 1) => Late(q2 \o rest, k)
    BY <2>2, RewriteIsLater DEF ClosedThen, Unclosing
  <2> QED BY <2>2, <2>3, <2>7, <2>8
<1> QED BY <1>1, <1>2

\* In an open placeholder nothing reaches the result.
LEMMA ReadsNested ==
    ASSUME NEW t \in Text, NEW from \in Pass, NEW r, NEW to, Unclosing(t),
           from.placeholders # <<>>, Braceless(r), Reads(from, t, r, to)
    PROVE  to.ret = from.ret
<1> DEFINE Inside(pass) == pass.placeholders # <<>> /\ pass.ret = from.ret
<1>1. ASSUME NEW pass \in Pass, Inside(pass), NEW ch, ~Closes(ch)
      PROVE  Inside(M!Read(pass, ch, r))
  <2> DEFINE p == pass.placeholders
             n == Len(p)
  <2>0. p \in Seq(Text) /\ p # <<>> /\ pass.ret = from.ret /\ n \in Nat \ {0}
    BY <1>1, EmptySeq DEF Pass
  <2> DEFINE opens == ch = "{"
  <2>1. CASE opens
    <3>1. M!Read(pass, ch, r) = [pass EXCEPT !.placeholders = Append(p, <<>>)]
      BY <2>1 DEF M!Read, M!Open
    <3>2. Append(p, <<>>) # <<>>
      <4>1. <<>> \in Text
        BY EmptySeq DEF Text
      <4> HIDE DEF p, opens
      <4> QED BY <2>0, <4>1
    <3> HIDE DEF p, opens
    <3> QED BY <2>0, <3>1, <3>2 DEF Pass
  <2>2. CASE ~opens
    <3>1. M!Read(pass, ch, r) = M!Push(pass, <<ch>>)
      BY <1>1, <2>2 DEF M!Read, Closes
    <3>2. M!Push(pass, <<ch>>) = [pass EXCEPT !.placeholders = [p EXCEPT ![n] = p[n] \o <<ch>>]]
      BY <2>0 DEF M!Push
    <3>3. [p EXCEPT ![n] = p[n] \o <<ch>>] # <<>>
      <4>1. n \in DOMAIN p /\ DOMAIN [p EXCEPT ![n] = p[n] \o <<ch>>] = DOMAIN p
        <5> HIDE DEF p, opens
        <5> QED BY <2>0
      <4>2. DOMAIN <<>> = {}
        OBVIOUS
      <4> HIDE DEF p, n, opens
      <4> QED BY <4>1, <4>2
    <3> HIDE DEF p, n, opens
    <3> QED BY <2>0, <3>1, <3>2, <3>3 DEF Pass
  <2> HIDE DEF opens
  <2> QED BY <2>1, <2>2
<1>2. PICK f \in [0 .. Len(t) -> Pass] : ReadsBy(f, from, t, r) /\ f[Len(t)] = to
  BY DEF Reads
<1>3. Len(t) \in Nat
  BY DEF Text
<1> DEFINE T == {n \in Nat : n <= Len(t) => Inside(f[n])}
<1> HIDE DEF Inside
<1>4. 0 \in T
  <2>1. f[0] = from
    BY <1>2 DEF ReadsBy
  <2>2. Inside(f[0])
    BY <2>1 DEF Inside
  <2> QED BY <2>2
<1>5. ASSUME NEW n \in Nat, n \in T PROVE n + 1 \in T
  <2> SUFFICES ASSUME n + 1 <= Len(t) PROVE Inside(f[n + 1])
    OBVIOUS
  <2> DEFINE k == n + 1
  <2>1. k \in 1 .. Len(t) /\ n \in 0 .. Len(t) /\ n <= Len(t) /\ k - 1 = n
    BY <1>3
  <2>2. Inside(f[n]) /\ f[n] \in Pass
    BY <1>5, <2>1
  <2> HIDE DEF k, T
  <2>3. f[k] = M!Read(f[k - 1], t[k], r)
    BY <1>2, <2>1 DEF ReadsBy
  <2>4. f[k] = M!Read(f[n], t[k], r) /\ ~Closes(t[k])
    BY <2>1, <2>3 DEF Unclosing, Without, Closes
  <2>5. Inside(f[k])
    BY <1>1, <2>2, <2>4
  <2> QED BY <2>5 DEF k
<1>6. Nat \subseteq T
  <2> HIDE DEF T
  <2> QED BY <1>4, <1>5, NatSets
<1>7. Inside(f[Len(t)])
  BY <1>3, <1>6
<1> HIDE DEF T
<1> QED BY <1>2, <1>7 DEF Inside

\* Of a text in which nothing is closed, the result is what comes before the
\* first opening brace.
BeforeOpen(w) ==
    LET open == FirstOf(w, "{") IN IF open = 0 THEN w ELSE SubSeq(w, 1, open - 1)

LEMMA ReadsUnclosed ==
    ASSUME NEW w \in Text, Unclosing(w), NEW r, Braceless(r), NEW to, Reads(M!Unread, w, r, to)
    PROVE  to.ret = BeforeOpen(w) /\ to.ret \in Plain
<1> DEFINE open == FirstOf(w, "{")
           Opens(ch) == ch = "{"
           NoOpen(t) == Without(t, "{")
<1>1. /\ open \in 0 .. Len(w)
      /\ open = 0 => NoOpen(w)
      /\ open # 0 => Opens(w[open]) /\ \A i \in 1 .. open - 1 : ~Opens(w[i])
  BY FirstOfIs
<1>2. BeforeOpen(w) = IF open = 0 THEN w ELSE SubSeq(w, 1, open - 1)
  BY DEF BeforeOpen
<1>3. \A t \in Text : NoOpen(t) /\ Unclosing(t) => t \in Plain
  BY WithoutBraces DEF Unclosing
<1>4. \A t \in Text : (\A i \in 1 .. Len(t) : ~Opens(t[i])) => NoOpen(t)
  BY DEF Without
<1>5. \A t \in Text : (\A i \in 1 .. Len(t) : ~Closes(t[i])) <=> Unclosing(t)
  BY DEF Without, Closes, Unclosing
<1>6. \A from \in Pass : \A ch : Opens(ch) => Reads(from, <<ch>>, r, M!Open(from)) /\ <<ch>> \in Text
  BY ReadsBraces, Braces
<1> HIDE DEF open, Opens, NoOpen
<1>7. \A q \in Plain : /\ M!Push(M!Unread, q) \in Pass
                        /\ M!Push(M!Unread, q).ret = q
                        /\ M!Push(M!Unread, q).placeholders = <<>>
                        /\ Reads(M!Unread, q, r, M!Push(M!Unread, q))
  <2> SUFFICES ASSUME NEW q \in Plain
               PROVE  /\ M!Push(M!Unread, q) \in Pass
                      /\ M!Push(M!Unread, q).ret = q
                      /\ M!Push(M!Unread, q).placeholders = <<>>
                      /\ Reads(M!Unread, q, r, M!Push(M!Unread, q))
    OBVIOUS
  <2>1. q \in Text
    BY PlainIsText
  <2>2. <<>> \o q = q
    BY <2>1, TextConcat
  <2>3. M!Push(M!Unread, q) = [ret |-> q, placeholders |-> <<>>]
    BY <2>2 DEF M!Push, M!Unread
  <2> QED BY <2>1, <2>3, UnreadTypes, PushTypes, ReadsPlain DEF UnreadIsPass
<1>8. CASE open = 0
  <2>1. w \in Plain
    BY <1>1, <1>3, <1>8
  <2>2. to = M!Push(M!Unread, w)
    BY <1>7, <2>1, ReadsUnique
  <2> QED BY <1>2, <1>7, <1>8, <2>1, <2>2
<1>9. CASE open # 0
  <2> DEFINE q == SubSeq(w, 1, open - 1)
             rest == SubSeq(w, open + 1, Len(w))
             brace == <<w[open]>>
  <2>1. Len(w) \in Nat /\ open \in 1 .. Len(w)
    <3>1. Len(w) \in Nat
      BY DEF Text
    <3> QED BY <1>1, <1>9, <3>1
  <2>2. /\ q \in Text /\ rest \in Text
        /\ Len(q) = open - 1 /\ Len(rest) = Len(w) - open
        /\ \A i \in 1 .. open - 1 : q[i] = w[i]
        /\ \A i \in 1 .. Len(w) - open : rest[i] = w[open + i]
        /\ w = (q \o brace) \o rest
    BY <2>1, SplitAt
  <2> HIDE DEF q, rest, brace
  <2>3. \A i \in 1 .. Len(w) : ~Closes(w[i])
    BY <1>5
  <2>4. q \in Plain
    <3>1. \A i \in 1 .. Len(q) : ~Opens(q[i])
      BY <1>1, <1>9, <2>2
    <3>2. \A i \in 1 .. Len(q) : ~Closes(q[i])
      BY <2>1, <2>2, <2>3
    <3> QED BY <1>3, <1>4, <1>5, <2>2, <3>1, <3>2
  <2>5. Unclosing(rest)
    <3>1. \A i \in 1 .. Len(w) - open : open + i \in 1 .. Len(w)
      BY <2>1
    <3>2. \A i \in 1 .. Len(rest) : ~Closes(rest[i])
      BY <2>2, <2>3, <3>1
    <3> QED BY <1>5, <2>2, <3>2
  <2> DEFINE before == M!Push(M!Unread, q)
             opened == M!Open(before)
  <2>6. before \in Pass /\ before.ret = q /\ before.placeholders = <<>>
        /\ Reads(M!Unread, q, r, before)
    BY <1>7, <2>4
  <2> HIDE DEF before
  <2>7. opened \in Pass /\ opened.ret = q /\ opened.placeholders # <<>>
    <3>1. opened = [before EXCEPT !.placeholders = Append(<<>>, <<>>)]
      BY <2>6 DEF M!Open
    <3>2. opened.ret = q /\ opened.placeholders = Append(<<>>, <<>>)
      BY <2>6, <3>1 DEF Pass
    <3> QED BY <2>6, <3>2, OpenTypes
  <2>8. Reads(before, brace, r, opened) /\ brace \in Text
    BY <1>1, <1>6, <1>9, <2>6 DEF brace
  <2> HIDE DEF opened
  <2>9. PICK z \in Pass : Reads(opened, rest, r, z)
    BY <2>2, <2>7, ReadsAll
  <2>10. z.ret = q
    BY <2>2, <2>5, <2>7, <2>9, ReadsNested
  <2>11. Reads(M!Unread, q \o brace, r, opened) /\ q \o brace \in Text
    BY <2>2, <2>6, <2>8, ReadsConcat, TextConcat
  <2>12. Reads(M!Unread, w, r, z)
    BY <2>2, <2>9, <2>11, ReadsConcat
  <2>13. to = z
    BY <2>12, ReadsUnique
  <2> QED BY <1>2, <1>9, <2>4, <2>10, <2>13 DEF q
<1> QED BY <1>8, <1>9

LEMMA RewrittenIs ==
    ASSUME NEW t \in Text, NEW r, Braceless(r)
    PROVE  /\ M!ReplacePlaceholders(t, r) = M!Rewritten(t, r)
           /\ M!Rewritten(t, r) \in Plain
<1> DEFINE N == Len(t)
           Rewritten(f) ==
               f = [n \in 0 .. N |-> IF n = 0 THEN t ELSE M!Rewrite(f[n - 1], r)]
           rewritten == CHOOSE f : Rewritten(f)
           step == [a \in Text \X (1 .. N) |-> M!Rewrite(a[1], r)]
<1>1. N \in Nat
  BY DEF Text
<1>2. M!Rewritten(t, r) = BeforeOpen(rewritten[N])
  BY Zenon DEF M!Rewritten, M!FirstOpen, BeforeOpen, FirstOf
<1>3. \A u \in Text : M!Rewrite(u, r) \in Text
  <2> SUFFICES ASSUME NEW u \in Text PROVE M!Rewrite(u, r) \in Text
    OBVIOUS
  <2>1. PICK z \in Pass : Reads(M!Unread, u, r, z)
    BY UnreadTypes, ReadsAll DEF UnreadIsPass
  <2> QED BY <2>1, RewriteKeeps
<1> HIDE DEF N
<1>4. StepOver(step, Text, N)
  BY <1>3 DEF StepOver
<1>5. \A u \in Text, n \in 1 .. N : step[<<u, n>>] = M!Rewrite(u, r)
  OBVIOUS
<1> HIDE DEF step
<1>6. PICK f \in [0 .. N -> Text] : Computed(f, t, N, step)
  BY <1>1, <1>4, Recursion
<1>7. f[0] = t /\ \A n \in 1 .. N : f[n] = M!Rewrite(f[n - 1], r) /\ f[n - 1] \in Text
  <2>1. ASSUME NEW n \in 1 .. N PROVE f[n - 1] \in Text
    <3>1. n - 1 \in 0 .. N
      BY <1>1
    <3> QED BY <3>1
  <2> QED BY <1>5, <1>6, <2>1 DEF Computed
<1>8. Rewritten(f)
  <2>1. ASSUME NEW n \in 0 .. N
        PROVE  f[n] = IF n = 0 THEN t ELSE M!Rewrite(f[n - 1], r)
    <3>1. n # 0 => n \in 1 .. N
      BY <1>1
    <3> QED BY <1>7, <3>1
  <2>2. f = [n \in 0 .. N |-> f[n]]
    OBVIOUS
  <2> QED BY <2>1, <2>2, Zenon
<1>9. Rewritten(rewritten)
  <2> HIDE DEF Rewritten
  <2> QED BY <1>8
<1> HIDE DEF rewritten
<1>10. \A n \in 0 .. N : rewritten[n] = IF n = 0 THEN t ELSE M!Rewrite(rewritten[n - 1], r)
  BY <1>9
<1> HIDE DEF Rewritten
<1>11. rewritten[N] = f[N]
  <2>1. rewritten[0] = f[0]
    BY <1>1, <1>7, <1>10
  <2>2. ASSUME NEW n \in 0 + 1 .. N, rewritten[n - 1] = f[n - 1] PROVE rewritten[n] = f[n]
    <3>1. n \in 1 .. N /\ n \in 0 .. N /\ n # 0
      BY <1>1
    <3> QED BY <1>7, <1>10, <2>2, <3>1
  <2>3. Alike(rewritten, f, 0, N)
    BY <2>1, <2>2 DEF Alike
  <2>4. N \in 0 .. N
    BY <1>1
  <2> QED BY <1>1, <2>3, <2>4, SameRecursion
<1>12. PICK to \in Pass : Reads(M!Unread, t, r, to)
  BY UnreadTypes, ReadsAll DEF UnreadIsPass
<1> DEFINE Same(n) == Reads(M!Unread, f[n], r, to) /\ Late(f[n], N - n)
           T == {n \in Nat : n <= N => Same(n)}
<1>13. 0 \in T
  <2>1. Late(t, N)
    <3>1. \A i \in 1 .. Len(t) : i > Len(t) - N
      BY <1>1 DEF N
    <3> QED BY <3>1, Zenon DEF Late
  <2>2. N - 0 = N
    BY <1>1
  <2> QED BY <1>7, <1>12, <2>1, <2>2
<1>14. ASSUME NEW n \in Nat, n \in T PROVE n + 1 \in T
  <2> SUFFICES ASSUME n + 1 <= N PROVE Same(n + 1)
    OBVIOUS
  <2> DEFINE k == n + 1
             left == N - k
  <2>1. k \in 1 .. N /\ n <= N /\ k - 1 = n /\ left \in Nat /\ N - n = left + 1
    BY <1>1
  <2>2. Same(n)
    BY <1>14, <2>1
  <2>3. Reads(M!Unread, f[n], r, to) /\ Late(f[n], left + 1)
    BY <2>1, <2>2
  <2>4. f[k] = M!Rewrite(f[n], r) /\ f[n] \in Text
    BY <1>7, <2>1
  <2> HIDE DEF k, left, T
  <2>5. Reads(M!Unread, f[k], r, to) /\ Late(f[k], left)
    BY <2>1, <2>3, <2>4, RewriteKeeps
  <2> QED BY <2>5 DEF k, left
<1>15. Same(N)
  <2>1. Nat \subseteq T
    <3> HIDE DEF T
    <3> QED BY <1>13, <1>14, NatSets
  <2> QED BY <1>1, <2>1
<1>16. f[N] \in Text /\ Reads(M!Unread, f[N], r, to) /\ Late(f[N], 0)
  <2>1. N - N = 0 /\ N \in 0 .. N
    BY <1>1
  <2> QED BY <1>15, <2>1
<1>17. Unclosing(f[N])
  <2> DEFINE w == f[N]
  <2>1. Len(w) \in Nat
    BY <1>16 DEF Text
  <2>2. \A i \in 1 .. Len(w) : ~(i > Len(w) - 0)
    BY <2>1
  <2>3. \A i \in 1 .. Len(w) : Closes(w[i]) => i > Len(w) - 0
    BY <1>16 DEF Late, Closes
  <2>4. \A i \in 1 .. Len(w) : ~Closes(w[i])
    BY <2>2, <2>3, Zenon
  <2> QED BY <2>4 DEF Closes, Unclosing, Without
<1>18. to.ret = BeforeOpen(f[N]) /\ to.ret \in Plain
  BY <1>16, <1>17, ReadsUnclosed
<1>19. M!ReplacePlaceholders(t, r) = to.ret
  BY <1>12, ReplacedByReading
<1> QED BY <1>2, <1>11, <1>18, <1>19

-----------------------------------------------------------------------------
(* Braces in replacements.                                                 *)

Character == Symbol \ M!Quotes
Chars == Seq(Character)
BraceFree == Symbol \ {"{", "}"}

\* What requests capture.
Captured(r) == \A v \in DOMAIN r : v \in Chars /\ r[v] \in Chars

LEMMA TextsAreChars == Texts \subseteq Chars
<1>1. STRING \ M!Quotes \subseteq Character
  BY DEF Character, Symbol
<1> QED BY <1>1, SeqMonotonic DEF Texts, Chars

LEMMA QuotesAndBraces ==
    "open" # "{" /\ "open" # "}" /\ "close" # "{" /\ "close" # "}" /\ "open" # "close" /\ "{" # "}"
BY Zenon

LEMMA QuotedSymbols ==
    /\ \A ch \in Symbol : M!QuoteOf(ch) \in BraceFree /\ M!QuotedBy(ch) \in Character
    /\ \A ch \in Character : M!QuotedBy(M!QuoteOf(ch)) = ch /\ M!QuotedBy(ch) = ch
    /\ \A ch \in BraceFree : M!QuoteOf(M!QuotedBy(ch)) = ch
<1>1. ASSUME NEW ch \in Symbol PROVE M!QuoteOf(ch) \in BraceFree
  BY QuotesAndBraces, Zenon DEF M!QuoteOf, BraceFree, Symbol, M!Quotes
<1>2. ASSUME NEW ch \in Symbol PROVE M!QuotedBy(ch) \in Character
  BY QuotesAndBraces, Zenon DEF M!QuotedBy, Character, Symbol, M!Quotes
<1>3. ASSUME NEW ch \in Character PROVE M!QuotedBy(M!QuoteOf(ch)) = ch /\ M!QuotedBy(ch) = ch
  <2>1. ch # "open" /\ ch # "close"
    BY Zenon DEF Character, M!Quotes
  <2> QED BY <2>1, QuotesAndBraces, Zenon DEF M!QuoteOf, M!QuotedBy
<1>4. ASSUME NEW ch \in BraceFree PROVE M!QuoteOf(M!QuotedBy(ch)) = ch
  <2>1. ch # "{" /\ ch # "}"
    BY Zenon DEF BraceFree
  <2> QED BY <2>1, QuotesAndBraces, Zenon DEF M!QuoteOf, M!QuotedBy
<1> QED BY <1>1, <1>2, <1>3, <1>4

LEMMA CharsAre == Chars \subseteq Text /\ Plain \subseteq Text /\ Plain = Seq(BraceFree)
<1>1. Character \subseteq Symbol
  BY DEF Character
<1> QED BY <1>1, SeqMonotonic, PlainIsText DEF Chars, Text, Plain, BraceFree

LEMMA QuotedTexts ==
    ASSUME NEW t \in Text
    PROVE  /\ M!Quote(t) \in Plain /\ Len(M!Quote(t)) = Len(t)
           /\ \A i \in 1 .. Len(t) : M!Quote(t)[i] = M!QuoteOf(t[i])
           /\ M!Unquote(t) \in Chars /\ Len(M!Unquote(t)) = Len(t)
           /\ \A i \in 1 .. Len(t) : M!Unquote(t)[i] = M!QuotedBy(t[i])
<1> DEFINE n == Len(t)
<1>1. n \in Nat /\ DOMAIN t = 1 .. n /\ \A i \in 1 .. n : t[i] \in Symbol
  BY ElementOfSeq DEF Text
<1> HIDE DEF n
<1>2. M!Quote(t) = [i \in 1 .. n |-> M!QuoteOf(t[i])]
  BY <1>1 DEF M!Quote
<1>3. M!Unquote(t) = [i \in 1 .. n |-> M!QuotedBy(t[i])]
  BY <1>1 DEF M!Unquote
<1>4. M!Quote(t) \in [1 .. n -> BraceFree] /\ M!Unquote(t) \in [1 .. n -> Character]
  BY <1>1, <1>2, <1>3, QuotedSymbols
<1>5. M!Quote(t) \in Seq(BraceFree) /\ Len(M!Quote(t)) = n
  BY <1>1, <1>4
<1>6. M!Unquote(t) \in Seq(Character) /\ Len(M!Unquote(t)) = n
  BY <1>1, <1>4
<1> QED BY <1>2, <1>3, <1>5, <1>6, CharsAre DEF n, Chars

LEMMA QuotedBack ==
    /\ \A t \in Chars : M!Unquote(M!Quote(t)) = t /\ M!Unquote(t) = t
    /\ \A t \in Plain : M!Quote(M!Unquote(t)) = t
<1>1. ASSUME NEW t \in Chars PROVE M!Unquote(M!Quote(t)) = t /\ M!Unquote(t) = t
  <2> DEFINE q == M!Quote(t)
  <2>1. t \in Text /\ Len(t) \in Nat /\ \A i \in 1 .. Len(t) : t[i] \in Character
    BY CharsAre, ElementOfSeq DEF Chars
  <2>2. q \in Text /\ Len(q) = Len(t) /\ \A i \in 1 .. Len(t) : q[i] = M!QuoteOf(t[i])
    BY <2>1, QuotedTexts, CharsAre
  <2> HIDE DEF q
  <2>3. /\ M!Unquote(q) \in Chars /\ Len(M!Unquote(q)) = Len(t)
        /\ \A i \in 1 .. Len(t) : M!Unquote(q)[i] = M!QuotedBy(q[i])
    BY <2>2, QuotedTexts
  <2>4. /\ M!Unquote(t) \in Chars /\ Len(M!Unquote(t)) = Len(t)
        /\ \A i \in 1 .. Len(t) : M!Unquote(t)[i] = M!QuotedBy(t[i])
    BY <2>1, QuotedTexts
  <2>5. \A i \in 1 .. Len(t) : M!Unquote(q)[i] = t[i] /\ M!Unquote(t)[i] = t[i]
    BY <2>1, <2>2, <2>3, <2>4, QuotedSymbols
  <2> QED BY <2>3, <2>4, <2>5, SeqEqual DEF Chars, q
<1>2. ASSUME NEW t \in Plain PROVE M!Quote(M!Unquote(t)) = t
  <2> DEFINE u == M!Unquote(t)
  <2>1. t \in Text /\ Len(t) \in Nat /\ \A i \in 1 .. Len(t) : t[i] \in BraceFree
    BY CharsAre, ElementOfSeq
  <2>2. u \in Text /\ Len(u) = Len(t) /\ \A i \in 1 .. Len(t) : u[i] = M!QuotedBy(t[i])
    BY <2>1, QuotedTexts, CharsAre
  <2> HIDE DEF u
  <2>3. /\ M!Quote(u) \in Plain /\ Len(M!Quote(u)) = Len(t)
        /\ \A i \in 1 .. Len(t) : M!Quote(u)[i] = M!QuoteOf(u[i])
    BY <2>2, QuotedTexts
  <2>4. \A i \in 1 .. Len(t) : M!Quote(u)[i] = t[i]
    BY <2>1, <2>2, <2>3, QuotedSymbols
  <2> QED BY <2>3, <2>4, SeqEqual DEF Plain, u
<1> QED BY <1>1, <1>2

LEMMA UnquoteConcat ==
    ASSUME NEW s \in Text, NEW t \in Text
    PROVE  M!Unquote(s \o t) = M!Unquote(s) \o M!Unquote(t)
<1> DEFINE m == Len(s)
           n == Len(t)
           st == s \o t
           us == M!Unquote(s)
           ut == M!Unquote(t)
<1>1. /\ st \in Text /\ m \in Nat /\ n \in Nat /\ Len(st) = m + n
      /\ \A i \in 1 .. m + n : st[i] = IF i <= m THEN s[i] ELSE t[i - m]
  BY TextConcat
<1>2. us \in Text /\ Len(us) = m /\ \A i \in 1 .. m : us[i] = M!QuotedBy(s[i])
  BY QuotedTexts, CharsAre
<1>3. ut \in Text /\ Len(ut) = n /\ \A i \in 1 .. n : ut[i] = M!QuotedBy(t[i])
  BY QuotedTexts, CharsAre
<1> HIDE DEF us, ut, st
<1>4. /\ us \o ut \in Text /\ Len(us \o ut) = m + n
      /\ \A i \in 1 .. m + n : (us \o ut)[i] = IF i <= m THEN us[i] ELSE ut[i - m]
  <2>1. /\ us \o ut \in Text /\ Len(us \o ut) = Len(us) + Len(ut)
        /\ \A i \in 1 .. Len(us) + Len(ut) :
               (us \o ut)[i] = IF i <= Len(us) THEN us[i] ELSE ut[i - Len(us)]
    BY <1>2, <1>3, TextConcat
  <2> HIDE DEF m, n
  <2> QED BY <1>2, <1>3, <2>1
<1>5. /\ M!Unquote(st) \in Text /\ Len(M!Unquote(st)) = m + n
      /\ \A i \in 1 .. m + n : M!Unquote(st)[i] = M!QuotedBy(st[i])
  BY <1>1, QuotedTexts, CharsAre
<1> HIDE DEF m, n
<1>6. ASSUME NEW i \in 1 .. m + n PROVE M!Unquote(st)[i] = (us \o ut)[i]
  <2>1. CASE i <= m
    <3>1. i \in 1 .. m
      BY <1>1, <2>1
    <3> QED BY <1>1, <1>2, <1>4, <1>5, <2>1, <3>1
  <2>2. CASE ~(i <= m)
    <3>1. i - m \in 1 .. n
      BY <1>1, <2>2
    <3> QED BY <1>1, <1>3, <1>4, <1>5, <2>2, <3>1
  <2> QED BY <2>1, <2>2
<1>7. M!Unquote(st) = us \o ut
  BY <1>4, <1>5, <1>6, SeqEqual DEF Text
<1> QED BY <1>7 DEF st, us, ut

\* The names of quoted replacements are found where their own are.
LEMMA QuotedReplacements ==
    ASSUME NEW r, Captured(r)
    PROVE  /\ Braceless(M!Quoted(r))
           /\ \A name \in Plain :
                 /\ name \in DOMAIN M!Quoted(r) <=> M!Unquote(name) \in DOMAIN r
                 /\ name \in DOMAIN M!Quoted(r) =>
                        /\ M!Quoted(r)[name] \in Plain
                        /\ M!Unquote(M!Quoted(r)[name]) = r[M!Unquote(name)]
<1> DEFINE q == M!Quoted(r)
<1>1. DOMAIN q = {M!Quote(v) : v \in DOMAIN r}
  BY DEF M!Quoted
<1>2. ASSUME NEW v \in DOMAIN r
      PROVE  /\ M!Unquote(M!Quote(v)) = v /\ r[v] \in Chars
             /\ M!Quote(r[v]) \in Plain /\ M!Unquote(M!Quote(r[v])) = r[v]
  <2>1. v \in Chars /\ r[v] \in Chars
    BY DEF Captured
  <2> QED BY <2>1, QuotedBack, QuotedTexts, CharsAre
<1>3. ASSUME NEW v \in DOMAIN r
      PROVE  q[M!Quote(v)] = M!Quote(r[v])
  <2>1. q[M!Quote(v)] = M!Quote(r[M!Unquote(M!Quote(v))])
    BY DEF M!Quoted
  <2> QED BY <1>2, <2>1
<1> HIDE DEF q
<1>4. ASSUME NEW name \in DOMAIN q
      PROVE  /\ M!Unquote(name) \in DOMAIN r
             /\ q[name] \in Plain /\ M!Unquote(q[name]) = r[M!Unquote(name)]
  <2>1. PICK v \in DOMAIN r : name = M!Quote(v)
    BY <1>1
  <2> QED BY <1>2, <1>3, <2>1
<1>5. ASSUME NEW name \in Plain, M!Unquote(name) \in DOMAIN r PROVE name \in DOMAIN q
  <2>1. name = M!Quote(M!Unquote(name))
    BY QuotedBack
  <2> QED BY <1>1, <1>5, <2>1
<1> QED BY <1>4, <1>5 DEF q, Braceless

\* A pass in which no text has a brace, and the pass that it shows.
PlainPass == [ret : Plain, placeholders : Seq(Plain)]

Shown(pass) ==
    [ret |-> M!Unquote(pass.ret),
     placeholders |-> [i \in DOMAIN pass.placeholders |-> M!Unquote(pass.placeholders[i])]]

LEMMA ShownIs ==
    ASSUME NEW pass \in PlainPass
    PROVE  LET shown == Shown(pass)
               p == pass.placeholders
           IN  /\ pass \in Pass /\ shown \in Pass
               /\ shown.ret = M!Unquote(pass.ret) /\ pass.ret \in Plain
               /\ p \in Seq(Plain) /\ Len(p) \in Nat
               /\ shown.placeholders \in Seq(Text) /\ Len(shown.placeholders) = Len(p)
               /\ \A i \in 1 .. Len(p) : shown.placeholders[i] = M!Unquote(p[i])
               /\ shown.placeholders = <<>> <=> p = <<>>
<1> DEFINE p == pass.placeholders
           sp == [i \in DOMAIN p |-> M!Unquote(p[i])]
           n == Len(p)
<1>1. pass.ret \in Plain /\ p \in Seq(Plain) /\ n \in Nat /\ DOMAIN p = 1 .. n
      /\ \A i \in 1 .. n : p[i] \in Plain
  BY ElementOfSeq DEF PlainPass
<1>2. Shown(pass) = [ret |-> M!Unquote(pass.ret), placeholders |-> sp]
  BY DEF Shown
<1>3. \A i \in 1 .. n : M!Unquote(p[i]) \in Text
  BY <1>1, QuotedTexts, CharsAre
<1>4. sp \in Seq(Text) /\ Len(sp) = n /\ \A i \in 1 .. n : sp[i] = M!Unquote(p[i])
  <2> HIDE DEF p, n
  <2>1. sp \in [1 .. n -> Text] /\ \A i \in 1 .. n : sp[i] = M!Unquote(p[i])
    BY <1>1, <1>3
  <2> HIDE DEF sp
  <2>2. sp \in Seq(Text) /\ Len(sp) = n
    BY <1>1, <2>1
  <2> QED BY <2>1, <2>2
<1>5. M!Unquote(pass.ret) \in Text
  BY <1>1, QuotedTexts, CharsAre
<1>6. sp = <<>> <=> p = <<>>
  <2>1. sp = <<>> <=> n = 0
    <3> HIDE DEF sp, n
    <3> QED BY <1>4, EmptySeq
  <2>2. p = <<>> <=> n = 0
    <3> HIDE DEF p
    <3> QED BY <1>1, EmptySeq DEF n
  <2> QED BY <2>1, <2>2
<1>7. pass \in Pass
  <2>1. p \in Seq(Text)
    BY <1>1, CharsAre, SeqMonotonic
  <2> QED BY <1>1, <2>1, CharsAre DEF PlainPass, Pass
<1> HIDE DEF sp
<1>8. Shown(pass) \in Pass /\ Shown(pass).ret = M!Unquote(pass.ret) /\ Shown(pass).placeholders = sp
  BY <1>2, <1>4, <1>5 DEF Pass
<1> QED BY <1>1, <1>4, <1>6, <1>7, <1>8

LEMMA PlainPush ==
    ASSUME NEW pass \in PlainPass, NEW t \in Plain
    PROVE  /\ M!Push(pass, t) \in PlainPass
           /\ Shown(M!Push(pass, t)) = M!Push(Shown(pass), M!Unquote(t))
<1> DEFINE p == pass.placeholders
           n == Len(p)
           shown == Shown(pass)
           sp == shown.placeholders
           pushed == M!Push(pass, t)
           ut == M!Unquote(t)
<1>1. /\ shown \in Pass /\ shown.ret = M!Unquote(pass.ret) /\ pass.ret \in Plain
      /\ p \in Seq(Plain) /\ n \in Nat
      /\ sp \in Seq(Text) /\ Len(sp) = n
      /\ \A i \in 1 .. n : sp[i] = M!Unquote(p[i])
      /\ sp = <<>> <=> p = <<>>
  BY ShownIs
<1>2. \A u \in Plain : u \o t \in Plain /\ M!Unquote(u \o t) = M!Unquote(u) \o ut
  BY CharsAre, UnquoteConcat, ConcatProperties
<1>3. pass = [ret |-> pass.ret, placeholders |-> p] /\ shown = [ret |-> shown.ret, placeholders |-> sp]
  BY <1>1 DEF PlainPass, Pass
<1> HIDE DEF ut, shown
<1>4. CASE p = <<>>
  <2>1. pushed = [ret |-> pass.ret \o t, placeholders |-> p]
    BY <1>3, <1>4 DEF M!Push
  <2>2. M!Push(shown, ut) = [ret |-> shown.ret \o ut, placeholders |-> sp]
    BY <1>1, <1>3, <1>4 DEF M!Push
  <2>3. pushed \in PlainPass
    BY <1>1, <1>2, <2>1 DEF PlainPass
  <2>4. sp = [i \in DOMAIN p |-> M!Unquote(p[i])]
    BY DEF shown, Shown
  <2>5. Shown(pushed) = [ret |-> M!Unquote(pass.ret \o t), placeholders |-> sp]
    BY <2>1, <2>4 DEF Shown
  <2> QED BY <1>1, <1>2, <2>2, <2>3, <2>5 DEF shown, ut
<1>5. CASE p # <<>>
  <2> DEFINE q == [p EXCEPT ![n] = p[n] \o t]
             sq == [sp EXCEPT ![n] = sp[n] \o ut]
  <2>1. n \in 1 .. n /\ p[n] \in Plain
    <3>1. n # 0
      BY <1>1, <1>5, EmptySeq
    <3>2. n \in 1 .. n
      BY <1>1, <3>1
    <3> QED BY <1>1, <3>2, ElementOfSeq
  <2>2. p[n] \o t \in Plain /\ sp[n] \o ut = M!Unquote(p[n] \o t) /\ sp[n] \o ut \in Text
    <3>1. p[n] \o t \in Plain /\ M!Unquote(p[n] \o t) = M!Unquote(p[n]) \o ut
      BY <1>2, <2>1
    <3>2. sp[n] = M!Unquote(p[n])
      BY <1>1, <2>1
    <3>3. M!Unquote(p[n] \o t) \in Text
      BY <3>1, QuotedTexts, CharsAre
    <3> QED BY <3>1, <3>2, <3>3
  <2>3. pushed = [ret |-> pass.ret, placeholders |-> q]
    BY <1>3, <1>5 DEF M!Push
  <2>4. M!Push(shown, ut) = [ret |-> shown.ret, placeholders |-> sq]
    BY <1>1, <1>3, <1>5 DEF M!Push
  <2>5. q \in Seq(Plain) /\ Len(q) = n /\ \A i \in 1 .. n : q[i] = IF i = n THEN p[n] \o t ELSE p[i]
    BY <1>1, <2>1, <2>2, ExceptSeq
  <2>6. sq \in Seq(Text) /\ Len(sq) = n
        /\ \A i \in 1 .. n : sq[i] = IF i = n THEN sp[n] \o ut ELSE sp[i]
    BY <1>1, <2>1, <2>2, ExceptSeq
  <2> HIDE DEF q, sq, pushed
  <2>7. pushed \in PlainPass
    BY <1>1, <2>3, <2>5 DEF PlainPass
  <2>8. pushed.placeholders = q /\ pushed.ret = pass.ret
    BY <2>3
  <2>9. /\ Shown(pushed) \in Pass
        /\ Shown(pushed).ret = M!Unquote(pass.ret)
        /\ Shown(pushed).placeholders \in Seq(Text) /\ Len(Shown(pushed).placeholders) = Len(q)
        /\ \A i \in 1 .. Len(q) : Shown(pushed).placeholders[i] = M!Unquote(q[i])
    BY <2>7, <2>8, ShownIs
  <2>10. \A i \in 1 .. n : Shown(pushed).placeholders[i] = sq[i]
    BY <1>1, <2>2, <2>5, <2>6, <2>9
  <2>11. Shown(pushed).placeholders = sq
    BY <2>5, <2>6, <2>9, <2>10, SeqEqual
  <2>12. Shown(pushed) = [ret |-> shown.ret, placeholders |-> sq]
    BY <1>1, <2>9, <2>11 DEF Pass
  <2> QED BY <2>4, <2>7, <2>12 DEF pushed, shown, ut
<1> QED BY <1>4, <1>5 DEF shown, ut

LEMMA PlainOpen ==
    ASSUME NEW pass \in PlainPass
    PROVE  M!Open(pass) \in PlainPass /\ Shown(M!Open(pass)) = M!Open(Shown(pass))
<1> DEFINE p == pass.placeholders
           n == Len(p)
           shown == Shown(pass)
           sp == shown.placeholders
           q == Append(p, <<>>)
           sq == Append(sp, <<>>)
           open == M!Open(pass)
<1>1. /\ shown \in Pass /\ shown.ret = M!Unquote(pass.ret) /\ pass.ret \in Plain
      /\ p \in Seq(Plain) /\ n \in Nat /\ sp \in Seq(Text) /\ Len(sp) = n
      /\ \A i \in 1 .. n : sp[i] = M!Unquote(p[i])
  BY ShownIs
<1>2. <<>> \in Plain /\ <<>> \in Text /\ M!Unquote(<<>>) = <<>>
  <2>1. <<>> \in Plain /\ <<>> \in Chars
    BY EmptySeq DEF Plain, Chars
  <2> QED BY <2>1, QuotedBack, CharsAre
<1>3. pass = [ret |-> pass.ret, placeholders |-> p] /\ shown = [ret |-> shown.ret, placeholders |-> sp]
  BY <1>1 DEF PlainPass, Pass
<1> HIDE DEF shown
<1>4. \A z \in Pass : M!Open(z) = [ret |-> z.ret, placeholders |-> Append(z.placeholders, <<>>)]
  <2> TAKE z \in Pass
  <2> DEFINE e == Append(z.placeholders, <<>>)
  <2>1. M!Open(z) = [z EXCEPT !.placeholders = e]
    BY DEF M!Open
  <2> HIDE DEF e
  <2>2. [z EXCEPT !.placeholders = e] = [ret |-> z.ret, placeholders |-> e]
    BY DEF Pass
  <2> QED BY <2>1, <2>2 DEF e
<1>5. open = [ret |-> pass.ret, placeholders |-> q] /\ M!Open(shown) = [ret |-> shown.ret, placeholders |-> sq]
  <2>1. pass \in Pass
    BY ShownIs
  <2> QED BY <1>1, <1>4, <2>1
<1>6. /\ q \in Seq(Plain) /\ Len(q) = n + 1 /\ q[n + 1] = <<>>
      /\ \A i \in 1 .. n : q[i] = p[i]
  BY <1>1, <1>2, AppendProperties
<1>7. /\ sq \in Seq(Text) /\ Len(sq) = n + 1 /\ sq[n + 1] = <<>>
      /\ \A i \in 1 .. n : sq[i] = sp[i]
  BY <1>1, <1>2, AppendProperties
<1> HIDE DEF q, sq, open
<1>8. open \in PlainPass /\ open.placeholders = q /\ open.ret = pass.ret
  BY <1>1, <1>5, <1>6 DEF PlainPass
<1>9. /\ Shown(open) \in Pass /\ Shown(open).ret = M!Unquote(pass.ret)
      /\ Shown(open).placeholders \in Seq(Text) /\ Len(Shown(open).placeholders) = Len(q)
      /\ \A i \in 1 .. Len(q) : Shown(open).placeholders[i] = M!Unquote(q[i])
  BY <1>8, ShownIs
<1>10. ASSUME NEW i \in 1 .. n + 1 PROVE Shown(open).placeholders[i] = sq[i]
  <2>1. CASE i = n + 1
    BY <1>2, <1>6, <1>7, <1>9, <2>1
  <2>2. CASE i # n + 1
    <3>1. i \in 1 .. n
      BY <1>1, <2>2
    <3> QED BY <1>1, <1>6, <1>7, <1>9, <3>1
  <2> QED BY <2>1, <2>2
<1>11. Shown(open).placeholders = sq
  BY <1>6, <1>7, <1>9, <1>10, SeqEqual
<1>12. Shown(open) = [ret |-> shown.ret, placeholders |-> sq]
  BY <1>1, <1>9, <1>11 DEF Pass
<1> QED BY <1>5, <1>8, <1>12 DEF shown, open

LEMMA FrontLast ==
    ASSUME NEW S, NEW s \in Seq(S), s # <<>>
    PROVE  /\ Len(s) \in Nat \ {0}
           /\ M!Front(s) \in Seq(S) /\ Len(M!Front(s)) = Len(s) - 1
           /\ \A i \in 1 .. Len(s) - 1 : M!Front(s)[i] = s[i]
           /\ M!Last(s) = s[Len(s)] /\ M!Last(s) \in S
<1>1. Len(s) \in Nat \ {0} /\ \A i \in 1 .. Len(s) : s[i] \in S
  BY EmptySeq, ElementOfSeq
<1> DEFINE n == Len(s) - 1
<1>2. n \in Nat /\ Len(s) = n + 1
  BY <1>1
<1>3. M!Front(s) = SubSeq(s, 1, n)
  BY DEF M!Front
<1>4. M!Last(s) = s[Len(s)]
  BY DEF M!Last
<1> HIDE DEF n
<1>5. \A i \in 1 .. n : s[i] \in S
  BY <1>1, <1>2
<1>6. /\ SubSeq(s, 1, n) \in Seq(S)
      /\ Len(SubSeq(s, 1, n)) = IF 1 <= n THEN n - 1 + 1 ELSE 0
      /\ \A i \in 1 .. n - 1 + 1 : SubSeq(s, 1, n)[i] = s[1 + i - 1]
  BY <1>2, <1>5, SubSeqProperties
<1>7. Len(SubSeq(s, 1, n)) = n
  BY <1>2, <1>6
<1>8. ASSUME NEW i \in 1 .. n PROVE SubSeq(s, 1, n)[i] = s[i]
  <2>1. i \in 1 .. n - 1 + 1 /\ 1 + i - 1 = i
    BY <1>2
  <2> QED BY <1>6, <2>1
<1> QED BY <1>1, <1>3, <1>4, <1>6, <1>7, <1>8 DEF n

LEMMA PlainClose ==
    ASSUME NEW pass \in PlainPass, NEW r, Captured(r)
    PROVE  /\ M!Close(pass, M!Quoted(r)) \in PlainPass
           /\ Shown(M!Close(pass, M!Quoted(r))) = M!Close(Shown(pass), r)
<1> DEFINE p == pass.placeholders
           n == Len(p)
           shown == Shown(pass)
           sp == shown.placeholders
           qr == M!Quoted(r)
<1>1. /\ shown \in Pass /\ shown.ret = M!Unquote(pass.ret) /\ pass.ret \in Plain
      /\ p \in Seq(Plain) /\ n \in Nat /\ sp \in Seq(Text) /\ Len(sp) = n
      /\ \A i \in 1 .. n : sp[i] = M!Unquote(p[i])
      /\ sp = <<>> <=> p = <<>>
  BY ShownIs
<1>2. pass = [ret |-> pass.ret, placeholders |-> p] /\ shown = [ret |-> shown.ret, placeholders |-> sp]
  BY <1>1 DEF PlainPass, Pass
<1>3. \A name \in Plain :
         /\ name \in DOMAIN qr <=> M!Unquote(name) \in DOMAIN r
         /\ name \in DOMAIN qr => qr[name] \in Plain /\ M!Unquote(qr[name]) = r[M!Unquote(name)]
  BY QuotedReplacements
<1> HIDE DEF shown, qr
<1>4. CASE p = <<>>
  <2>1. M!Close(pass, qr) = pass /\ M!Close(shown, r) = shown
    BY <1>1, <1>4 DEF M!Close
  <2> QED BY <2>1 DEF shown, qr
<1>5. CASE p # <<>>
  <2> DEFINE name == M!Last(p)
             sname == M!Last(sp)
             f == M!Front(p)
             sf == M!Front(sp)
             outer == [ret |-> pass.ret, placeholders |-> f]
             souter == [ret |-> shown.ret, placeholders |-> sf]
  <2>1. /\ f \in Seq(Plain) /\ Len(f) = n - 1 /\ n \in Nat \ {0}
        /\ \A i \in 1 .. n - 1 : f[i] = p[i]
        /\ name = p[n] /\ name \in Plain
    BY <1>1, <1>5, FrontLast
  <2>2. /\ sf \in Seq(Text) /\ Len(sf) = n - 1
        /\ \A i \in 1 .. n - 1 : sf[i] = sp[i]
        /\ sname = sp[n]
    BY <1>1, <1>5, FrontLast
  <2>3. sname = M!Unquote(name)
    BY <1>1, <2>1, <2>2
  <2>4. M!Close(pass, qr) = IF name \notin DOMAIN qr THEN outer ELSE M!Push(outer, qr[name])
    BY <1>2, <1>5 DEF M!Close
  <2>5. M!Close(shown, r) = IF sname \notin DOMAIN r THEN souter ELSE M!Push(souter, r[sname])
    BY <1>1, <1>2, <1>5 DEF M!Close
  <2> HIDE DEF name, sname, f, sf
  <2>6. outer \in PlainPass /\ outer.placeholders = f /\ outer.ret = pass.ret
    BY <1>1, <2>1 DEF PlainPass
  <2> HIDE DEF outer
  <2>7. /\ Shown(outer) \in Pass /\ Shown(outer).ret = M!Unquote(pass.ret)
        /\ Shown(outer).placeholders \in Seq(Text) /\ Len(Shown(outer).placeholders) = Len(f)
        /\ \A i \in 1 .. Len(f) : Shown(outer).placeholders[i] = M!Unquote(f[i])
    BY <2>6, ShownIs
  <2>8. ASSUME NEW i \in 1 .. n - 1 PROVE Shown(outer).placeholders[i] = sf[i]
    <3>1. i \in 1 .. n /\ i \in 1 .. Len(f)
      BY <2>1
    <3> QED BY <1>1, <2>1, <2>2, <2>7, <3>1
  <2>9. Shown(outer).placeholders = sf
    BY <2>1, <2>2, <2>7, <2>8, SeqEqual
  <2>10. Shown(outer) = souter
    BY <1>1, <2>7, <2>9 DEF Pass
  <2> HIDE DEF souter
  <2>11. CASE name \notin DOMAIN qr
    BY <1>3, <2>1, <2>3, <2>4, <2>5, <2>6, <2>10, <2>11 DEF shown, qr
  <2>12. CASE name \in DOMAIN qr
    <3>1. qr[name] \in Plain /\ M!Unquote(qr[name]) = r[sname] /\ sname \in DOMAIN r
      BY <1>3, <2>1, <2>3, <2>12
    <3>2. M!Push(outer, qr[name]) \in PlainPass
          /\ Shown(M!Push(outer, qr[name])) = M!Push(souter, r[sname])
      BY <2>6, <2>10, <3>1, PlainPush
    <3> QED BY <2>4, <2>5, <2>12, <3>1, <3>2 DEF shown, qr
  <2> QED BY <2>11, <2>12
<1> QED BY <1>4, <1>5

LEMMA PlainRead ==
    ASSUME NEW pass \in PlainPass, NEW ch \in Character, NEW r, Captured(r)
    PROVE  /\ M!Read(pass, ch, M!Quoted(r)) \in PlainPass
           /\ Shown(M!Read(pass, ch, M!Quoted(r))) = M!Read(Shown(pass), ch, r)
<1> DEFINE opens == ch = "{"
           closes == ch = "}"
           qr == M!Quoted(r)
<1>1. CASE opens
  <2>1. M!Read(pass, ch, qr) = M!Open(pass) /\ M!Read(Shown(pass), ch, r) = M!Open(Shown(pass))
    BY <1>1, Zenon DEF M!Read
  <2> HIDE DEF opens
  <2> QED BY <2>1, PlainOpen
<1>2. CASE closes
  <2>1. M!Read(pass, ch, qr) = M!Close(pass, qr) /\ M!Read(Shown(pass), ch, r) = M!Close(Shown(pass), r)
    BY <1>2, QuotesAndBraces, Zenon DEF M!Read
  <2> HIDE DEF closes
  <2> QED BY <2>1, PlainClose
<1>3. CASE ~opens /\ ~closes
  <2>1. /\ M!Read(pass, ch, qr) = M!Push(pass, <<ch>>)
        /\ M!Read(Shown(pass), ch, r) = M!Push(Shown(pass), <<ch>>)
    BY <1>3, Zenon DEF M!Read
  <2>2. ch \in BraceFree
    BY <1>3 DEF BraceFree, Character
  <2> HIDE DEF opens, closes
  <2>3. <<ch>> \in Plain /\ <<ch>> \in Chars
    BY <2>2, Singleton, CharsAre DEF Chars
  <2>4. M!Unquote(<<ch>>) = <<ch>>
    BY <2>3, QuotedBack
  <2> QED BY <2>1, <2>3, <2>4, PlainPush
<1> QED BY <1>1, <1>2, <1>3

(* One pass over a text, with a stack of the names of open placeholders,   *)
(* makes of it what rewriting its innermost placeholders one by one makes  *)
(* of it, however they nest and whether the braces match or not, for every *)
(* text and all replacements: a replacement's braces are never taken for   *)
(* those of the text (replace_placeholders).                               *)
THEOREM ExpandedIs ==
    ASSUME NEW t \in Chars, NEW r, Captured(r)
    PROVE  /\ M!ReplacePlaceholders(t, r) = M!Expanded(t, r)
           /\ M!Expanded(t, r) \in Chars
<1> DEFINE N == Len(t)
           qr == M!Quoted(r)
           step == [a \in PlainPass \X (1 .. N) |-> M!Read(a[1], t[a[2]], qr)]
<1>1. N \in Nat /\ t \in Text /\ \A n \in 1 .. N : t[n] \in Character
  BY CharsAre, ElementOfSeq DEF Chars
<1> HIDE DEF N, qr
<1>2. StepOver(step, PlainPass, N)
  <2>1. ASSUME NEW a \in PlainPass \X (1 .. N) PROVE M!Read(a[1], t[a[2]], qr) \in PlainPass
    BY <1>1, PlainRead DEF qr
  <2> QED BY <2>1 DEF StepOver
<1>3. \A pass \in PlainPass, n \in 1 .. N : step[<<pass, n>>] = M!Read(pass, t[n], qr)
  OBVIOUS
<1> HIDE DEF step
<1>4. M!Unread \in PlainPass /\ Shown(M!Unread) = M!Unread
  <2>1. <<>> \in Plain /\ <<>> \in Chars /\ <<>> \in Seq(Plain)
    BY EmptySeq DEF Plain, Chars
  <2>2. M!Unquote(<<>>) = <<>>
    BY <2>1, QuotedBack
  <2>3. [i \in DOMAIN <<>> |-> M!Unquote(<<>>[i])] = <<>>
    OBVIOUS
  <2> QED BY <2>1, <2>2, <2>3 DEF M!Unread, PlainPass, Shown
<1>5. PICK f \in [0 .. N -> PlainPass] : Computed(f, M!Unread, N, step)
  BY <1>1, <1>2, <1>4, Recursion
<1>6. ASSUME NEW n \in 1 .. N
      PROVE  f[n] = M!Read(f[n - 1], t[n], qr) /\ f[n - 1] \in PlainPass
  <2>1. n - 1 \in 0 .. N
    BY <1>1
  <2>2. f[n - 1] \in PlainPass
    BY <2>1
  <2> QED BY <1>3, <1>5, <2>2 DEF Computed
<1>7. f[0] = M!Unread /\ f[N] \in PlainPass /\ \A n \in 0 .. N : f[n] \in PlainPass
  BY <1>1, <1>5 DEF Computed
<1> DEFINE g == [n \in 0 .. N |-> Shown(f[n])]
<1>8. g \in [0 .. N -> Pass] /\ \A n \in 0 .. N : g[n] = Shown(f[n])
  <2>1. \A n \in 0 .. N : Shown(f[n]) \in Pass
    BY <1>7, ShownIs
  <2> QED BY <2>1
<1>9. f \in [0 .. N -> Pass]
  <2>1. \A n \in 0 .. N : f[n] \in Pass
    BY <1>7, ShownIs
  <2> QED BY <2>1
<1> HIDE DEF g
<1>10. ASSUME NEW n \in 1 .. N PROVE g[n] = M!Read(g[n - 1], t[n], r)
  <2>1. n - 1 \in 0 .. N /\ n \in 0 .. N
    BY <1>1
  <2>2. Shown(M!Read(f[n - 1], t[n], qr)) = M!Read(Shown(f[n - 1]), t[n], r)
    BY <1>1, <1>6, PlainRead DEF qr
  <2> QED BY <1>6, <1>8, <2>1, <2>2
<1>11. Reads(M!Unread, t, qr, f[N])
  <2>1. ReadsBy(f, M!Unread, t, qr)
    BY <1>6, <1>7 DEF ReadsBy, N
  <2> QED BY <1>9, <2>1 DEF Reads, N
<1>12. Reads(M!Unread, t, r, g[N])
  <2>1. g[0] = M!Unread
    <3>1. 0 \in 0 .. N
      BY <1>1
    <3> QED BY <1>4, <1>7, <1>8, <3>1
  <2>2. ReadsBy(g, M!Unread, t, r)
    BY <1>10, <2>1 DEF ReadsBy, N
  <2> QED BY <1>8, <2>2 DEF Reads, N
<1>13. M!ReplacePlaceholders(t, r) = M!Unquote(f[N].ret)
  <2>1. N \in 0 .. N
    BY <1>1
  <2>2. g[N].ret = M!Unquote(f[N].ret)
    BY <1>7, <1>8, <2>1, ShownIs
  <2> QED BY <1>1, <1>12, <2>2, ReplacedByReading
<1>14. M!Rewritten(t, qr) = f[N].ret /\ f[N].ret \in Plain
  <2>1. M!ReplacePlaceholders(t, qr) = f[N].ret
    BY <1>1, <1>11, ReplacedByReading
  <2>2. Braceless(qr)
    BY QuotedReplacements DEF qr
  <2> QED BY <1>1, <2>1, <2>2, RewrittenIs
<1>15. M!Expanded(t, r) = M!Unquote(M!Rewritten(t, qr))
  BY DEF M!Expanded, qr
<1>16. M!Unquote(f[N].ret) \in Chars
  BY <1>14, QuotedTexts, CharsAre
<1> QED BY <1>13, <1>14, <1>15, <1>16

-----------------------------------------------------------------------------
(* Calls of merges.                                                        *)

\* A sequence that is another up to n and goes on with x.
EndsWith(u, s, n, x) ==
    /\ IsSequence(u) /\ n \in Nat /\ Len(u) = n + 1 /\ u[n + 1] = x
    /\ \A i \in 1 .. n : u[i] = s[i]

LEMMA SequenceIs ==
    ASSUME NEW B, NEW u \in Seq(B)
    PROVE  IsSequence(u)
<1> DEFINE S == {u[i] : i \in DOMAIN u}
<1>1. \A i \in 1 .. Len(u) : u[i] \in S
  OBVIOUS
<1> HIDE DEF S
<1>2. u \in Seq(S)
  BY <1>1, SeqOf
<1> QED BY <1>2 DEF S, IsSequence

LEMMA AppendEnds ==
    ASSUME NEW s, IsSequence(s), NEW x
    PROVE  EndsWith(Append(s, x), s, Len(s), x)
<1> DEFINE B == {s[i] : i \in DOMAIN s} \cup {x}
           u == Append(s, x)
<1>1. s \in Seq(B)
  <2> DEFINE S == {s[i] : i \in DOMAIN s}
  <2>1. s \in Seq(S)
    BY DEF IsSequence
  <2>2. S \subseteq B
    OBVIOUS
  <2> HIDE DEF S, B
  <2> QED BY <2>1, <2>2, SeqMonotonic
<1>2. x \in B
  OBVIOUS
<1> HIDE DEF B
<1>3. /\ u \in Seq(B) /\ Len(s) \in Nat /\ Len(u) = Len(s) + 1
      /\ \A i \in 1 .. Len(s) : u[i] = s[i]
      /\ u[Len(s) + 1] = x
  BY <1>1, <1>2, AppendProperties
<1> QED BY <1>3, SequenceIs DEF EndsWith

LEMMA FrontIs ==
    ASSUME NEW s, IsSequence(s), s # <<>>
    PROVE  /\ Len(s) \in Nat \ {0}
           /\ IsSequence(M!Front(s)) /\ Len(M!Front(s)) = Len(s) - 1
           /\ \A i \in 1 .. Len(s) - 1 : M!Front(s)[i] = s[i]
           /\ M!Last(s) = s[Len(s)]
<1> DEFINE S == {s[i] : i \in DOMAIN s}
           u == M!Front(s)
<1>1. s \in Seq(S)
  BY DEF IsSequence
<1> HIDE DEF S
<1>2. Len(s) \in Nat \ {0} /\ \A i \in 1 .. Len(s) : s[i] \in S
  BY <1>1, EmptySeq, ElementOfSeq
<1> DEFINE n == Len(s) - 1
<1>3. n \in Nat /\ 1 \in Nat /\ \A i \in 1 .. n : s[i] \in S
  BY <1>2
<1>4. u = SubSeq(s, 1, n)
  BY DEF M!Front
<1> HIDE DEF u
<1>5. u \in Seq(S) /\ Len(u) = n /\ \A i \in 1 .. n : u[i] = s[i]
  <2>1. /\ SubSeq(s, 1, n) \in Seq(S)
        /\ Len(SubSeq(s, 1, n)) = IF 1 <= n THEN n - 1 + 1 ELSE 0
        /\ \A i \in 1 .. n - 1 + 1 : SubSeq(s, 1, n)[i] = s[1 + i - 1]
    <3> DEFINE one == 1
    <3>1. one \in Int /\ n \in Int /\ \A i \in one .. n : s[i] \in S
      BY <1>3
    <3> HIDE DEF one, n
    <3>2. /\ SubSeq(s, one, n) \in Seq(S)
          /\ Len(SubSeq(s, one, n)) = IF one <= n THEN n - one + 1 ELSE 0
          /\ \A i \in 1 .. n - one + 1 : SubSeq(s, one, n)[i] = s[one + i - 1]
      BY <3>1, SubSeqProperties
    <3> QED BY <3>2 DEF one
  <2>2. n - 1 + 1 = n /\ \A i \in 1 .. n : 1 + i - 1 = i
    BY <1>3
  <2>2a. n \in Nat
    BY <1>3
  <2> HIDE DEF n
  <2>3. (IF 1 <= n THEN n - 1 + 1 ELSE 0) = n
    BY <2>2a
  <2>4. u \in Seq(S) /\ Len(u) = n
    <3>1. Len(u) = IF 1 <= n THEN n - 1 + 1 ELSE 0
      BY <1>4, <2>1, Zenon
    <3>2. Len(u) = n
      BY <2>3, <3>1
    <3> QED BY <1>4, <2>1, <3>2, Zenon
  <2>5. \A i \in 1 .. n : u[i] = s[1 + i - 1]
    BY <1>4, <2>1, <2>2
  <2> QED BY <2>2, <2>4, <2>5
<1>6. IsSequence(u)
  BY <1>5, SequenceIs
<1>7. M!Last(s) = s[Len(s)]
  BY DEF M!Last
<1> QED BY <1>2, <1>5, <1>6, <1>7 DEF u

LEMMA ConcatEnds ==
    ASSUME NEW s, IsSequence(s), NEW x
    PROVE  EndsWith(s \o <<x>>, s, Len(s), x)
<1> DEFINE S == {s[i] : i \in DOMAIN s}
<1>1. s \in Seq(S)
  BY DEF IsSequence
<1> HIDE DEF S
<1>2. s \o <<x>> = Append(s, x)
  BY <1>1, AppendIsConcat
<1> QED BY <1>2, AppendEnds

\* The last is replaced.
LEMMA LastReplaced ==
    ASSUME NEW s, IsSequence(s), s # <<>>, NEW x
    PROVE  EndsWith(M!Front(s) \o <<x>>, s, Len(s) - 1, x)
<1> DEFINE f == M!Front(s)
           u == f \o <<x>>
           n == Len(s) - 1
<1>1. IsSequence(f) /\ Len(f) = n /\ \A i \in 1 .. n : f[i] = s[i]
  BY FrontIs
<1> HIDE DEF f, n
<1>2. EndsWith(u, f, n, x)
  BY <1>1, ConcatEnds
<1> HIDE DEF u
<1>3. EndsWith(u, s, n, x)
  BY <1>1, <1>2 DEF EndsWith
<1> QED BY <1>3 DEF u, f, n

\* The last is dropped and the one before it is replaced.
LEMMA LastTwoReplaced ==
    ASSUME NEW s, IsSequence(s), s # <<>>, M!Front(s) # <<>>, NEW x
    PROVE  /\ EndsWith(M!Front(M!Front(s)) \o <<x>>, s, Len(s) - 2, x)
           /\ Len(s) - 2 \in Nat
           /\ M!Last(M!Front(s)) = s[Len(s) - 1]
<1> DEFINE f == M!Front(s)
           g == M!Front(f)
           u == g \o <<x>>
           n == Len(s) - 2
<1>1. IsSequence(f) /\ Len(f) = n + 1 /\ \A i \in 1 .. n + 1 : f[i] = s[i]
  <2>1. Len(s) \in Nat /\ Len(s) - 1 = n + 1
    BY FrontIs
  <2> QED BY <2>1, FrontIs
<1>2. f # <<>>
  OBVIOUS
<1> HIDE DEF f
<1>3. /\ Len(f) \in Nat \ {0} /\ IsSequence(g) /\ Len(g) = Len(f) - 1
      /\ \A i \in 1 .. Len(f) - 1 : g[i] = f[i]
      /\ M!Last(f) = f[Len(f)]
  BY <1>1, <1>2, FrontIs
<1>4. n \in Nat /\ n + 1 = Len(s) - 1
  <2>1. Len(s) \in Nat
    BY FrontIs
  <2> QED BY <1>1, <1>3, <2>1
<1> HIDE DEF n, g
<1>5. Len(g) = n /\ (\A i \in 1 .. n : g[i] = s[i]) /\ M!Last(f) = s[n + 1]
  <2>1. Len(f) - 1 = n /\ n + 1 \in 1 .. n + 1 /\ \A i \in 1 .. n : i \in 1 .. n + 1
    BY <1>1, <1>4
  <2> QED BY <1>1, <1>3, <2>1
<1>6. EndsWith(u, g, n, x)
  BY <1>3, <1>5, ConcatEnds
<1> HIDE DEF u
<1>7. EndsWith(u, s, n, x)
  BY <1>5, <1>6 DEF EndsWith
<1> QED BY <1>4, <1>5, <1>7 DEF u, g, f, n

\* The state of Merge's calls, of a configuration of sources.
SourcesOK(src) == \A name \in DOMAIN src : IsSource(src[name])
RulesIn(src, frame) == src[frame.source].rules
AtEnd(src, frame) == Len(frame.parts) = Len(RulesIn(src, frame))
RuleIn(src, frame) == RulesIn(src, frame)[Len(frame.parts) + 1]
ArgsIn(src, frame) == M!CapturesFor(RuleIn(src, frame).args, frame.captures)

FrameOK(src, frame) ==
    /\ frame = [source |-> frame.source, captures |-> frame.captures,
                parts |-> frame.parts, ret |-> frame.ret]
    /\ frame.source \in DOMAIN src /\ src[frame.source].kind = "merge"
    /\ IsSequence(frame.parts) /\ Len(frame.parts) <= Len(RulesIn(src, frame))
    /\ Captured(frame.captures)

\* What the n-th call is given.
Given(src, fs, req, n) == IF n = 1 THEN req ELSE ArgsIn(src, fs[n - 1])

\* Every call of a merge is at a rule, which has called the next.
Chained(src, fs, req) ==
    /\ IsSequence(fs) /\ Captured(req)
    /\ \A n \in 1 .. Len(fs) :
          /\ FrameOK(src, fs[n])
          /\ fs[n].captures = Given(src, fs, req, n)
          /\ n < Len(fs) => ~AtEnd(src, fs[n])

LEMMA LengthIs ==
    ASSUME NEW s, IsSequence(s)
    PROVE  /\ Len(s) \in Nat /\ (s = <<>> <=> Len(s) = 0)
           /\ s = [i \in 1 .. Len(s) |-> s[i]]
<1> DEFINE S == {s[i] : i \in DOMAIN s}
<1>1. s \in Seq(S)
  BY DEF IsSequence
<1> HIDE DEF S
<1> QED BY <1>1, EmptySeq

LEMMA ChainedEnds ==
    ASSUME NEW src, NEW fs, NEW req, Chained(src, fs, req),
           NEW u, NEW n, NEW x, EndsWith(u, fs, n, x), n <= Len(fs),
           FrameOK(src, x), x.captures = Given(src, fs, req, n + 1),
           n = Len(fs) /\ n > 0 => ~AtEnd(src, fs[n])
    PROVE  Chained(src, u, req)
<1>1. /\ IsSequence(u) /\ n \in Nat /\ Len(u) = n + 1 /\ u[n + 1] = x
      /\ \A i \in 1 .. n : u[i] = fs[i]
  BY DEF EndsWith
<1>2. /\ IsSequence(fs) /\ Captured(req)
      /\ \A i \in 1 .. Len(fs) :
            /\ FrameOK(src, fs[i])
            /\ fs[i].captures = Given(src, fs, req, i)
            /\ i < Len(fs) => ~AtEnd(src, fs[i])
  BY DEF Chained
<1>3. Len(fs) \in Nat
  BY <1>2, LengthIs
<1>4. ASSUME NEW i \in 1 .. n + 1 PROVE Given(src, u, req, i) = Given(src, fs, req, i)
  <2>1. CASE i = 1
    BY <2>1 DEF Given
  <2>2. CASE i # 1
    <3>1. i - 1 \in 1 .. n
      BY <1>1, <2>2
    <3>2. u[i - 1] = fs[i - 1]
      BY <1>1, <3>1
    <3> QED BY <2>2, <3>2 DEF Given
  <2> QED BY <2>1, <2>2
<1>5. ASSUME NEW i \in 1 .. n + 1
      PROVE  /\ FrameOK(src, u[i])
             /\ u[i].captures = Given(src, u, req, i)
             /\ i < n + 1 => ~AtEnd(src, u[i])
  <2>1. CASE i = n + 1
    <3>1. u[i] = x /\ ~(i < n + 1)
      BY <1>1, <2>1
    <3>2. Given(src, u, req, i) = Given(src, fs, req, n + 1)
      BY <1>4, <2>1
    <3> QED BY <3>1, <3>2
  <2>2. CASE i # n + 1
    <3>1. i \in 1 .. n /\ i \in 1 .. Len(fs)
      BY <1>1, <1>3, <2>2
    <3>2. u[i] = fs[i] /\ Given(src, u, req, i) = Given(src, fs, req, i)
      BY <1>1, <1>4, <3>1
    <3>3. ~AtEnd(src, fs[i])
      <4>1. CASE i < Len(fs)
        BY <1>2, <3>1, <4>1
      <4>2. CASE ~(i < Len(fs))
        <5>1. i = n /\ n = Len(fs) /\ n > 0
          BY <1>1, <1>3, <3>1, <4>2
        <5> QED BY <5>1
      <4> QED BY <4>1, <4>2
    <3> QED BY <1>2, <3>1, <3>2, <3>3
  <2> QED BY <2>1, <2>2
<1> QED BY <1>1, <1>2, <1>5 DEF Chained

\* A call's arguments are what the reference makes of them, and texts again.
LEMMA ArgsAre ==
    ASSUME NEW src, SourcesOK(src), NEW frame, FrameOK(src, frame), ~AtEnd(src, frame)
    PROVE  LET args == RuleIn(src, frame).args IN
           /\ Captured(ArgsIn(src, frame))
           /\ ArgsIn(src, frame) =
                 IF args.kind = "inherit" THEN frame.captures
                 ELSE [v \in DOMAIN args.args |-> M!Expanded(args.args[v], frame.captures)]
<1> DEFINE rule == RuleIn(src, frame)
           args == rule.args
<1>1. IsRule(rule)
  <2> DEFINE mine == RulesIn(src, frame)
             n == Len(frame.parts)
  <2>1. IsSequence(mine) /\ \A i \in 1 .. Len(mine) : IsRule(mine[i])
    BY DEF SourcesOK, FrameOK, IsSource, RulesIn
  <2>2. n \in Nat /\ n <= Len(mine) /\ n # Len(mine)
    BY LengthIs DEF FrameOK, AtEnd
  <2>3. Len(mine) \in Nat
    BY <2>1, LengthIs
  <2> HIDE DEF mine, n
  <2>4. n + 1 \in 1 .. Len(mine)
    BY <2>2, <2>3
  <2>5. IsRule(mine[n + 1])
    BY <2>1, <2>4
  <2> QED BY <2>5 DEF RuleIn, mine, n
<1> HIDE DEF rule
<1>2. ArgsIn(src, frame) = M!CapturesFor(args, frame.captures)
  BY DEF ArgsIn, rule
<1>3. Captured(frame.captures)
  BY DEF FrameOK
<1>4. CASE args.kind = "inherit"
  <2>1. ArgsIn(src, frame) = frame.captures
    BY <1>2, <1>4 DEF M!CapturesFor
  <2> QED BY <1>3, <1>4, <2>1 DEF rule
<1>5. CASE args.kind # "inherit"
  <2> DEFINE A == args.args
             given == [v \in DOMAIN A |-> M!Expanded(A[v], frame.captures)]
  <2>1. ASSUME NEW v \in DOMAIN A
        PROVE  /\ M!ReplacePlaceholders(A[v], frame.captures) = M!Expanded(A[v], frame.captures)
               /\ v \in Chars /\ M!Expanded(A[v], frame.captures) \in Chars
    <3>1. v \in Chars /\ A[v] \in Chars
      BY <1>1, <1>5, TextsAreChars DEF IsRule, IsArguments
    <3> QED BY <1>3, <3>1, ExpandedIs
  <2>2. ArgsIn(src, frame) = [v \in DOMAIN A |-> M!ReplacePlaceholders(A[v], frame.captures)]
    BY <1>2, <1>5 DEF M!CapturesFor
  <2> HIDE DEF A
  <2>3. ArgsIn(src, frame) = given
    BY <2>1, <2>2, Zenon
  <2>4. Captured(given)
    BY <2>1 DEF Captured
  <2> QED BY <1>5, <2>3, <2>4 DEF A, rule
<1> QED BY <1>4, <1>5

\* What the call in progress is given is what the reference says.
LEMMA HandedIs ==
    ASSUME SourcesOK(sources), Chained(sources, frames, request),
           frames # <<>> => ~AtEnd(sources, frames[Len(frames)])
    PROVE  /\ M!Handed(request) = Given(sources, frames, request, Len(frames) + 1)
           /\ Captured(M!Handed(request))
<1> DEFINE N == Len(frames)
           Args(n) == M!Rule(frames[n]).args
           Expands(h, n) ==
               IF n = 1 THEN request
               ELSE IF Args(n - 1).kind = "inherit" THEN h[n - 1]
               ELSE [v \in DOMAIN Args(n - 1).args |->
                        M!Expanded(Args(n - 1).args[v], h[n - 1])]
           Hands(h) == h = [n \in 1 .. N + 1 |-> Expands(h, n)]
           handed == CHOOSE h : Hands(h)
           given == [n \in 1 .. N + 1 |-> Given(sources, frames, request, n)]
<1>1. /\ IsSequence(frames) /\ Captured(request)
      /\ \A n \in 1 .. N :
            /\ FrameOK(sources, frames[n])
            /\ frames[n].captures = Given(sources, frames, request, n)
            /\ n < N => ~AtEnd(sources, frames[n])
  BY DEF Chained
<1>2. N \in Nat /\ (frames = <<>> <=> N = 0)
  BY <1>1, LengthIs
<1>3. M!Handed(request) = handed[N + 1]
  BY DEF M!Handed
<1>4. \A n : Args(n) = RuleIn(sources, frames[n]).args
  BY DEF M!Rule, M!Rules, RuleIn, RulesIn
<1> HIDE DEF Args
<1>5. frames # <<>> => ~AtEnd(sources, frames[N])
  OBVIOUS
<1> HIDE DEF N
<1>6. \A n \in 1 .. N : ~AtEnd(sources, frames[n])
  <2> SUFFICES ASSUME NEW n \in 1 .. N PROVE ~AtEnd(sources, frames[n])
    OBVIOUS
  <2>1. CASE n < N
    BY <1>1, <2>1
  <2>2. CASE ~(n < N)
    <3>1. n = N /\ N # 0
      BY <1>2, <2>2
    <3> QED BY <1>2, <1>5, <3>1
  <2> QED BY <2>1, <2>2
<1>7. ASSUME NEW n \in 1 .. N + 1
      PROVE  Captured(given[n]) /\ given[n] = Expands(given, n)
  <2>1. given[n] = Given(sources, frames, request, n)
    OBVIOUS
  <2>2. CASE n = 1
    BY <1>1, <2>1, <2>2 DEF Given
  <2>3. CASE n # 1
    <3> DEFINE m == n - 1
               frame == frames[m]
    <3>1. m \in 1 .. N /\ m \in 1 .. N + 1
      BY <1>2, <2>3
    <3>2. given[m] = Given(sources, frames, request, m)
      BY <3>1
    <3>3. given[n] = ArgsIn(sources, frame)
      BY <2>1, <2>3 DEF Given
    <3> HIDE DEF given, m
    <3>4. FrameOK(sources, frame) /\ frame.captures = given[m] /\ ~AtEnd(sources, frame)
      BY <1>1, <1>6, <3>1, <3>2
    <3>5. Args(m) = RuleIn(sources, frame).args
      BY <1>4
    <3> HIDE DEF frame
    <3>6. /\ Captured(ArgsIn(sources, frame))
          /\ ArgsIn(sources, frame) =
                IF Args(m).kind = "inherit" THEN given[m]
                ELSE [v \in DOMAIN Args(m).args |-> M!Expanded(Args(m).args[v], given[m])]
      <4> DEFINE args == RuleIn(sources, frame).args
      <4>1. /\ Captured(ArgsIn(sources, frame))
            /\ ArgsIn(sources, frame) =
                  IF args.kind = "inherit" THEN frame.captures
                  ELSE [v \in DOMAIN args.args |-> M!Expanded(args.args[v], frame.captures)]
        BY <3>4, ArgsAre
      <4> HIDE DEF args
      <4>2. args = Args(m) /\ frame.captures = given[m]
        BY <3>4, <3>5 DEF args
      <4> QED BY <4>1, <4>2, Zenon
    <3>7. Expands(given, n) =
              IF Args(m).kind = "inherit" THEN given[m]
              ELSE [v \in DOMAIN Args(m).args |-> M!Expanded(Args(m).args[v], given[m])]
      BY <2>3, Zenon DEF m
    <3> QED BY <3>3, <3>6, <3>7, Zenon
  <2> QED BY <2>2, <2>3
<1>8. Hands(given)
  <2>1. given = [n \in 1 .. N + 1 |-> given[n]]
    OBVIOUS
  <2> HIDE DEF given, Expands
  <2> QED BY <1>7, <2>1, Zenon
<1>9. Hands(handed)
  <2> HIDE DEF Hands, given
  <2> QED BY <1>8
<1> HIDE DEF handed
<1>10. \A n \in 1 .. N + 1 : handed[n] = Expands(handed, n)
  <2> HIDE DEF Expands
  <2> QED BY <1>9
<1> HIDE DEF Hands, given
<1>11. handed[N + 1] = given[N + 1]
  <2>1. handed[1] = given[1]
    <3>1. 1 \in 1 .. N + 1
      BY <1>2
    <3>2. handed[1] = Expands(handed, 1) /\ given[1] = Expands(given, 1)
      <4> HIDE DEF Expands
      <4> QED BY <1>7, <1>10, <3>1
    <3> QED BY <3>2
  <2>2. ASSUME NEW n \in 1 + 1 .. N + 1, handed[n - 1] = given[n - 1]
        PROVE  handed[n] = given[n]
    <3>1. n \in 1 .. N + 1
      BY <1>2
    <3>2. Expands(handed, n) = Expands(given, n)
      BY <2>2, Zenon
    <3>3. handed[n] = Expands(handed, n) /\ given[n] = Expands(given, n)
      <4> HIDE DEF Expands
      <4> QED BY <1>7, <1>10, <3>1
    <3> HIDE DEF Expands
    <3> QED BY <3>2, <3>3
  <2>3. Alike(handed, given, 1, N + 1)
    BY <2>1, <2>2 DEF Alike
  <2> DEFINE one == 1
             M1 == N + 1
  <2>4. one \in Nat /\ M1 \in Nat /\ M1 \in one .. M1 /\ Alike(handed, given, one, M1)
    BY <1>2, <2>3
  <2> HIDE DEF one, M1
  <2>5. handed[M1] = given[M1]
    BY <2>4, SameRecursion
  <2> QED BY <2>5 DEF M1
<1>12. N + 1 \in 1 .. N + 1
  BY <1>2
<1>13. given[N + 1] = Given(sources, frames, request, N + 1) /\ Captured(given[N + 1])
  <2>1. given[N + 1] = Given(sources, frames, request, N + 1)
    BY <1>12 DEF given
  <2> QED BY <1>7, <1>12, <2>1
<1> QED BY <1>3, <1>11, <1>13 DEF N

\* What a source asks for has been built as AskedIsExpansion says.
AskedFrom(src, fs, ls, req, a) ==
    a # M!NoCall =>
        \E leaf \in DOMAIN src :
            /\ src[leaf].kind # "merge"
            /\ fs # <<>> => /\ ~AtEnd(src, fs[Len(fs)])
                            /\ leaf = RuleIn(src, fs[Len(fs)]).source
            /\ fs = <<>> => \E l \in ls : l.source = leaf
            /\ a = [kind |-> src[leaf].kind,
                    text |-> M!ReplacePlaceholders(src[leaf].template,
                                                   Given(src, fs, req, Len(fs) + 1))]

CallsOK == /\ SourcesOK(sources) /\ Chained(sources, frames, request)
           /\ AskedFrom(sources, frames, lookups, request, asked)

LEMMA InnermostIs ==
    ASSUME SourcesOK(sources), Chained(sources, frames, request), frames # <<>>
    PROVE  LET n == Len(frames)
               frame == frames[n] IN
           /\ n \in Nat \ {0} /\ M!Innermost = frame /\ FrameOK(sources, frame)
           /\ M!Done(frame) <=> AtEnd(sources, frame)
           /\ M!Rule(frame) = RuleIn(sources, frame)
           /\ M!ArgsOf(frame) = ArgsIn(sources, frame)
           /\ Given(sources, frames, request, n + 1) = ArgsIn(sources, frame)
           /\ frame.captures = Given(sources, frames, request, n)
<1> DEFINE n == Len(frames)
           frame == frames[n]
<1>1. IsSequence(frames)
  BY DEF Chained
<1>2. n \in Nat \ {0} /\ M!Innermost = frame
  BY <1>1, FrontIs DEF M!Innermost
<1>3. n \in 1 .. n /\ n + 1 # 1 /\ n + 1 - 1 = n
  BY <1>2
<1>4. FrameOK(sources, frame) /\ frame.captures = Given(sources, frames, request, n)
  BY <1>3 DEF Chained
<1> HIDE DEF n
<1>5. Given(sources, frames, request, n + 1) = ArgsIn(sources, frame)
  BY <1>3 DEF Given
<1>6. /\ M!Done(frame) <=> AtEnd(sources, frame)
      /\ M!Rule(frame) = RuleIn(sources, frame)
      /\ M!ArgsOf(frame) = ArgsIn(sources, frame)
  BY DEF M!Done, M!Rules, AtEnd, RulesIn, M!Rule, RuleIn, M!ArgsOf, ArgsIn
<1> QED BY <1>2, <1>4, <1>5, <1>6 DEF n

LEMMA CallsImply == CallsOK => AskedIsExpansion
<1> SUFFICES ASSUME CallsOK, asked # M!NoCall
             PROVE  \E leaf \in DOMAIN sources :
                        /\ frames # <<>> => leaf = M!Rule(M!Innermost).source
                        /\ frames = <<>> => \E l \in lookups : l.source = leaf
                        /\ sources[leaf].kind = asked.kind
                        /\ asked.text = M!Expanded(sources[leaf].template, M!Handed(request))
  BY DEF AskedIsExpansion
<1> DEFINE given == Given(sources, frames, request, Len(frames) + 1)
<1>1. /\ SourcesOK(sources) /\ Chained(sources, frames, request)
      /\ AskedFrom(sources, frames, lookups, request, asked)
  BY DEF CallsOK
<1>2. PICK leaf \in DOMAIN sources :
            /\ sources[leaf].kind # "merge"
            /\ frames # <<>> => /\ ~AtEnd(sources, frames[Len(frames)])
                                /\ leaf = RuleIn(sources, frames[Len(frames)]).source
            /\ frames = <<>> => \E l \in lookups : l.source = leaf
            /\ asked = [kind |-> sources[leaf].kind,
                        text |-> M!ReplacePlaceholders(sources[leaf].template, given)]
  BY <1>1 DEF AskedFrom
<1>3. M!Handed(request) = given /\ Captured(given)
  BY <1>1, <1>2, HandedIs
<1> HIDE DEF given
<1>4. frames # <<>> => leaf = M!Rule(M!Innermost).source
  BY <1>1, <1>2, InnermostIs
<1>5. sources[leaf].template \in Chars
  BY <1>1, <1>2, TextsAreChars DEF SourcesOK, IsSource
<1>6. asked.kind = sources[leaf].kind
      /\ asked.text = M!ReplacePlaceholders(sources[leaf].template, given)
  BY <1>2
<1>7. asked.text = M!Expanded(sources[leaf].template, M!Handed(request))
  BY <1>3, <1>5, <1>6, ExpandedIs
<1> QED BY <1>2, <1>4, <1>6, <1>7

\* What a route captures of a key is texts.
LEMMA RouteCaptured ==
    ASSUME RouterOK, NEW key \in Keys, R!FirstMatch(key) # 0
    PROVE  Captured(Captures(rules[R!FirstMatch(key)].pattern, key))
<1>1. PICK group \in R!GroupsOf(key) :
            rules[R!FirstMatch(key)] = groups[group][R!MatchIn(group, key)]
  BY FirstRuleIsFirstOfGroup
<1> DEFINE routes == groups[group]
           i == FirstIn(routes, key)
<1>2. group \in DOMAIN groups /\ i > 0 /\ R!MatchIn(group, key) = i
  BY DEF R!GroupsOf, R!MatchIn, FirstIn
<1>3. /\ IsSequence(routes)
      /\ \A n \in 1 .. Len(routes) : IsArguments(Captures(routes[n].pattern, key))
  BY <1>2, FetchAssumption DEF RouterOK
<1> HIDE DEF i, routes
<1>4. Len(routes) \in Nat
  BY <1>3, LengthIs
<1>5. i \in 0 .. Len(routes)
  BY <1>4, FirstInList DEF i
<1>6. i \in 1 .. Len(routes)
  BY <1>2, <1>4, <1>5
<1>7. Captured(Captures(routes[i].pattern, key))
  BY <1>3, <1>6, TextsAreChars DEF IsArguments, Captured
<1> QED BY <1>1, <1>2, <1>7 DEF routes

LEMMA TakeIs ==
    ASSUME NEW frame, FrameOK(sources, frame), SourcesOK(sources),
           ~AtEnd(sources, frame), NEW value
    PROVE  FrameOK(sources, M!Take(frame, value)) /\ M!Take(frame, value).captures = frame.captures
<1> DEFINE ret == IF value = M!NoValue THEN frame.ret
                  ELSE M!SetNested(frame.ret, M!Rule(frame).key, value)
           parts == Append(frame.parts, value)
           taken == M!Take(frame, value)
<1>1. /\ frame = [source |-> frame.source, captures |-> frame.captures,
                  parts |-> frame.parts, ret |-> frame.ret]
      /\ frame.source \in DOMAIN sources /\ sources[frame.source].kind = "merge"
      /\ IsSequence(frame.parts) /\ Len(frame.parts) <= Len(RulesIn(sources, frame))
      /\ Captured(frame.captures)
  BY DEF FrameOK
<1>2. taken = [frame EXCEPT !.parts = parts, !.ret = ret]
  BY DEF M!Take
<1> HIDE DEF ret, parts, taken
<1>3. taken = [source |-> frame.source, captures |-> frame.captures,
               parts |-> parts, ret |-> ret]
  BY <1>1, <1>2
<1>4. /\ taken.source = frame.source /\ taken.captures = frame.captures
      /\ taken.parts = parts /\ taken.ret = ret
  BY <1>3
<1> HIDE DEF taken
<1>5. IsSequence(parts) /\ Len(parts) = Len(frame.parts) + 1 /\ Len(frame.parts) \in Nat
  BY <1>1, AppendEnds, LengthIs DEF EndsWith, parts
<1>6. RulesIn(sources, taken) = RulesIn(sources, frame)
  BY <1>4 DEF RulesIn
<1>7. Len(RulesIn(sources, frame)) \in Nat
  BY <1>1, LengthIs DEF SourcesOK, IsSource, RulesIn
<1>8. Len(parts) <= Len(RulesIn(sources, frame))
  <2>1. Len(frame.parts) # Len(RulesIn(sources, frame))
    BY DEF AtEnd
  <2> QED BY <1>1, <1>5, <1>7, <2>1
<1>9. FrameOK(sources, taken)
  BY <1>1, <1>3, <1>4, <1>5, <1>6, <1>8 DEF FrameOK
<1> QED BY <1>4, <1>9 DEF taken

LEMMA CallIs ==
    ASSUME SourcesOK(sources), NEW name, M!IsMerge(name), NEW captures, Captured(captures)
    PROVE  FrameOK(sources, M!Call(name, captures)) /\ M!Call(name, captures).captures = captures
<1> DEFINE call == M!Call(name, captures)
<1>1. call = [source |-> name, captures |-> captures, parts |-> <<>>, ret |-> M!EmptyMap]
  BY DEF M!Call
<1> HIDE DEF call
<1>2. /\ call.source = name /\ call.captures = captures
      /\ call.parts = <<>> /\ call.ret = M!EmptyMap
  BY <1>1
<1>3. IsSequence(<<>>) /\ Len(<<>>) = 0
  BY EmptySeq, SequenceIs
<1>4. name \in DOMAIN sources /\ sources[name].kind = "merge"
  BY DEF M!IsMerge
<1>5. Len(sources[name].rules) \in Nat
  BY <1>4, LengthIs DEF SourcesOK, IsSource
<1>6. FrameOK(sources, call)
  BY <1>1, <1>2, <1>3, <1>4, <1>5 DEF FrameOK, RulesIn
<1> QED BY <1>2, <1>6 DEF call

\* The innermost call goes on.
LEMMA ChainedGoesOn ==
    ASSUME Chained(sources, frames, request), frames # <<>>, NEW x, FrameOK(sources, x),
           x.captures = frames[Len(frames)].captures
    PROVE  Chained(sources, M!Front(frames) \o <<x>>, request)
<1> DEFINE n == Len(frames) - 1
           u == M!Front(frames) \o <<x>>
<1>1. IsSequence(frames)
  BY DEF Chained
<1>2. Len(frames) \in Nat \ {0} /\ n \in Nat /\ n + 1 = Len(frames) /\ n # Len(frames)
  <2>1. Len(frames) \in Nat \ {0}
    BY <1>1, FrontIs
  <2> QED BY <2>1
<1>3. EndsWith(u, frames, n, x)
  BY <1>1, LastReplaced
<1> HIDE DEF n, u
<1>4. x.captures = Given(sources, frames, request, n + 1)
  <2>1. Len(frames) \in 1 .. Len(frames)
    BY <1>2
  <2> QED BY <1>2, <2>1 DEF Chained
<1>5. n <= Len(frames)
  BY <1>2
<1>6. Chained(sources, u, request)
  BY <1>2, <1>3, <1>4, <1>5, ChainedEnds
<1> QED BY <1>6 DEF u

\* The innermost call returns and the one before goes on.
LEMMA ChainedReturns ==
    ASSUME Chained(sources, frames, request), frames # <<>>, M!Front(frames) # <<>>,
           NEW x, FrameOK(sources, x),
           x.captures = M!Last(M!Front(frames)).captures
    PROVE  Chained(sources, M!Front(M!Front(frames)) \o <<x>>, request)
<1> DEFINE n == Len(frames) - 2
           u == M!Front(M!Front(frames)) \o <<x>>
<1>1. IsSequence(frames)
  BY DEF Chained
<1>2. /\ n \in Nat /\ EndsWith(u, frames, n, x)
      /\ M!Last(M!Front(frames)) = frames[Len(frames) - 1]
  BY <1>1, LastTwoReplaced
<1>3. Len(frames) \in Nat
  BY <1>1, LengthIs
<1>4. n \in Nat
  BY <1>2
<1>5. /\ n + 1 = Len(frames) - 1 /\ n # Len(frames) /\ n <= Len(frames)
      /\ n + 1 \in 1 .. Len(frames)
  BY <1>3, <1>4
<1> HIDE DEF n, u
<1>6. x.captures = Given(sources, frames, request, n + 1)
  BY <1>2, <1>5 DEF Chained
<1>7. Chained(sources, u, request)
  BY <1>2, <1>5, <1>6, ChainedEnds
<1> QED BY <1>7 DEF u

LEMMA ChainedStarts ==
    ASSUME NEW req, Captured(req)
    PROVE  /\ Chained(sources, <<>>, req)
           /\ \A x : FrameOK(sources, x) /\ x.captures = req => Chained(sources, <<x>>, req)
<1>1. IsSequence(<<>>) /\ Len(<<>>) = 0
  BY EmptySeq, SequenceIs
<1>2. Chained(sources, <<>>, req)
  <2>1. \A n \in 1 .. 0 : FALSE
    OBVIOUS
  <2> QED BY <1>1, <2>1 DEF Chained
<1>3. ASSUME NEW x, FrameOK(sources, x), x.captures = req PROVE Chained(sources, <<x>>, req)
  <2>1. <<x>> \in Seq({x}) /\ Len(<<x>>) = 1 /\ <<x>>[1] = x
    BY Singleton
  <2>2. IsSequence(<<x>>)
    BY <2>1, SequenceIs
  <2>3. \A n \in 1 .. 1 : n = 1 /\ ~(n < 1)
    OBVIOUS
  <2>4. Given(sources, <<x>>, req, 1) = req
    BY DEF Given
  <2> QED BY <1>3, <2>1, <2>2, <2>3, <2>4 DEF Chained
<1> QED BY <1>2, <1>3

LEMMA StartKeeps ==
    ASSUME SourcesOK(sources), NEW name, Captured(request'), M!Start(name, request'),
           \E l \in lookups' : l.source = name
    PROVE  CallsOK'
<1>1. /\ frames = <<>> /\ asked = M!NoCall
      /\ sources' = sources
      /\ frames' = IF M!IsMerge(name) THEN <<M!Call(name, request')>> ELSE <<>>
      /\ IF M!IsLeaf(name) THEN M!Ask(sources[name], request') ELSE UNCHANGED asked
  BY DEF M!Start, M!Running
<1>2. Chained(sources, frames', request')
  <2>1. CASE M!IsMerge(name)
    <3>1. FrameOK(sources, M!Call(name, request')) /\ M!Call(name, request').captures = request'
      BY <2>1, CallIs
    <3> QED BY <1>1, <2>1, <3>1, ChainedStarts
  <2>2. CASE ~M!IsMerge(name)
    BY <1>1, <2>2, ChainedStarts
  <2> QED BY <2>1, <2>2
<1>3. AskedFrom(sources, frames', lookups', request', asked')
  <2>1. CASE ~M!IsLeaf(name)
    BY <1>1, <2>1 DEF AskedFrom
  <2>2. CASE M!IsLeaf(name)
    <3>1. name \in DOMAIN sources /\ sources[name].kind # "merge" /\ ~M!IsMerge(name)
      BY <2>2 DEF M!IsLeaf, M!IsMerge
    <3>2. frames' = <<>>
      BY <1>1, <3>1
    <3>3. asked' = [kind |-> sources[name].kind,
                    text |-> M!ReplacePlaceholders(sources[name].template, request')]
      BY <1>1, <2>2 DEF M!Ask
    <3>4. Given(sources, frames', request', Len(frames') + 1) = request'
      <4>1. Len(frames') + 1 = 1
        BY <3>2
      <4> QED BY <4>1 DEF Given
    <3> QED BY <3>1, <3>2, <3>3, <3>4 DEF AskedFrom
  <2> QED BY <2>1, <2>2
<1> QED BY <1>1, <1>2, <1>3 DEF CallsOK

LEMMA AbortKeeps ==
    ASSUME CallsOK, M!Abort, UNCHANGED request
    PROVE  CallsOK'
<1>1. /\ sources' = sources /\ request' = request /\ frames' = <<>> /\ asked' = M!NoCall
      /\ SourcesOK(sources) /\ Captured(request)
  BY DEF M!Abort, M!Drop, CallsOK, Chained
<1>2. Chained(sources, <<>>, request)
  BY <1>1, ChainedStarts
<1> QED BY <1>1, <1>2 DEF CallsOK, AskedFrom

LEMMA StepKeeps ==
    ASSUME CallsOK, M!Step, UNCHANGED <<lookups, request>>
    PROVE  CallsOK'
<1> DEFINE n == Len(frames)
           frame == frames[n]
<1>1. /\ SourcesOK(sources) /\ Chained(sources, frames, request)
      /\ AskedFrom(sources, frames, lookups, request, asked)
      /\ IsSequence(frames)
  BY DEF CallsOK, Chained
<1>2. ASSUME frames # <<>>
      PROVE  /\ n \in Nat \ {0} /\ M!Innermost = frame /\ FrameOK(sources, frame)
             /\ M!Done(frame) <=> AtEnd(sources, frame)
             /\ M!Rule(frame) = RuleIn(sources, frame)
             /\ M!ArgsOf(frame) = ArgsIn(sources, frame)
             /\ Given(sources, frames, request, n + 1) = ArgsIn(sources, frame)
  BY <1>1, <1>2, InnermostIs
<1>3. CASE M!SkipRule
  <2>1. /\ frames # <<>> /\ ~M!Done(M!Innermost) /\ asked = M!NoCall
        /\ frames' = M!Front(frames) \o <<M!Take(M!Innermost, M!NoValue)>>
        /\ asked' = asked /\ sources' = sources
    BY <1>3 DEF M!SkipRule, M!AtRule
  <2> DEFINE x == M!Take(frame, M!NoValue)
  <2>2. FrameOK(sources, x) /\ x.captures = frame.captures
    BY <1>1, <1>2, <2>1, TakeIs
  <2>3. frames' = M!Front(frames) \o <<x>>
    BY <1>2, <2>1
  <2> HIDE DEF x
  <2>4. Chained(sources, frames', request)
    BY <1>1, <2>1, <2>2, <2>3, ChainedGoesOn
  <2> QED BY <1>1, <2>1, <2>4 DEF CallsOK, AskedFrom
<1>4. CASE M!CallLeaf
  <2> DEFINE leaf == RuleIn(sources, frame).source
  <2>1. /\ frames # <<>> /\ ~M!Done(M!Innermost)
        /\ M!IsLeaf(M!Rule(M!Innermost).source)
        /\ asked' = [kind |-> sources[M!Rule(M!Innermost).source].kind,
                     text |-> M!ReplacePlaceholders(sources[M!Rule(M!Innermost).source].template,
                                                    M!ArgsOf(M!Innermost))]
        /\ sources' = sources /\ frames' = frames
    BY <1>4 DEF M!CallLeaf, M!AtRule, M!Ask
  <2>2. /\ M!Rule(M!Innermost).source = leaf /\ ~AtEnd(sources, frame)
        /\ M!ArgsOf(M!Innermost) = Given(sources, frames, request, n + 1)
    BY <1>2, <2>1
  <2> HIDE DEF leaf
  <2>3. leaf \in DOMAIN sources /\ sources[leaf].kind # "merge"
    BY <2>1, <2>2 DEF M!IsLeaf
  <2>4. asked' = [kind |-> sources[leaf].kind,
                  text |-> M!ReplacePlaceholders(sources[leaf].template,
                                                 Given(sources, frames, request, n + 1))]
    BY <2>1, <2>2
  <2>5. AskedFrom(sources, frames, lookups, request, asked')
    BY <2>1, <2>2, <2>3, <2>4 DEF AskedFrom, leaf
  <2> QED BY <1>1, <2>1, <2>5 DEF CallsOK
<1>5. CASE M!CallMerge
  <2> DEFINE name == M!Rule(M!Innermost).source
             given == Given(sources, frames, request, n + 1)
             x == M!Call(name, given)
  <2>1. /\ frames # <<>> /\ ~M!Done(M!Innermost) /\ asked = M!NoCall
        /\ M!IsMerge(name)
        /\ frames' = Append(frames, M!Call(name, M!ArgsOf(M!Innermost)))
        /\ asked' = asked /\ sources' = sources
    BY <1>5 DEF M!CallMerge, M!AtRule
  <2>2. M!ArgsOf(M!Innermost) = given /\ given = ArgsIn(sources, frame)
        /\ ~AtEnd(sources, frame) /\ FrameOK(sources, frame)
    BY <1>2, <2>1
  <2>3. Captured(given)
    BY <1>1, <2>2, ArgsAre
  <2>4. frames' = Append(frames, x)
    BY <2>1, <2>2
  <2>5. FrameOK(sources, x) /\ x.captures = given
    <3> HIDE DEF name, given
    <3> QED BY <1>1, <2>1, <2>3, CallIs
  <2> HIDE DEF x, name
  <2>6. EndsWith(frames', frames, n, x)
    BY <1>1, <2>4, AppendEnds
  <2>7. x.captures = Given(sources, frames, request, n + 1)
    BY <2>5
  <2>8. n \in Nat /\ n <= n
    BY <1>2, <2>1
  <2> HIDE DEF given
  <2>9. Chained(sources, frames', request)
    BY <1>1, <2>2, <2>5, <2>6, <2>7, <2>8, ChainedEnds
  <2> QED BY <1>1, <2>1, <2>9 DEF CallsOK, AskedFrom
<1>6. CASE M!LeafReturns
  <2>1. asked # M!NoCall /\ asked' = M!NoCall /\ sources' = sources
    BY <1>6 DEF M!LeafReturns, M!Drop
  <2>2. Chained(sources, frames', request)
    <3>1. CASE frames = <<>>
      BY <1>1, <1>6, <3>1 DEF M!LeafReturns
    <3>2. CASE frames # <<>>
      <4>1. PICK value \in M!Responses : frames' = M!Front(frames) \o <<M!Take(M!Innermost, value)>>
        BY <1>6, <3>2 DEF M!LeafReturns
      <4>2. ~AtEnd(sources, frame)
        BY <1>1, <2>1, <3>2 DEF AskedFrom
      <4> DEFINE x == M!Take(frame, value)
      <4>3. FrameOK(sources, x) /\ x.captures = frame.captures
        BY <1>1, <1>2, <3>2, <4>2, TakeIs
      <4>4. frames' = M!Front(frames) \o <<x>>
        BY <1>2, <3>2, <4>1
      <4> HIDE DEF x
      <4> QED BY <1>1, <3>2, <4>3, <4>4, ChainedGoesOn
    <3> QED BY <3>1, <3>2
  <2> QED BY <1>1, <2>1, <2>2 DEF CallsOK, AskedFrom
<1>7. CASE M!Return
  <2> DEFINE value == M!Object(M!Innermost.ret)
             callers == M!Front(frames)
  <2>1. /\ frames # <<>> /\ asked = M!NoCall /\ asked' = asked /\ sources' = sources
        /\ callers = <<>> => frames' = <<>>
        /\ callers # <<>> => frames' = M!Front(callers) \o <<M!Take(M!Last(callers), value)>>
    BY <1>7 DEF M!Return
  <2> HIDE DEF value
  <2>2. Chained(sources, frames', request)
    <3>1. CASE callers = <<>>
      <4>1. Captured(request)
        BY <1>1 DEF Chained
      <4> QED BY <2>1, <3>1, <4>1, ChainedStarts
    <3>2. CASE callers # <<>>
      <4> DEFINE caller == M!Last(callers)
                 x == M!Take(caller, value)
                 m == n - 1
      <4>1. n - 2 \in Nat /\ caller = frames[m]
        BY <1>1, <2>1, <3>2, LastTwoReplaced
      <4>2. n \in Nat
        BY <1>1, LengthIs
      <4>3. m \in 1 .. n /\ m < n
        BY <4>1, <4>2
      <4> HIDE DEF m, caller, n
      <4>4. FrameOK(sources, caller) /\ ~AtEnd(sources, caller)
        BY <1>1, <4>1, <4>3 DEF Chained, n
      <4>5. FrameOK(sources, x) /\ x.captures = caller.captures
        BY <1>1, <4>4, TakeIs
      <4>6. frames' = M!Front(M!Front(frames)) \o <<x>>
        BY <2>1, <3>2 DEF caller
      <4> HIDE DEF x
      <4> QED BY <1>1, <2>1, <3>2, <4>5, <4>6, ChainedReturns DEF caller
    <3> QED BY <3>1, <3>2
  <2> QED BY <1>1, <2>1, <2>2 DEF CallsOK, AskedFrom
<1> QED BY <1>3, <1>4, <1>5, <1>6, <1>7 DEF M!Step

Configured == \E config \in Configs : groups = config.routes /\ sources = config.sources

IInv == Configured /\ RouterOK /\ CallsOK

LEMMA IInvHolds == Spec => []IInv
<1>1. Configured => SourcesOK(sources)
  BY FetchAssumption DEF SourcesOK, Configured
<1> USE DEF IInv
<1>2. Init => IInv
  <2> SUFFICES ASSUME Init PROVE IInv
    OBVIOUS
  <2>1. Configured /\ RouterOK
    BY DEF Init, R!Init, RouterOK, Configured
  <2>2. asked = M!NoCall /\ frames = <<>> /\ request = <<>>
    BY DEF Init, M!Init, M!EmptyMap
  <2>3. Captured(<<>>)
    BY DEF Captured
  <2>4. Chained(sources, frames, request)
    BY <2>2, <2>3, ChainedStarts
  <2>5. AskedFrom(sources, frames, lookups, request, asked)
    BY <2>2 DEF AskedFrom
  <2> QED BY <1>1, <2>1, <2>4, <2>5 DEF CallsOK
<1>3. IInv /\ [Next]_fetchVars => IInv'
  <2> SUFFICES ASSUME IInv, [Next]_fetchVars PROVE IInv'
    OBVIOUS
  <2>1. ASSUME NEW key \in Keys, Ask(key) PROVE IInv'
    <3> DEFINE first == R!FirstMatch(key)
               route == rules[first]
    <3>1. /\ first # 0 /\ R!Lookup(key)
          /\ request' = Captures(route.pattern, key)
          /\ M!Start(route.source, request')
      BY <2>1 DEF Ask
    <3>2. groups' = groups /\ rules' = rules /\ sources' = sources
      BY <3>1 DEF R!Lookup, M!Start
    <3>3. Configured' /\ RouterOK'
      BY <3>2 DEF Configured, RouterOK, R!Orders, R!Routes
    <3>4. Captured(request')
      BY <3>1, RouteCaptured
    <3>5. \E l \in lookups' : l.source = route.source
      <4> DEFINE l == [key |-> key, source |-> R!Source(key)]
      <4>1. l \in lookups'
        BY <3>1 DEF R!Lookup
      <4>2. l.source = route.source
        BY <3>1 DEF R!Source
      <4> QED BY <4>1, <4>2
    <3> HIDE DEF first, route
    <3>6. CallsOK'
      BY <1>1, <3>1, <3>4, <3>5, StartKeeps
    <3> QED BY <3>3, <3>6
  <2>2. ASSUME NEW key \in Keys, AskNoRoute(key) PROVE IInv'
    <3>1. /\ groups' = groups /\ rules' = rules /\ sources' = sources
          /\ frames' = frames /\ asked' = asked /\ request' = request
          /\ asked = M!NoCall
      BY <2>2 DEF AskNoRoute, R!Lookup, M!Running
    <3>2. Configured' /\ RouterOK'
      BY <3>1 DEF Configured, RouterOK, R!Orders, R!Routes
    <3>3. CallsOK'
      BY <3>1 DEF CallsOK, AskedFrom
    <3> QED BY <3>2, <3>3
  <2>3. ASSUME UNCHANGED router, M!Step \/ M!Abort, UNCHANGED request PROVE IInv'
    <3>1. groups' = groups /\ rules' = rules /\ lookups' = lookups /\ sources' = sources
      BY <2>3 DEF router, M!Step, M!SkipRule, M!CallLeaf, M!CallMerge, M!LeafReturns,
                  M!Return, M!Abort
    <3>2. Configured' /\ RouterOK'
      BY <3>1 DEF Configured, RouterOK, R!Orders, R!Routes
    <3>3. CallsOK'
      BY <2>3, <3>1, StepKeeps, AbortKeeps
    <3> QED BY <3>2, <3>3
  <2>4. CASE Call \/ Timeout
    BY <2>3, <2>4 DEF Call, Timeout
  <2>5. CASE Restart
    <3>1. R!Restart /\ M!Abort /\ UNCHANGED request
      BY <2>5 DEF Restart
    <3>2. groups' = groups /\ sources' = sources
      BY <3>1 DEF R!Restart, M!Abort
    <3>3. Configured' /\ RouterOK'
      BY <3>1, <3>2 DEF Configured, RouterOK, R!Restart, R!ToRouter, R!Orders, R!Routes
    <3>4. CallsOK'
      BY <3>1, AbortKeeps
    <3> QED BY <3>3, <3>4
  <2>6. CASE UNCHANGED fetchVars
    <3>1. UNCHANGED <<groups, rules, lookups, asked, sources, frames, result, request>>
      BY <2>6 DEF fetchVars, router, source
    <3> QED BY <3>1 DEF Configured, RouterOK, R!Orders, R!Routes, CallsOK
  <2> QED BY <2>1, <2>2, <2>4, <2>5, <2>6 DEF Next
<1> HIDE DEF IInv
<1> QED BY <1>2, <1>3, PTL DEF Spec

(* What a source asks for is its template, expanded with what the route    *)
(* has captured of the key or with what the merges on the way have made of *)
(* that, for every configuration, however its merges call each other, and  *)
(* for every template (replace_placeholders and the sources' call).        *)
THEOREM AskedIsExpansionHolds == Spec => []AskedIsExpansion
<1>1. IInv => AskedIsExpansion
  BY CallsImply DEF IInv
<1> QED BY <1>1, IInvHolds, PTL

-----------------------------------------------------------------------------
(* Merged objects.                                                         *)

\* Into a value, name by name: the objects' fields of that name.
Fields(values, name) ==
    {object.fields[name] :
        object \in {v \in values : v.kind = "object" /\ name \in DOMAIN v.fields}}

Walks(f, value, path) ==
    f[0] = {value} /\ \A n \in 1 .. Len(path) : f[n] = Fields(f[n - 1], path[n])

LEMMA WalkExists ==
    ASSUME NEW value, NEW path, Len(path) \in Nat
    PROVE  \E f : Walks(f, value, path)
<1> DEFINE Computes(f, m) == f[0] = {value} /\ \A n \in 1 .. m : f[n] = Fields(f[n - 1], path[n])
           T == {m \in Nat : \E f : Computes(f, m)}
<1>1. 0 \in T
  <2>1. Computes([n \in 0 .. 0 |-> {value}], 0)
    OBVIOUS
  <2> QED BY <2>1
<1>2. ASSUME NEW m \in Nat, m \in T PROVE m + 1 \in T
  <2>1. PICK g : Computes(g, m)
    BY <1>2
  <2> DEFINE next == Fields(g[m], path[m + 1])
             f == [n \in 0 .. m + 1 |-> IF n = m + 1 THEN next ELSE g[n]]
  <2>2. f[0] = {value}
    BY <2>1
  <2>3. ASSUME NEW n \in 1 .. m + 1 PROVE f[n] = Fields(f[n - 1], path[n])
    <3>1. CASE n = m + 1
      <4>1. f[n] = next /\ f[n - 1] = g[m]
        <5> HIDE DEF next
        <5> QED BY <3>1
      <4> QED BY <3>1, <4>1
    <3>2. CASE n # m + 1
      <4>1. n \in 1 .. m /\ f[n] = g[n] /\ f[n - 1] = g[n - 1]
        <5> HIDE DEF next
        <5> QED BY <3>2
      <4> QED BY <2>1, <4>1
    <3> QED BY <3>1, <3>2
  <2> HIDE DEF f
  <2>4. Computes(f, m + 1)
    BY <2>2, <2>3
  <2> QED BY <2>4
<1>3. Len(path) \in T
  <2> HIDE DEF T
  <2> QED BY <1>1, <1>2, NatSets
<1> QED BY <1>3 DEF Walks

LEMMA WalkIs ==
    ASSUME NEW value, NEW path, Len(path) \in Nat, NEW f, Walks(f, value, path)
    PROVE  M!ValuesAt(value, path) = f[Len(path)]
<1> DEFINE N == Len(path)
           At(g) == g = [n \in 0 .. N |->
                            IF n = 0 THEN {value}
                            ELSE {object.fields[path[n]] :
                                     object \in {v \in g[n - 1] :
                                         v.kind = "object" /\ path[n] \in DOMAIN v.fields}}]
           at == CHOOSE g : At(g)
           h == [n \in 0 .. N |-> f[n]]
<1>1. M!ValuesAt(value, path) = at[N]
  BY DEF M!ValuesAt
<1>2. \A g : At(g) <=> g = [n \in 0 .. N |-> IF n = 0 THEN {value} ELSE Fields(g[n - 1], path[n])]
  BY DEF Fields
<1> HIDE DEF At
<1>3. At(h)
  <2>1. ASSUME NEW n \in 0 .. N
        PROVE  h[n] = IF n = 0 THEN {value} ELSE Fields(h[n - 1], path[n])
    <3>1. CASE n = 0
      BY <3>1 DEF Walks
    <3>2. CASE n # 0
      <4>1. n \in 1 .. N /\ h[n] = f[n] /\ h[n - 1] = f[n - 1]
        BY <3>2
      <4> QED BY <3>2, <4>1 DEF Walks
    <3> QED BY <3>1, <3>2
  <2>2. h = [n \in 0 .. N |-> h[n]]
    OBVIOUS
  <2> HIDE DEF h
  <2>3. h = [n \in 0 .. N |-> IF n = 0 THEN {value} ELSE Fields(h[n - 1], path[n])]
    BY <2>1, <2>2, Zenon
  <2> QED BY <1>2, <2>3
<1>4. At(at)
  <2> HIDE DEF h
  <2> QED BY <1>3
<1> HIDE DEF at, h
<1>5. \A n \in 0 .. N : at[n] = IF n = 0 THEN {value} ELSE Fields(at[n - 1], path[n])
  BY <1>2, <1>4
<1>6. at[N] = f[N]
  <2> HIDE DEF N
  <2>0. N \in Nat
    BY DEF N
  <2>1. at[0] = f[0]
    BY <1>5, <2>0 DEF Walks
  <2>2. ASSUME NEW n \in 0 + 1 .. N, at[n - 1] = f[n - 1] PROVE at[n] = f[n]
    <3>1. n \in 1 .. N /\ n \in 0 .. N /\ n # 0
      BY <2>0
    <3>2. f[n] = Fields(f[n - 1], path[n])
      BY <3>1 DEF Walks, N
    <3> QED BY <1>5, <2>2, <3>1, <3>2
  <2>3. Alike(at, f, 0, N)
    BY <2>1, <2>2 DEF Alike
  <2>4. N \in 0 .. N
    BY <2>0
  <2> QED BY <2>0, <2>3, <2>4, SameRecursion
<1> QED BY <1>1, <1>6 DEF N

\* The objects that the calls of set_nested_value are given, the first first,
\* and what they leave behind, the last first.
Nests(f, map, path) ==
    f[1] = M!Object(map) /\ \A n \in 2 .. Len(path) : f[n] = M!Enter(f[n - 1], path[n - 1])

Grafts(s, f, path, value) ==
    /\ s[0] = value
    /\ \A n \in 1 .. Len(path) :
          s[n] = M!Insert(f[Len(path) - n + 1], path[Len(path) - n + 1], s[n - 1])

LEMMA NestExists ==
    ASSUME NEW map, NEW path, Len(path) \in Nat
    PROVE  \E f : Nests(f, map, path)
<1> DEFINE base == M!Object(map)
           Computes(f, m) ==
               f[1] = base /\ \A n \in 2 .. m + 1 : f[n] = M!Enter(f[n - 1], path[n - 1])
           T == {m \in Nat : \E f : Computes(f, m)}
<1> HIDE DEF base
<1>1. 0 \in T
  <2>1. Computes([n \in 1 .. 1 |-> base], 0)
    OBVIOUS
  <2> QED BY <2>1
<1>2. ASSUME NEW m \in Nat, m \in T PROVE m + 1 \in T
  <2>1. PICK g : Computes(g, m)
    BY <1>2
  <2> DEFINE top == m + 2
             next == M!Enter(g[m + 1], path[m + 1])
             f == [n \in 1 .. top |-> IF n = top THEN next ELSE g[n]]
  <2>2. f[1] = base
    <3>1. 1 \in 1 .. top /\ 1 # top
      OBVIOUS
    <3> HIDE DEF top, next
    <3> QED BY <2>1, <3>1
  <2>3. ASSUME NEW n \in 2 .. top PROVE f[n] = M!Enter(f[n - 1], path[n - 1])
    <3>1. CASE n = top
      <4>1. n \in 1 .. top /\ n - 1 \in 1 .. top /\ n - 1 # top /\ n - 1 = m + 1
        BY <3>1
      <4>2. f[n] = next /\ f[n - 1] = g[m + 1]
        <5> HIDE DEF next, top
        <5> QED BY <3>1, <4>1
      <4> QED BY <4>1, <4>2
    <3>2. CASE n # top
      <4>1. /\ n \in 2 .. m + 1 /\ n \in 1 .. top /\ n - 1 \in 1 .. top
            /\ n - 1 # top
        BY <3>2
      <4>2. f[n] = g[n] /\ f[n - 1] = g[n - 1]
        <5> HIDE DEF next, top
        <5> QED BY <3>2, <4>1
      <4> QED BY <2>1, <4>1, <4>2
    <3> QED BY <3>1, <3>2
  <2> HIDE DEF f
  <2>4. \A n \in 2 .. m + 1 + 1 : n \in 2 .. top
    OBVIOUS
  <2>5. Computes(f, m + 1)
    BY <2>2, <2>3, <2>4
  <2> QED BY <2>5
<1>3. Len(path) \in T
  <2> HIDE DEF T
  <2> QED BY <1>1, <1>2, NatSets
<1>4. \A n \in 2 .. Len(path) : n \in 2 .. Len(path) + 1
  OBVIOUS
<1> QED BY <1>3, <1>4 DEF Nests, base

LEMMA GraftExists ==
    ASSUME NEW f, NEW path, Len(path) \in Nat, NEW value
    PROVE  \E s : Grafts(s, f, path, value)
<1> DEFINE In(n, last) == M!Insert(f[Len(path) - n + 1], path[Len(path) - n + 1], last)
           Computes(s, m) == s[0] = value /\ \A n \in 1 .. m : s[n] = In(n, s[n - 1])
           T == {m \in Nat : \E s : Computes(s, m)}
<1>0. \A s : Computes(s, Len(path)) => Grafts(s, f, path, value)
  BY DEF Grafts
<1> HIDE DEF In
<1>1. 0 \in T
  <2>1. Computes([n \in 0 .. 0 |-> value], 0)
    OBVIOUS
  <2> QED BY <2>1
<1>2. ASSUME NEW m \in Nat, m \in T PROVE m + 1 \in T
  <2>1. PICK g : Computes(g, m)
    BY <1>2
  <2> DEFINE next == In(m + 1, g[m])
             s == [n \in 0 .. m + 1 |-> IF n = m + 1 THEN next ELSE g[n]]
  <2>2. s[0] = value
    BY <2>1
  <2>3. ASSUME NEW n \in 1 .. m + 1 PROVE s[n] = In(n, s[n - 1])
    <3>1. CASE n = m + 1
      <4>1. s[n] = next /\ s[n - 1] = g[m]
        <5> HIDE DEF next
        <5> QED BY <3>1
      <4> QED BY <3>1, <4>1
    <3>2. CASE n # m + 1
      <4>1. n \in 1 .. m /\ s[n] = g[n] /\ s[n - 1] = g[n - 1]
        <5> HIDE DEF next
        <5> QED BY <3>2
      <4> QED BY <2>1, <4>1
    <3> QED BY <3>1, <3>2
  <2> HIDE DEF s
  <2>4. Computes(s, m + 1)
    BY <2>2, <2>3
  <2> QED BY <2>4
<1>3. Len(path) \in T
  <2> HIDE DEF T
  <2> QED BY <1>1, <1>2, NatSets
<1> QED BY <1>0, <1>3

LEMMA SetNestedBy ==
    ASSUME NEW map, NEW path, Len(path) \in Nat \ {0}, NEW value,
           NEW f, Nests(f, map, path), NEW s, Grafts(s, f, path, value)
    PROVE  M!SetNested(map, path, value) =
               IF \E n \in 1 .. Len(path) : f[n].kind # "object" THEN map
               ELSE s[Len(path)].fields
<1> DEFINE depth == Len(path)
           Nested(g) ==
               g = [n \in 1 .. depth |->
                       IF n = 1 THEN M!Object(map) ELSE M!Enter(g[n - 1], path[n - 1])]
           nested == CHOOSE g : Nested(g)
           Set(t) ==
               t = [n \in 0 .. depth |->
                       IF n = 0 THEN value
                       ELSE M!Insert(nested[depth - n + 1], path[depth - n + 1], t[n - 1])]
           set == CHOOSE t : Set(t)
<1>1. M!SetNested(map, path, value) =
          IF depth = 0 \/ \E n \in 1 .. depth : nested[n].kind # "object" THEN map
          ELSE set[depth].fields
  BY DEF M!SetNested
<1>2. depth \in Nat \ {0}
  OBVIOUS
<1>3. /\ f[1] = M!Object(map)
      /\ \A n \in 2 .. depth : f[n] = M!Enter(f[n - 1], path[n - 1])
  BY DEF Nests
<1>4. /\ s[0] = value
      /\ \A n \in 1 .. depth : s[n] = M!Insert(f[depth - n + 1], path[depth - n + 1], s[n - 1])
  BY DEF Grafts
<1> HIDE DEF depth
<1> DEFINE h == [n \in 1 .. depth |-> f[n]]
<1>5. Nested(h)
  <2>1. ASSUME NEW n \in 1 .. depth
        PROVE  h[n] = IF n = 1 THEN M!Object(map) ELSE M!Enter(h[n - 1], path[n - 1])
    <3>1. CASE n = 1
      BY <1>3, <3>1
    <3>2. CASE n # 1
      <4>1. n \in 2 .. depth /\ h[n] = f[n] /\ h[n - 1] = f[n - 1]
        BY <1>2, <3>2
      <4> HIDE DEF h
      <4> QED BY <1>3, <3>2, <4>1
    <3> QED BY <3>1, <3>2
  <2>2. h = [n \in 1 .. depth |-> h[n]]
    OBVIOUS
  <2> HIDE DEF h
  <2> QED BY <2>1, <2>2, Zenon
<1>6. Nested(nested)
  <2> HIDE DEF Nested, h
  <2> QED BY <1>5
<1> HIDE DEF nested, h, set
<1>7. \A n \in 1 .. depth :
          nested[n] = IF n = 1 THEN M!Object(map) ELSE M!Enter(nested[n - 1], path[n - 1])
  BY <1>6
<1> HIDE DEF Nested
<1>8. \A n \in 1 .. depth : nested[n] = f[n]
  <2>1. nested[1] = f[1]
    BY <1>2, <1>3, <1>7
  <2>2. ASSUME NEW n \in 1 + 1 .. depth, nested[n - 1] = f[n - 1] PROVE nested[n] = f[n]
    <3>1. n \in 1 .. depth /\ n \in 2 .. depth /\ n # 1
      BY <1>2
    <3> QED BY <1>3, <1>7, <2>2, <3>1
  <2>3. Alike(nested, f, 1, depth)
    BY <2>1, <2>2 DEF Alike
  <2> DEFINE one == 1
  <2>4. one \in Nat /\ depth \in Nat /\ Alike(nested, f, one, depth)
    BY <1>2, <2>3
  <2> HIDE DEF one
  <2>5. \A n \in one .. depth : nested[n] = f[n]
    BY <2>4, SameRecursion
  <2> QED BY <2>5 DEF one
<1> DEFINE t == [n \in 0 .. depth |-> s[n]]
<1>9. Set(t)
  <2>1. ASSUME NEW n \in 0 .. depth
        PROVE  t[n] = IF n = 0 THEN value
                      ELSE M!Insert(nested[depth - n + 1], path[depth - n + 1], t[n - 1])
    <3>1. CASE n = 0
      BY <1>4, <3>1
    <3>2. CASE n # 0
      <4>1. /\ n \in 1 .. depth /\ depth - n + 1 \in 1 .. depth
            /\ t[n] = s[n] /\ t[n - 1] = s[n - 1]
        BY <1>2, <3>2
      <4> HIDE DEF t
      <4>2. nested[depth - n + 1] = f[depth - n + 1]
        BY <1>8, <4>1
      <4> QED BY <1>4, <3>2, <4>1, <4>2
    <3> QED BY <3>1, <3>2
  <2>2. t = [n \in 0 .. depth |-> t[n]]
    OBVIOUS
  <2> HIDE DEF t
  <2> QED BY <2>1, <2>2, Zenon
<1>10. Set(set)
  <2>1. \E x : Set(x)
    BY <1>9
  <2> HIDE DEF Set
  <2> QED BY <2>1 DEF set
<1> HIDE DEF t
<1>11. \A n \in 0 .. depth :
          set[n] = IF n = 0 THEN value
                   ELSE M!Insert(nested[depth - n + 1], path[depth - n + 1], set[n - 1])
  BY <1>10
<1> HIDE DEF Set
<1>12. set[depth] = s[depth]
  <2>1. set[0] = s[0]
    BY <1>2, <1>4, <1>11
  <2>2. ASSUME NEW n \in 0 + 1 .. depth, set[n - 1] = s[n - 1] PROVE set[n] = s[n]
    <3> DEFINE k == depth - n + 1
    <3>1. n \in 1 .. depth /\ n \in 0 .. depth /\ n # 0 /\ k \in 1 .. depth
      BY <1>2
    <3>2. set[n] = M!Insert(nested[k], path[k], set[n - 1])
      BY <1>11, <3>1
    <3>3. s[n] = M!Insert(f[k], path[k], s[n - 1])
      BY <1>4, <3>1
    <3> HIDE DEF k
    <3>4. nested[k] = f[k]
      BY <1>8, <3>1
    <3> QED BY <2>2, <3>2, <3>3, <3>4
  <2>3. Alike(set, s, 0, depth)
    BY <2>1, <2>2 DEF Alike
  <2>4. depth \in 0 .. depth /\ depth \in Nat
    BY <1>2
  <2> QED BY <2>3, <2>4, SameRecursion
<1>13. (\E n \in 1 .. depth : nested[n].kind # "object")
           <=> (\E n \in 1 .. depth : f[n].kind # "object")
  BY <1>8
<1> QED BY <1>1, <1>2, <1>12, <1>13 DEF depth

LEMMA SameSequence ==
    ASSUME NEW s, IsSequence(s), NEW t, IsSequence(t), Len(s) = Len(t),
           \A i \in 1 .. Len(s) : s[i] = t[i]
    PROVE  s = t
<1> DEFINE N == Len(s)
<1>1. s = [i \in 1 .. N |-> s[i]] /\ t = [i \in 1 .. N |-> t[i]]
  BY LengthIs
<1>2. \A i \in 1 .. N : s[i] = t[i]
  OBVIOUS
<1> HIDE DEF N
<1> QED BY <1>1, <1>2, Zenon

LEMMA SubSequence ==
    ASSUME NEW t, IsSequence(t), NEW m \in Nat \ {0}, NEW k \in Nat, m <= k + 1, k <= Len(t)
    PROVE  /\ IsSequence(SubSeq(t, m, k))
           /\ Len(SubSeq(t, m, k)) = k + 1 - m
           /\ \A i \in 1 .. k + 1 - m : SubSeq(t, m, k)[i] = t[m + i - 1]
<1> DEFINE S == {t[i] : i \in DOMAIN t}
<1>0. t \in Seq(S)
  BY DEF IsSequence
<1> HIDE DEF S
<1>1. Len(t) \in Nat /\ \A i \in 1 .. Len(t) : t[i] \in S
  BY <1>0, ElementOfSeq
<1>2. \A i \in m .. k : t[i] \in S
  <2>1. \A i \in m .. k : i \in 1 .. Len(t)
    BY <1>1
  <2> QED BY <1>1, <2>1
<1>3. /\ SubSeq(t, m, k) \in Seq(S)
      /\ Len(SubSeq(t, m, k)) = IF m <= k THEN k - m + 1 ELSE 0
      /\ \A i \in 1 .. k - m + 1 : SubSeq(t, m, k)[i] = t[m + i - 1]
  BY <1>2, SubSeqProperties
<1>4. Len(SubSeq(t, m, k)) = k + 1 - m
  BY <1>3
<1>5. k - m + 1 = k + 1 - m
  OBVIOUS
<1>6. IsSequence(SubSeq(t, m, k))
  BY <1>3, SequenceIs
<1> QED BY <1>3, <1>4, <1>5, <1>6

\* The first i names of two paths are the same.
Agree(a, b, i) == i <= Len(a) /\ i <= Len(b) /\ \A j \in 1 .. i : b[j] = a[j]

LEMMA PrefixIs ==
    ASSUME NEW a, IsSequence(a), NEW b, IsSequence(b)
    PROVE  M!IsPrefix(a, b) <=> Agree(a, b, Len(a))
<1> DEFINE n == Len(a)
           start == SubSeq(b, 1, n)
           whole == SubSeq(a, 1, n)
<1>1. n \in Nat /\ Len(b) \in Nat
  BY LengthIs
<1>2. M!IsPrefix(a, b) <=> n <= Len(b) /\ whole = start
  BY DEF M!IsPrefix
<1>3. CASE ~(n <= Len(b))
  BY <1>2, <1>3 DEF Agree
<1>4. CASE n <= Len(b)
  <2>0. 1 \in Nat \ {0} /\ 1 <= n + 1 /\ n <= n
    BY <1>1
  <2>1. /\ IsSequence(whole) /\ Len(whole) = n + 1 - 1
        /\ \A i \in 1 .. n + 1 - 1 : whole[i] = a[1 + i - 1]
    BY <1>1, <2>0, SubSequence
  <2>2. /\ IsSequence(start) /\ Len(start) = n + 1 - 1
        /\ \A i \in 1 .. n + 1 - 1 : start[i] = b[1 + i - 1]
    BY <1>1, <1>4, <2>0, SubSequence
  <2>3. n + 1 - 1 = n /\ \A i \in 1 .. n : 1 + i - 1 = i
    BY <1>1
  <2> HIDE DEF whole, start
  <2>4. /\ Len(whole) = n /\ Len(start) = n
        /\ \A i \in 1 .. n : whole[i] = a[i] /\ start[i] = b[i]
    <3> HIDE DEF n
    <3> QED BY <2>1, <2>2, <2>3
  <2>5. (\A i \in 1 .. n : whole[i] = start[i]) => whole = start
    BY <2>1, <2>2, <2>4, SameSequence
  <2>6. whole = start <=> \A i \in 1 .. n : b[i] = a[i]
    BY <2>4, <2>5
  <2>7. n <= Len(a)
    BY <1>1
  <2> QED BY <1>2, <1>4, <2>6, <2>7 DEF Agree
<1> QED BY <1>3, <1>4

\* A walk passes by the values at every shorter path.
LEMMA WalkPasses ==
    ASSUME NEW value, NEW path, IsSequence(path), NEW f, Walks(f, value, path),
           NEW i \in 0 .. Len(path)
    PROVE  M!ValuesAt(value, SubSeq(path, 1, i)) = f[i]
<1> DEFINE start == SubSeq(path, 1, i)
<1>1. Len(path) \in Nat /\ i \in Nat /\ i <= Len(path)
  BY LengthIs
<1>2. Len(start) = i /\ \A n \in 1 .. i : start[n] = path[n]
  <2>0. 1 \in Nat \ {0} /\ 1 <= i + 1
    BY <1>1
  <2>1. Len(start) = i + 1 - 1 /\ \A n \in 1 .. i + 1 - 1 : start[n] = path[1 + n - 1]
    BY <1>1, <2>0, SubSequence
  <2>2. i + 1 - 1 = i /\ \A n \in 1 .. i : 1 + n - 1 = n
    BY <1>1
  <2> HIDE DEF start
  <2> QED BY <2>1, <2>2
<1> HIDE DEF start
<1>3. Walks(f, value, start)
  <2>1. \A n \in 1 .. i : n \in 1 .. Len(path)
    BY <1>1
  <2> QED BY <1>2, <2>1 DEF Walks
<1>4. M!ValuesAt(value, start) = f[i]
  <2>1. Len(start) \in Nat
    BY <1>1, <1>2
  <2> QED BY <1>2, <1>3, <2>1, WalkIs
<1> QED BY <1>4 DEF start

\* Walks that meet stay together.
LEMMA WalksMeet ==
    ASSUME NEW a, NEW b, NEW path, Len(path) \in Nat, NEW f, Walks(f, a, path),
           NEW g, Walks(g, b, path), NEW i \in 0 .. Len(path), f[i] = g[i]
    PROVE  f[Len(path)] = g[Len(path)]
<1> DEFINE N == Len(path)
<1>1. N \in Nat /\ i \in Nat /\ i <= N
  OBVIOUS
<1>2. ASSUME NEW n \in i + 1 .. N, f[n - 1] = g[n - 1] PROVE f[n] = g[n]
  <2>1. n \in 1 .. N
    BY <1>1
  <2> QED BY <1>2, <2>1 DEF Walks
<1> HIDE DEF N
<1>3. Alike(f, g, i, N)
  BY <1>2 DEF Alike
<1>4. N \in i .. N
  BY <1>1
<1>5. f[N] = g[N]
  BY <1>1, <1>3, <1>4, SameRecursion
<1> QED BY <1>5 DEF N

LEMMA FieldsOf ==
    ASSUME NEW v, NEW name, NEW map
    PROVE  /\ Fields({}, name) = {}
           /\ Fields({v}, name) = IF v.kind = "object" /\ name \in DOMAIN v.fields
                                  THEN {v.fields[name]} ELSE {}
           /\ M!Object(map).kind = "object" /\ M!Object(map).fields = map
           /\ DOMAIN M!EmptyMap = {}
<1>1. Fields({}, name) = {}
  BY DEF Fields
<1>2. CASE v.kind = "object" /\ name \in DOMAIN v.fields
  BY <1>1, <1>2 DEF Fields, M!Object, M!EmptyMap
<1>3. CASE ~(v.kind = "object" /\ name \in DOMAIN v.fields)
  BY <1>1, <1>3 DEF Fields, M!Object, M!EmptyMap
<1> QED BY <1>2, <1>3

Objects(f, n) == \A k \in 1 .. n : f[k].kind = "object"

\* Where the key leads, the calls of set_nested_value are given what is there,
\* or a new object where nothing is.
Meets(w, f, i) == w[i] = {f[i + 1]} \/ (w[i] = {} /\ f[i + 1] = M!Object(M!EmptyMap))

LEMMA NestsWalk ==
    ASSUME NEW map, NEW key, Len(key) \in Nat, NEW f, Nests(f, map, key),
           NEW p, Len(p) \in Nat, NEW w, Walks(w, M!Object(map), p),
           NEW i \in Nat, i < Len(key), Agree(key, p, i), Objects(f, i)
    PROVE  Meets(w, f, i)
<1> DEFINE T == {n \in Nat : n <= i => Meets(w, f, n)}
<1>1. 0 \in T
  <2>1. w[0] = {M!Object(map)} /\ f[1] = M!Object(map)
    BY DEF Walks, Nests
  <2>2. 0 + 1 = 1
    OBVIOUS
  <2>3. Meets(w, f, 0)
    BY <2>1, <2>2 DEF Meets
  <2> QED BY <2>3
<1>2. ASSUME NEW n \in Nat, n \in T PROVE n + 1 \in T
  <2> SUFFICES ASSUME n + 1 <= i PROVE Meets(w, f, n + 1)
    OBVIOUS
  <2> DEFINE k == n + 1
             there == f[k]
             name == key[k]
  <2>1. Meets(w, f, n)
    BY <1>2
  <2>2. /\ k \in 1 .. i /\ k \in 1 .. Len(p) /\ k \in Nat /\ k - 1 = n
        /\ k + 1 \in 2 .. Len(key) /\ k + 1 - 1 = k
    BY DEF Agree
  <2>3. p[k] = name
    BY <2>2 DEF Agree
  <2> HIDE DEF k
  <2>4. w[k] = Fields(w[k - 1], p[k]) /\ w[k - 1] = w[n]
    BY <2>2 DEF Walks
  <2>5. w[k] = Fields(w[n], name)
    BY <2>3, <2>4
  <2>6. f[k + 1] = M!Enter(f[k + 1 - 1], key[k + 1 - 1])
    BY <2>2 DEF Nests
  <2>7. f[k + 1] = M!Enter(there, name) /\ there.kind = "object"
    BY <2>2, <2>6 DEF Objects
  <2>8. w[n] = {there} \/ (w[n] = {} /\ there = M!Object(M!EmptyMap))
    BY <2>1 DEF Meets, k
  <2> HIDE DEF there, name, T
  <2>9. CASE w[n] = {there}
    <3>1. CASE name \in DOMAIN there.fields
      <4>1. w[k] = {there.fields[name]}
        BY <2>5, <2>7, <2>9, <3>1, FieldsOf
      <4>2. f[k + 1] = there.fields[name]
        BY <2>7, <3>1 DEF M!Enter
      <4> QED BY <4>1, <4>2 DEF Meets, k
    <3>2. CASE name \notin DOMAIN there.fields
      <4>1. w[k] = {}
        BY <2>5, <2>9, <3>2, FieldsOf
      <4>2. f[k + 1] = M!Object(M!EmptyMap)
        BY <2>7, <3>2 DEF M!Enter
      <4> QED BY <4>1, <4>2 DEF Meets, k
    <3> QED BY <3>1, <3>2
  <2>10. CASE w[n] = {} /\ there = M!Object(M!EmptyMap)
    <3>1. w[k] = {}
      BY <2>5, <2>10, FieldsOf
    <3>2. name \notin DOMAIN there.fields
      BY <2>10, FieldsOf
    <3>3. f[k + 1] = M!Object(M!EmptyMap)
      BY <2>7, <3>2 DEF M!Enter
    <3> QED BY <3>1, <3>3 DEF Meets, k
  <2> QED BY <2>8, <2>9, <2>10
<1>3. i \in T
  <2> HIDE DEF T
  <2> QED BY <1>1, <1>2, NatSets
<1> QED BY <1>3

\* set_nested_value does nothing if the key leads through a scalar.
LEMMA BlockedIs ==
    ASSUME NEW map, NEW key, IsSequence(key), Len(key) \in Nat \ {0}, NEW f, Nests(f, map, key)
    PROVE  (\E n \in 1 .. Len(key) : f[n].kind # "object")
               <=> \E i \in 1 .. Len(key) - 1 :
                       M!ScalarsIn(M!ValuesAt(M!Object(map), SubSeq(key, 1, i))) # {}
<1>1. PICK w : Walks(w, M!Object(map), key)
  BY WalkExists
<1>2. \A i \in 1 .. Len(key) - 1 : M!ValuesAt(M!Object(map), SubSeq(key, 1, i)) = w[i]
  <2>1. \A i \in 1 .. Len(key) - 1 : i \in 0 .. Len(key)
    OBVIOUS
  <2> QED BY <1>1, <2>1, WalkPasses
<1>3. ASSUME NEW i \in Nat, i < Len(key), Objects(f, i) PROVE Meets(w, f, i)
  <2>1. Agree(key, key, i)
    BY <1>3 DEF Agree
  <2> QED BY <1>1, <1>3, <2>1, NestsWalk
<1>4. ASSUME NEW n \in 1 .. Len(key), f[n].kind # "object"
      PROVE  \E i \in 1 .. Len(key) - 1 : M!ScalarsIn(w[i]) # {}
  <2> DEFINE B == {k \in 1 .. Len(key) : f[k].kind # "object"}
  <2>1. B \subseteq Nat /\ B # {}
    BY <1>4
  <2>2. PICK least \in B : \A k \in B : least <= k
    <3> HIDE DEF B
    <3> QED BY <2>1, NatMin
  <2>3. least \in 1 .. Len(key) /\ f[least].kind # "object"
    OBVIOUS
  <2>4. \A k \in 1 .. Len(key) : k < least => f[k].kind = "object"
    BY <2>2
  <2> HIDE DEF B
  <2>5. least # 1
    <3>1. f[1].kind = "object"
      BY FieldsOf DEF Nests
    <3> QED BY <2>3, <3>1
  <2> DEFINE i == least - 1
  <2>6. i \in 1 .. Len(key) - 1 /\ i \in Nat /\ i < Len(key) /\ i + 1 = least
    BY <2>3, <2>5
  <2>7. \A k \in 1 .. i : k \in 1 .. Len(key) /\ k < least
    BY <2>3
  <2> HIDE DEF i
  <2>8. Meets(w, f, i)
    BY <1>3, <2>4, <2>6, <2>7 DEF Objects
  <2>9. w[i] = {f[least]}
    <3>1. f[least] # M!Object(M!EmptyMap)
      BY <2>3, FieldsOf
    <3> QED BY <2>6, <2>8, <3>1 DEF Meets
  <2>10. f[least] \in M!ScalarsIn(w[i])
    BY <2>3, <2>9 DEF M!ScalarsIn
  <2> QED BY <2>6, <2>10
<1>5. ASSUME \A n \in 1 .. Len(key) : f[n].kind = "object", NEW i \in 1 .. Len(key) - 1
      PROVE  M!ScalarsIn(w[i]) = {}
  <2>1. i \in Nat /\ i < Len(key) /\ i + 1 \in 1 .. Len(key) /\ \A k \in 1 .. i : k \in 1 .. Len(key)
    OBVIOUS
  <2>2. Meets(w, f, i) /\ f[i + 1].kind = "object"
    BY <1>3, <1>5, <2>1 DEF Objects
  <2> QED BY <2>2 DEF Meets, M!ScalarsIn
<1> QED BY <1>2, <1>4, <1>5

\* Along its key, the grafted object is what the calls leave behind.
LEMMA GraftsWalk ==
    ASSUME NEW key, Len(key) \in Nat \ {0}, NEW f, NEW value, NEW s, Grafts(s, f, key, value),
           NEW p, Len(p) \in Nat, NEW g, Walks(g, s[Len(key)], p),
           NEW i \in 0 .. Len(key), Agree(key, p, i)
    PROVE  g[i] = {s[Len(key) - i]}
<1> DEFINE depth == Len(key)
           T == {n \in Nat : n <= i => g[n] = {s[depth - n]}}
<1>1. 0 \in T
  <2>1. depth - 0 = depth
    OBVIOUS
  <2>2. g[0] = {s[depth]}
    BY DEF Walks
  <2> HIDE DEF depth
  <2> QED BY <2>1, <2>2
<1>2. ASSUME NEW n \in Nat, n \in T PROVE n + 1 \in T
  <2> SUFFICES ASSUME n + 1 <= i PROVE g[n + 1] = {s[depth - (n + 1)]}
    OBVIOUS
  <2> DEFINE k == n + 1
             m == depth - n
             name == key[k]
             entry == s[m - 1]
             graft == s[m]
  <2>1. g[n] = {graft}
    BY <1>2
  <2>2. /\ k \in 1 .. i /\ k \in 1 .. Len(p) /\ k - 1 = n
        /\ m \in 1 .. depth /\ depth - m + 1 = k /\ depth - k = m - 1
    BY DEF Agree
  <2>3. p[k] = name
    BY <2>2 DEF Agree
  <2> HIDE DEF k, m
  <2>4. graft = M!Insert(f[depth - m + 1], key[depth - m + 1], s[m - 1])
    BY <2>2 DEF Grafts
  <2>5. graft = M!Insert(f[k], name, entry)
    BY <2>2, <2>4
  <2>6. g[k] = Fields(g[k - 1], p[k]) /\ g[k - 1] = g[n]
    BY <2>2 DEF Walks
  <2>7. g[k] = Fields({graft}, name)
    BY <2>1, <2>3, <2>6
  <2> HIDE DEF graft, name, entry, T
  <2>8. /\ graft.kind = "object" /\ name \in DOMAIN graft.fields
        /\ graft.fields[name] = entry
    BY <2>5 DEF M!Insert, M!Object
  <2>9. g[k] = {entry}
    BY <2>7, <2>8, FieldsOf
  <2> QED BY <2>2, <2>9 DEF k, entry
<1>3. i \in T
  <2> HIDE DEF T
  <2> QED BY <1>1, <1>2, NatSets
<1> QED BY <1>3

\* At the key and below it is the value.
LEMMA GraftLeads ==
    ASSUME NEW key, Len(key) \in Nat \ {0}, NEW f, NEW value, NEW s, Grafts(s, f, key, value),
           NEW p, IsSequence(p), Agree(key, p, Len(key))
    PROVE  M!ValuesAt(s[Len(key)], p) = M!ValuesAt(value, SubSeq(p, Len(key) + 1, Len(p)))
<1> DEFINE depth == Len(key)
           N == Len(p)
           m == N - depth
           rest == SubSeq(p, depth + 1, N)
<1>1. N \in Nat
  BY LengthIs
<1>2. PICK g : Walks(g, s[depth], p)
  BY <1>1, WalkExists
<1>3. depth \in Nat \ {0} /\ depth <= N /\ depth \in 0 .. depth /\ depth - depth = 0
  BY DEF Agree
<1>4. g[depth] = {value}
  <2>1. g[depth] = {s[depth - depth]}
    BY <1>1, <1>2, <1>3, GraftsWalk
  <2>2. s[0] = value
    BY DEF Grafts
  <2> HIDE DEF depth
  <2> QED BY <1>3, <2>1, <2>2
<1>5. M!ValuesAt(s[depth], p) = g[N]
  BY <1>1, <1>2, WalkIs
<1> HIDE DEF depth, N
<1>6. m \in Nat /\ depth + m = N /\ N + 1 - (depth + 1) = m
  BY <1>1, <1>3
<1>7. Len(rest) = m /\ \A n \in 1 .. m : rest[n] = p[depth + n]
  <2>0. depth + 1 \in Nat \ {0} /\ depth + 1 <= N + 1 /\ N <= Len(p)
    BY <1>1, <1>3 DEF N
  <2>1. /\ Len(rest) = N + 1 - (depth + 1)
        /\ \A n \in 1 .. N + 1 - (depth + 1) : rest[n] = p[depth + 1 + n - 1]
    BY <1>1, <2>0, SubSequence
  <2>2. \A n \in 1 .. m : depth + 1 + n - 1 = depth + n
    BY <1>3, <1>6
  <2> HIDE DEF rest, m
  <2> QED BY <1>6, <2>1, <2>2
<1> DEFINE h == [n \in 0 .. m |-> g[depth + n]]
<1> HIDE DEF rest, m
<1>8. Walks(h, value, rest)
  <2>1. h[0] = {value}
    <3>1. 0 \in 0 .. m /\ depth + 0 = depth
      BY <1>3, <1>6
    <3> QED BY <1>4, <3>1
  <2>2. ASSUME NEW n \in 1 .. m PROVE h[n] = Fields(h[n - 1], rest[n])
    <3> DEFINE k == depth + n
    <3>1. n \in 0 .. m /\ n - 1 \in 0 .. m /\ depth + (n - 1) = k - 1 /\ k \in 1 .. N
      BY <1>3, <1>6
    <3>2. h[n] = g[k] /\ h[n - 1] = g[k - 1]
      BY <3>1
    <3> HIDE DEF k, h
    <3>3. g[k] = Fields(g[k - 1], p[k])
      BY <1>2, <3>1 DEF Walks, N
    <3>4. rest[n] = p[k]
      BY <1>7 DEF k
    <3> QED BY <3>2, <3>3, <3>4
  <2> HIDE DEF h
  <2> QED BY <1>7, <2>1, <2>2 DEF Walks
<1>9. M!ValuesAt(value, rest) = h[m]
  <2>1. Len(rest) \in Nat
    BY <1>6, <1>7
  <2> HIDE DEF h
  <2> QED BY <1>7, <1>8, <2>1, WalkIs
<1>10. h[m] = g[N]
  <2>1. m \in 0 .. m
    BY <1>6
  <2> QED BY <1>6, <2>1
<1> QED BY <1>5, <1>9, <1>10 DEF rest, depth, N

\* Elsewhere are the scalars that were there.
LEMMA GraftKeeps ==
    ASSUME NEW map, NEW key, Len(key) \in Nat \ {0}, NEW f, Nests(f, map, key),
           Objects(f, Len(key)), NEW value, NEW s, Grafts(s, f, key, value),
           NEW p, IsSequence(p), ~Agree(key, p, Len(key))
    PROVE  M!ScalarsIn(M!ValuesAt(s[Len(key)], p)) = M!ScalarsIn(M!ValuesAt(M!Object(map), p))
<1> DEFINE depth == Len(key)
           N == Len(p)
           D == {j \in 1 .. depth : j <= N /\ p[j] # key[j]}
<1>1. N \in Nat
  BY LengthIs
<1>2. PICK g : Walks(g, s[depth], p)
  BY <1>1, WalkExists
<1>3. PICK w : Walks(w, M!Object(map), p)
  BY <1>1, WalkExists
<1>4. M!ValuesAt(s[depth], p) = g[N] /\ M!ValuesAt(M!Object(map), p) = w[N]
  BY <1>1, <1>2, <1>3, WalkIs
<1>5. depth \in Nat \ {0}
  OBVIOUS
<1>6. ASSUME NEW i \in Nat, i < depth, i <= N, \A j \in 1 .. i : j \notin D
      PROVE  Agree(key, p, i) /\ Meets(w, f, i) /\ g[i] = {s[depth - i]}
  <2>1. \A j \in 1 .. i : j \in 1 .. depth /\ j <= N
    BY <1>1, <1>5, <1>6
  <2>2. \A j \in 1 .. i : p[j] = key[j]
    BY <1>6, <2>1
  <2>3. Agree(key, p, i)
    BY <1>5, <1>6, <2>2 DEF Agree
  <2>4. Objects(f, i)
    BY <2>1 DEF Objects
  <2>5. i \in 0 .. depth
    BY <1>5, <1>6
  <2> QED BY <1>1, <1>2, <1>3, <1>6, <2>3, <2>4, <2>5, NestsWalk, GraftsWalk
<1>7. ASSUME NEW i \in Nat, i < depth
      PROVE  s[depth - i] = M!Insert(f[i + 1], key[i + 1], s[depth - i - 1])
  <2> DEFINE n == depth - i
  <2>1. n \in 1 .. depth /\ depth - n + 1 = i + 1
    BY <1>5, <1>7
  <2> HIDE DEF n
  <2>2. s[n] = M!Insert(f[depth - n + 1], key[depth - n + 1], s[n - 1])
    BY <2>1 DEF Grafts
  <2> QED BY <2>1, <2>2 DEF n
<1>8. CASE D = {}
  <2>1. N < depth
    <3>1. SUFFICES ASSUME depth <= N PROVE FALSE
      BY <1>1, <1>5
    <3>2. \A j \in 1 .. depth : p[j] = key[j]
      BY <1>1, <1>5, <1>8, <3>1
    <3>3. Agree(key, p, depth)
      BY <1>5, <3>1, <3>2 DEF Agree
    <3> QED BY <3>3
  <2>2. N <= N /\ N + 1 \in 1 .. depth
    BY <1>1, <1>5, <2>1
  <2> HIDE DEF D, N, depth
  <2>3. Meets(w, f, N) /\ g[N] = {s[depth - N]}
    BY <1>1, <1>6, <1>8, <2>1, <2>2
  <2>4. s[depth - N] = M!Insert(f[N + 1], key[N + 1], s[depth - N - 1])
    BY <1>1, <1>7, <2>1
  <2>5. s[depth - N].kind = "object"
    BY <2>4, FieldsOf DEF M!Insert
  <2>6. M!ScalarsIn(g[N]) = {}
    BY <2>3, <2>5 DEF M!ScalarsIn
  <2>7. f[N + 1].kind = "object"
    BY <2>2 DEF Objects, depth
  <2>8. M!ScalarsIn(w[N]) = {}
    BY <2>3, <2>7 DEF M!ScalarsIn, Meets
  <2> QED BY <1>4, <2>6, <2>8 DEF N, depth
<1>9. CASE D # {}
  <2>1. D \subseteq Nat
    OBVIOUS
  <2>2. PICK j \in D : \A k \in D : j <= k
    <3> HIDE DEF D
    <3> QED BY <1>9, <2>1, NatMin
  <2> DEFINE i == j - 1
             name == p[j]
             there == f[j]
             graft == s[depth - i]
  <2>3. /\ j \in 1 .. depth /\ j <= N /\ name # key[j]
        /\ i \in Nat /\ i < depth /\ i <= N /\ i + 1 = j /\ j \in 1 .. N
    BY <1>1
  <2>4. \A k \in 1 .. i : k \notin D
    <3>1. \A k \in 1 .. i : ~(j <= k)
      BY <2>3
    <3> HIDE DEF D
    <3> QED BY <2>2, <3>1
  <2> HIDE DEF D, i, depth, N
  <2>5. Meets(w, f, i) /\ g[i] = {graft}
    BY <1>6, <2>3, <2>4
  <2>6. graft = M!Insert(there, key[j], s[depth - i - 1])
    BY <1>7, <2>3
  <2>7. there.kind = "object"
    BY <2>3 DEF Objects, depth
  <2>8. g[j] = Fields({graft}, name) /\ w[j] = Fields(w[i], name)
    <3>1. g[j] = Fields(g[j - 1], p[j]) /\ w[j] = Fields(w[j - 1], p[j])
      BY <1>2, <1>3, <2>3 DEF Walks, N
    <3> QED BY <2>5, <3>1 DEF i
  <2>9. w[i] = {there} \/ (w[i] = {} /\ there = M!Object(M!EmptyMap))
    BY <2>3, <2>5 DEF Meets
  <2> HIDE DEF graft, there, name
  <2>10. Fields({graft}, name) = Fields({there}, name)
    <3> DEFINE entry == s[depth - i - 1]
               into == key[j]
    <3>1. graft = M!Object([n \in DOMAIN there.fields \cup {into} |->
                                IF n = into THEN entry ELSE there.fields[n]])
      BY <2>6 DEF M!Insert
    <3>2. name # into
      BY <2>3
    <3> HIDE DEF entry, into
    <3>3. /\ graft.kind = "object"
          /\ name \in DOMAIN graft.fields <=> name \in DOMAIN there.fields
          /\ name \in DOMAIN there.fields => graft.fields[name] = there.fields[name]
      BY <3>1, <3>2 DEF M!Object
    <3> QED BY <2>7, <3>3, FieldsOf
  <2>11. g[j] = w[j]
    <3>1. CASE w[i] = {there}
      BY <2>8, <2>10, <3>1
    <3>2. CASE w[i] = {} /\ there = M!Object(M!EmptyMap)
      <4>1. Fields({there}, name) = {} /\ Fields(w[i], name) = {}
        BY <3>2, FieldsOf
      <4> QED BY <2>8, <2>10, <4>1
    <3> QED BY <2>9, <3>1, <3>2
  <2>12. j \in 0 .. Len(p) /\ Len(p) \in Nat
    BY <1>1, <2>3 DEF N
  <2>13. g[Len(p)] = w[Len(p)]
    BY <1>2, <1>3, <2>11, <2>12, WalksMeet
  <2> QED BY <1>4, <2>13 DEF N, depth
<1> QED BY <1>8, <1>9

\* A path into an object, at which there are scalars.
Seen(map, path) == M!ScalarsIn(M!ValuesAt(M!Object(map), path))

\* What set_nested_value does.
Blocked(map, key) == \E i \in 1 .. Len(key) - 1 : Seen(map, SubSeq(key, 1, i)) # {}

IsSet(new, map, key, value) ==
    \A p : IsSequence(p) =>
        Seen(new, p) = IF M!IsPrefix(key, p)
                       THEN M!ScalarsIn(M!ValuesAt(value, SubSeq(p, Len(key) + 1, Len(p))))
                       ELSE Seen(map, p)

LEMMA SetNestedIs ==
    ASSUME NEW map, NEW key, IsSequence(key), NEW value
    PROVE  IF key = <<>> \/ Blocked(map, key) THEN M!SetNested(map, key, value) = map
           ELSE IsSet(M!SetNested(map, key, value), map, key, value)
<1> DEFINE new == M!SetNested(map, key, value)
           blocked == Blocked(map, key)
<1>1. CASE key = <<>>
  <2>1. Len(key) = 0
    BY <1>1
  <2>2. new = map
    BY <2>1 DEF M!SetNested
  <2> QED BY <1>1, <2>2
<1>2. CASE key # <<>>
  <2>1. Len(key) \in Nat \ {0}
    BY <1>2, LengthIs
  <2>2. PICK f : Nests(f, map, key)
    BY <2>1, NestExists
  <2>3. PICK s : Grafts(s, f, key, value)
    BY <2>1, GraftExists
  <2>4. (\E n \in 1 .. Len(key) : f[n].kind # "object") <=> blocked
    BY <2>1, <2>2, BlockedIs DEF Seen, Blocked
  <2> HIDE DEF blocked
  <2>5. new = IF \E n \in 1 .. Len(key) : f[n].kind # "object" THEN map ELSE s[Len(key)].fields
    BY <2>1, <2>2, <2>3, SetNestedBy
  <2> HIDE DEF new
  <2>6. CASE blocked
    <3>1. new = map
      BY <2>4, <2>5, <2>6
    <3> QED BY <1>2, <2>6, <3>1 DEF blocked, new
  <2>7. CASE ~blocked
    <3>1. Objects(f, Len(key))
      BY <2>4, <2>7 DEF Objects
    <3>2. M!Object(new) = s[Len(key)]
      <4> DEFINE n == Len(key)
      <4>1. n \in 1 .. Len(key)
        BY <2>1
      <4>2. s[n] = M!Insert(f[Len(key) - n + 1], key[Len(key) - n + 1], s[n - 1])
        BY <2>3, <4>1 DEF Grafts
      <4>3. s[n] = M!Object(s[n].fields)
        BY <4>2 DEF M!Insert, M!Object
      <4> QED BY <2>4, <2>5, <2>7, <4>3
    <3>3. ASSUME NEW p, IsSequence(p)
          PROVE  Seen(new, p) =
                     IF M!IsPrefix(key, p)
                     THEN M!ScalarsIn(M!ValuesAt(value, SubSeq(p, Len(key) + 1, Len(p))))
                     ELSE Seen(map, p)
      <4>1. M!IsPrefix(key, p) <=> Agree(key, p, Len(key))
        BY <3>3, PrefixIs
      <4>2. CASE Agree(key, p, Len(key))
        <5>1. M!ValuesAt(s[Len(key)], p) = M!ValuesAt(value, SubSeq(p, Len(key) + 1, Len(p)))
          BY <2>1, <2>3, <3>3, <4>2, GraftLeads
        <5> QED BY <3>2, <4>1, <4>2, <5>1 DEF Seen
      <4>3. CASE ~Agree(key, p, Len(key))
        <5>1. M!ScalarsIn(M!ValuesAt(s[Len(key)], p)) = M!ScalarsIn(M!ValuesAt(M!Object(map), p))
          BY <2>1, <2>2, <2>3, <3>1, <3>3, <4>3, GraftKeeps
        <5> QED BY <3>2, <4>1, <4>3, <5>1 DEF Seen
      <4> QED BY <4>2, <4>3
    <3>4. IsSet(new, map, key, value)
      BY <3>3 DEF IsSet
    <3> QED BY <1>2, <2>7, <3>4 DEF blocked, new
  <2> QED BY <2>6, <2>7
<1> QED BY <1>1, <1>2

\* The reference, of a list of rules and what their sources have responded with.
PutBy(list, parts, inForce, path) ==
    LET leading == {n \in inForce : M!IsPrefix(list[n].key, path)}
        last == M!Max(leading)
    IN  IF leading = {} THEN {}
        ELSE M!ValuesAt(parts[last], SubSeq(path, Len(list[last].key) + 1, Len(path)))

Barred(list, parts, inForce, n) ==
    \/ parts[n] = M!NoValue
    \/ list[n].key = <<>>
    \/ \E i \in 1 .. Len(list[n].key) - 1 :
          M!ScalarsIn(PutBy(list, parts, inForce, SubSeq(list[n].key, 1, i))) # {}

\* The rules in force, after each rule.
Forces(f, list, parts, N) ==
    /\ f[0] = {}
    /\ \A n \in 1 .. N : f[n] = f[n - 1] \cup {m \in {n} : ~Barred(list, parts, f[n - 1], m)}

LEMMA PutIs ==
    ASSUME NEW frame
    PROVE  /\ \A S, path : M!Put(frame, S, path) =
                              PutBy(RulesIn(sources, frame), frame.parts, S, path)
           /\ \A S, n : M!Ineffective(frame, S, n) <=>
                            Barred(RulesIn(sources, frame), frame.parts, S, n)
<1>1. \A n : M!Key(frame, n) = RulesIn(sources, frame)[n].key
  BY DEF M!Key, M!Rules, RulesIn
<1> DEFINE list == RulesIn(sources, frame)
<1>2. \A S, path : M!Put(frame, S, path) = PutBy(list, frame.parts, S, path)
  BY <1>1 DEF M!Put, PutBy
<1>3. \A S, n : M!Ineffective(frame, S, n) <=> Barred(list, frame.parts, S, n)
  BY <1>1, <1>2 DEF M!Ineffective, Barred
<1> QED BY <1>2, <1>3

LEMMA ForceIs ==
    ASSUME NEW frame, Len(frame.parts) \in Nat,
           NEW f, Forces(f, RulesIn(sources, frame), frame.parts, Len(frame.parts))
    PROVE  M!InForce(frame) = f[Len(frame.parts)]
<1> DEFINE N == Len(frame.parts)
           list == RulesIn(sources, frame)
           Next1(S, n) == S \cup {m \in {n} : ~Barred(list, frame.parts, S, m)}
           In(g) == g = [n \in 0 .. N |->
                            IF n = 0 THEN {}
                            ELSE g[n - 1] \cup {m \in {n} : ~M!Ineffective(frame, g[n - 1], m)}]
           inForce == CHOOSE g : In(g)
           h == [n \in 0 .. N |-> f[n]]
<1>1. M!InForce(frame) = inForce[N]
  BY DEF M!InForce
<1>2. \A g : In(g) <=> g = [n \in 0 .. N |-> IF n = 0 THEN {} ELSE Next1(g[n - 1], n)]
  <2>1. \A S, n : M!Ineffective(frame, S, n) <=> Barred(list, frame.parts, S, n)
    BY PutIs
  <2> HIDE DEF N, list
  <2> QED BY <2>1
<1>3. f[0] = {} /\ \A n \in 1 .. N : f[n] = Next1(f[n - 1], n)
  BY DEF Forces
<1>4. N \in Nat
  OBVIOUS
<1> HIDE DEF In, Next1, N
<1>5. In(h)
  <2>1. ASSUME NEW n \in 0 .. N
        PROVE  h[n] = IF n = 0 THEN {} ELSE Next1(h[n - 1], n)
    <3>1. CASE n = 0
      BY <1>3, <1>4, <3>1
    <3>2. CASE n # 0
      <4>1. n \in 1 .. N /\ h[n] = f[n] /\ h[n - 1] = f[n - 1]
        BY <1>4, <3>2
      <4> HIDE DEF h
      <4> QED BY <1>3, <3>2, <4>1
    <3> QED BY <3>1, <3>2
  <2>2. h = [n \in 0 .. N |-> h[n]]
    OBVIOUS
  <2> HIDE DEF h
  <2>3. h = [n \in 0 .. N |-> IF n = 0 THEN {} ELSE Next1(h[n - 1], n)]
    BY <2>1, <2>2, Zenon
  <2> QED BY <1>2, <2>3
<1>6. In(inForce)
  <2> HIDE DEF h
  <2> QED BY <1>5
<1> HIDE DEF inForce, h
<1>7. \A n \in 0 .. N : inForce[n] = IF n = 0 THEN {} ELSE Next1(inForce[n - 1], n)
  BY <1>2, <1>6
<1>8. inForce[N] = f[N]
  <2>1. inForce[0] = f[0]
    BY <1>3, <1>4, <1>7
  <2>2. ASSUME NEW n \in 0 + 1 .. N, inForce[n - 1] = f[n - 1] PROVE inForce[n] = f[n]
    <3>1. n \in 1 .. N /\ n \in 0 .. N /\ n # 0
      BY <1>4
    <3>2. f[n] = Next1(f[n - 1], n) /\ inForce[n] = Next1(inForce[n - 1], n)
      BY <1>3, <1>7, <3>1
    <3> QED BY <2>2, <3>2
  <2>3. Alike(inForce, f, 0, N)
    BY <2>1, <2>2 DEF Alike
  <2>4. N \in 0 .. N
    BY <1>4
  <2> QED BY <1>4, <2>3, <2>4, SameRecursion
<1> QED BY <1>1, <1>8 DEF N

LEMMA MaxIs ==
    ASSUME NEW N \in Nat, NEW T, T \subseteq 1 .. N, T # {}
    PROVE  M!Max(T) \in T /\ \A y \in T : y <= M!Max(T)
<1>1. T \subseteq 0 .. N
  OBVIOUS
<1>2. \E x \in T : \A y \in T : x >= y
  BY <1>1, NatMax
<1>3. M!Max(T) \in T /\ \A y \in T : M!Max(T) >= y
  BY <1>2 DEF M!Max
<1> DEFINE x == M!Max(T)
<1> HIDE DEF x
<1>4. x \in T /\ \A y \in T : x >= y
  BY <1>3 DEF x
<1>5. \A y \in T : y <= x
  BY <1>1, <1>4
<1> QED BY <1>4, <1>5 DEF x

\* What rules have put depends on what their own sources have responded with.
SameUpTo(a, b, N) == \A n \in 1 .. N : a[n] = b[n]

LEMMA PutAgrees ==
    ASSUME NEW list, NEW parts, NEW parts2, NEW N \in Nat, SameUpTo(parts2, parts, N),
           NEW S \in SUBSET (1 .. N)
    PROVE  /\ \A path : PutBy(list, parts2, S, path) = PutBy(list, parts, S, path)
           /\ \A n \in 1 .. N : Barred(list, parts2, S, n) <=> Barred(list, parts, S, n)
<1>1. ASSUME NEW path PROVE PutBy(list, parts2, S, path) = PutBy(list, parts, S, path)
  <2> DEFINE leading == {n \in S : M!IsPrefix(list[n].key, path)}
             last == M!Max(leading)
  <2>1. CASE leading = {}
    BY <2>1 DEF PutBy
  <2>2. CASE leading # {}
    <3>1. leading \subseteq 1 .. N
      OBVIOUS
    <3> HIDE DEF leading
    <3>2. last \in 1 .. N
      BY <2>2, <3>1, MaxIs
    <3>3. parts2[last] = parts[last]
      BY <3>2 DEF SameUpTo
    <3> HIDE DEF last
    <3>4. /\ PutBy(list, parts2, S, path) =
                 M!ValuesAt(parts2[last], SubSeq(path, Len(list[last].key) + 1, Len(path)))
          /\ PutBy(list, parts, S, path) =
                 M!ValuesAt(parts[last], SubSeq(path, Len(list[last].key) + 1, Len(path)))
      BY <2>2 DEF PutBy, leading, last
    <3> QED BY <3>3, <3>4
  <2> QED BY <2>1, <2>2
<1>2. ASSUME NEW n \in 1 .. N PROVE Barred(list, parts2, S, n) <=> Barred(list, parts, S, n)
  <2>1. parts2[n] = parts[n]
    BY DEF SameUpTo
  <2> QED BY <1>1, <2>1, Zenon DEF Barred
<1> QED BY <1>1, <1>2

\* An object has the scalars that a call's rules have put there.
StandsIn(ret, list, parts, S) ==
    \A p : IsSequence(p) => Seen(ret, p) = M!ScalarsIn(PutBy(list, parts, S, p))

Stands(list, parts, ret) ==
    \E f : /\ Forces(f, list, parts, Len(parts))
           /\ \A n \in 0 .. Len(parts) : f[n] \subseteq 1 .. n
           /\ StandsIn(ret, list, parts, f[Len(parts)])

LEMMA NothingStands ==
    ASSUME NEW list, NEW parts, Len(parts) = 0
    PROVE  Stands(list, parts, M!EmptyMap)
<1> DEFINE f == [n \in {0} |-> {}]
           top == M!Object(M!EmptyMap)
<1>1. f[0] = {} /\ f[Len(parts)] = {}
  OBVIOUS
<1> HIDE DEF f
<1>2. Forces(f, list, parts, Len(parts)) /\ \A n \in 0 .. Len(parts) : f[n] \subseteq 1 .. n
  BY <1>1 DEF Forces
<1>3. ASSUME NEW p, IsSequence(p) PROVE Seen(M!EmptyMap, p) = {}
  <2> DEFINE N == Len(p)
  <2>1. N \in Nat
    BY <1>3, LengthIs
  <2>2. PICK w : Walks(w, top, p)
    BY <2>1, WalkExists
  <2>3. w[0] = {top} /\ \A n \in 1 .. N : w[n] = Fields(w[n - 1], p[n])
    BY <2>2 DEF Walks
  <2>4. M!ValuesAt(top, p) = w[N]
    BY <2>1, <2>2, WalkIs
  <2> HIDE DEF N
  <2>5. CASE N = 0
    <3>1. M!ValuesAt(top, p) = {top} /\ top.kind = "object"
      BY <2>3, <2>4, <2>5, FieldsOf
    <3> QED BY <3>1 DEF Seen, M!ScalarsIn
  <2>6. CASE N # 0
    <3> DEFINE T == {m \in Nat : m + 1 <= N => w[m + 1] = {}}
    <3>1. 0 \in T
      <4>1. 1 \in 1 .. N /\ 1 - 1 = 0
        BY <2>1, <2>6
      <4>2. w[1] = Fields({top}, p[1])
        BY <2>3, <4>1
      <4>3. Fields({top}, p[1]) = {}
        BY FieldsOf
      <4> DEFINE none == {}
      <4>4. w[1] = none
        BY <4>2, <4>3
      <4> HIDE DEF top, none
      <4>5. w[0 + 1] = none
        BY <4>4
      <4> QED BY <4>5 DEF none
    <3>2. ASSUME NEW m \in Nat, m \in T PROVE m + 1 \in T
      <4> SUFFICES ASSUME (m + 1) + 1 <= N PROVE w[(m + 1) + 1] = {}
        OBVIOUS
      <4>1. (m + 1) + 1 \in 1 .. N /\ ((m + 1) + 1) - 1 = m + 1 /\ m + 1 <= N
        BY <2>1
      <4>2. w[m + 1] = {}
        BY <3>2, <4>1
      <4>3. w[(m + 1) + 1] = Fields(w[m + 1], p[(m + 1) + 1])
        BY <2>3, <4>1
      <4>4. Fields({}, p[(m + 1) + 1]) = {}
        BY FieldsOf
      <4> QED BY <4>2, <4>3, <4>4
    <3> HIDE DEF T
    <3>3. Nat \subseteq T
      BY <3>1, <3>2, NatSets
    <3>4. N - 1 \in Nat /\ (N - 1) + 1 = N
      BY <2>1, <2>6
    <3>5. w[N] = {}
      BY <3>3, <3>4 DEF T
    <3> QED BY <2>4, <3>5 DEF Seen, M!ScalarsIn
  <2> QED BY <2>5, <2>6
<1>4. \A p : PutBy(list, parts, {}, p) = {}
  BY DEF PutBy
<1>5. StandsIn(M!EmptyMap, list, parts, f[Len(parts)])
  BY <1>1, <1>3, <1>4 DEF StandsIn, M!ScalarsIn
<1> QED BY <1>2, <1>5 DEF Stands

\* The next rule's answer leaves standing what its place in the list says.
LEMMA GoesOnStanding ==
    ASSUME NEW list, NEW parts, IsSequence(parts), NEW ret, Stands(list, parts, ret),
           NEW value, NEW parts2, EndsWith(parts2, parts, Len(parts), value),
           IsSequence(list[Len(parts) + 1].key)
    PROVE  Stands(list, parts2,
                  IF value = M!NoValue THEN ret
                  ELSE M!SetNested(ret, list[Len(parts) + 1].key, value))
<1> DEFINE N == Len(parts)
           n == N + 1
           key == list[n].key
           new == IF value = M!NoValue THEN ret ELSE M!SetNested(ret, key, value)
<1>1. /\ N \in Nat /\ n \in Nat /\ n \in 1 .. n /\ n - 1 = N
      /\ Len(parts2) = n /\ parts2[n] = value /\ \A m \in 1 .. N : parts2[m] = parts[m]
  BY LengthIs DEF EndsWith
<1>2. PICK f : /\ Forces(f, list, parts, N)
               /\ \A m \in 0 .. N : f[m] \subseteq 1 .. m
               /\ StandsIn(ret, list, parts, f[N])
  BY DEF Stands
<1> DEFINE S == f[N]
           bars == Barred(list, parts2, S, n)
           now == S \cup {k \in {n} : ~Barred(list, parts2, S, k)}
           g == [m \in 0 .. n |-> IF m = n THEN now ELSE f[m]]
<1>3. IsSequence(key)
  OBVIOUS
<1> HIDE DEF N, n, key
<1>4. S \subseteq 1 .. N
  BY <1>1, <1>2
<1>5. g[n] = now /\ \A m \in 0 .. N : g[m] = f[m]
  <2>1. \A m \in 0 .. N : m \in 0 .. n /\ m # n
    BY <1>1
  <2>2. n \in 0 .. n
    BY <1>1
  <2> HIDE DEF now
  <2> QED BY <2>1, <2>2
<1> HIDE DEF g
<1>6. \A m \in 0 .. n : g[m] \subseteq 1 .. m
  <2> SUFFICES ASSUME NEW m \in 0 .. n PROVE g[m] \subseteq 1 .. m
    OBVIOUS
  <2>1. CASE m = n
    <3>1. now \subseteq 1 .. n
      BY <1>1, <1>4
    <3> HIDE DEF now
    <3> QED BY <1>5, <2>1, <3>1
  <2>2. CASE m # n
    <3>1. m \in 0 .. N
      BY <1>1, <2>2
    <3> QED BY <1>2, <1>5, <3>1
  <2> QED BY <2>1, <2>2
<1>7. Forces(g, list, parts2, n)
  <2>1. g[0] = {}
    <3>1. 0 \in 0 .. N
      BY <1>1
    <3> QED BY <1>2, <1>5, <3>1 DEF Forces
  <2>2. ASSUME NEW m \in 1 .. n
        PROVE  g[m] = g[m - 1] \cup {k \in {m} : ~Barred(list, parts2, g[m - 1], k)}
    <3>1. CASE m = n
      <4>1. g[m - 1] = S
        <5>1. N \in 0 .. N
          BY <1>1
        <5> QED BY <1>1, <1>5, <3>1, <5>1
      <4> HIDE DEF S
      <4> QED BY <1>5, <3>1, <4>1
    <3>2. CASE m # n
      <4> DEFINE l == m - 1
      <4>1. m \in 1 .. N /\ m \in 0 .. N /\ l \in 0 .. N
        BY <1>1, <3>2
      <4>2. g[m] = f[m] /\ g[l] = f[l]
        BY <1>5, <4>1
      <4>3. f[m] = f[l] \cup {k \in {m} : ~Barred(list, parts, f[l], k)}
        BY <1>2, <4>1 DEF Forces
      <4>4. f[l] \in SUBSET (1 .. N)
        BY <1>1, <1>2, <4>1
      <4> HIDE DEF l
      <4> DEFINE F == f[l]
      <4> HIDE DEF F
      <4>5. Barred(list, parts2, F, m) <=> Barred(list, parts, F, m)
        BY <1>1, <4>1, <4>4, PutAgrees DEF F, SameUpTo
      <4>6. {k \in {m} : ~Barred(list, parts2, F, k)} = {k \in {m} : ~Barred(list, parts, F, k)}
        BY <4>5
      <4>7. g[m] = g[l] \cup {k \in {m} : ~Barred(list, parts2, g[l], k)}
        BY <4>2, <4>3, <4>6 DEF F
      <4> QED BY <4>7 DEF l
    <3> QED BY <3>1, <3>2
  <2> QED BY <2>1, <2>2 DEF Forces
<1>8. /\ \A p : PutBy(list, parts2, S, p) = PutBy(list, parts, S, p)
      /\ \A p : IsSequence(p) => Seen(ret, p) = M!ScalarsIn(PutBy(list, parts2, S, p))
  <2>1. \A p : PutBy(list, parts2, S, p) = PutBy(list, parts, S, p)
    <3>1. N \in Nat /\ SameUpTo(parts2, parts, N) /\ S \in SUBSET (1 .. N)
      BY <1>1, <1>4 DEF SameUpTo
    <3> HIDE DEF S
    <3> QED BY <3>1, PutAgrees
  <2> QED BY <1>2, <2>1 DEF StandsIn
<1> DEFINE blocked == Blocked(ret, key)
<1>9. bars <=> value = M!NoValue \/ key = <<>> \/ blocked
  <2>1. \A i \in 1 .. Len(key) - 1 : IsSequence(SubSeq(key, 1, i))
    <3> SUFFICES ASSUME NEW i \in 1 .. Len(key) - 1 PROVE IsSequence(SubSeq(key, 1, i))
      OBVIOUS
    <3>1. Len(key) \in Nat
      BY <1>3, LengthIs
    <3> DEFINE one == 1
    <3>2. one \in Nat \ {0} /\ i \in Nat /\ one <= i + 1 /\ i <= Len(key)
      BY <3>1
    <3> HIDE DEF one
    <3>3. IsSequence(SubSeq(key, one, i))
      BY <1>3, <3>2, SubSequence
    <3> QED BY <3>3 DEF one
  <2>2. \A i \in 1 .. Len(key) - 1 :
            Seen(ret, SubSeq(key, 1, i)) = M!ScalarsIn(PutBy(list, parts2, S, SubSeq(key, 1, i)))
    BY <1>8, <2>1
  <2>3. bars <=> \/ value = M!NoValue \/ key = <<>>
                 \/ \E i \in 1 .. Len(key) - 1 :
                       M!ScalarsIn(PutBy(list, parts2, S, SubSeq(key, 1, i))) # {}
    BY <1>1, Zenon DEF Barred, key
  <2> QED BY <2>2, <2>3 DEF Blocked
<1>10. now = IF bars THEN S ELSE S \cup {n}
  <2> HIDE DEF S
  <2> QED OBVIOUS
<1> HIDE DEF bars, now, blocked
<1>11. CASE bars
  <2>1. new = ret
    <3>1. CASE value = M!NoValue
      BY <3>1
    <3>2. CASE value # M!NoValue
      <4>1. M!SetNested(ret, key, value) = ret
        BY <1>3, <1>9, <1>11, <3>2, SetNestedIs DEF blocked
      <4> QED BY <3>2, <4>1
    <3> QED BY <3>1, <3>2
  <2>2. StandsIn(ret, list, parts2, S)
    BY <1>8 DEF StandsIn
  <2>3. g[n] = S
    BY <1>5, <1>10, <1>11
  <2> HIDE DEF new, S
  <2>4. Stands(list, parts2, new)
    BY <1>1, <1>6, <1>7, <2>1, <2>2, <2>3 DEF Stands
  <2> QED BY <2>4 DEF new, key, n, N
<1>12. CASE ~bars
  <2>1. new = M!SetNested(ret, key, value) /\ key # <<>> /\ ~blocked
    BY <1>9, <1>12
  <2>2. \A p : IsSequence(p) =>
            Seen(M!SetNested(ret, key, value), p) =
                IF M!IsPrefix(key, p)
                THEN M!ScalarsIn(M!ValuesAt(value, SubSeq(p, Len(key) + 1, Len(p))))
                ELSE Seen(ret, p)
    <3>1. IsSet(M!SetNested(ret, key, value), ret, key, value)
      BY <1>3, <2>1, SetNestedIs DEF blocked
    <3> QED BY <3>1 DEF IsSet
  <2> DEFINE all == S \cup {n}
  <2>3. g[n] = all
    BY <1>5, <1>10, <1>12
  <2>4. ASSUME NEW p, IsSequence(p)
        PROVE  Seen(new, p) = M!ScalarsIn(PutBy(list, parts2, all, p))
    <3> DEFINE leading == {m \in all : M!IsPrefix(list[m].key, p)}
               last == M!Max(leading)
    <3>1. CASE M!IsPrefix(key, p)
      <4>1. n \in leading /\ leading # {} /\ leading \subseteq 1 .. n
        <5>1. n \in leading
          BY <3>1 DEF key
        <5>2. leading \subseteq 1 .. n
          BY <1>1, <1>4
        <5> HIDE DEF leading
        <5> QED BY <5>1, <5>2
      <4> HIDE DEF leading
      <4>2. last \in 1 .. n /\ n <= last
        BY <1>1, <4>1, MaxIs
      <4>3. last = n
        <5> HIDE DEF last
        <5> QED BY <1>1, <4>2
      <4> HIDE DEF last
      <4>4. PutBy(list, parts2, all, p) =
                M!ValuesAt(parts2[last], SubSeq(p, Len(list[last].key) + 1, Len(p)))
        BY <4>1 DEF PutBy, leading, last
      <4>5. PutBy(list, parts2, all, p) = M!ValuesAt(value, SubSeq(p, Len(key) + 1, Len(p)))
        BY <1>1, <4>3, <4>4 DEF key
      <4> HIDE DEF all, new
      <4> QED BY <2>1, <2>2, <2>4, <3>1, <4>5
    <3>2. CASE ~M!IsPrefix(key, p)
      <4>1. leading = {m \in S : M!IsPrefix(list[m].key, p)}
        BY <3>2 DEF key
      <4>2. PutBy(list, parts2, all, p) = PutBy(list, parts2, S, p)
        BY <4>1, Zenon DEF PutBy
      <4> HIDE DEF all, new, S
      <4> QED BY <1>8, <2>1, <2>2, <2>4, <3>2, <4>2
    <3> QED BY <3>1, <3>2
  <2>5. StandsIn(new, list, parts2, g[n])
    BY <2>3, <2>4 DEF StandsIn
  <2> HIDE DEF new, all
  <2>6. Stands(list, parts2, new)
    BY <1>1, <1>6, <1>7, <2>5 DEF Stands
  <2> QED BY <2>6 DEF new, key, n, N
<1> QED BY <1>11, <1>12

\* In every call that has begun, the object has what the rules leave standing.
FrameStands(src, frame) == Stands(RulesIn(src, frame), frame.parts, frame.ret)
AllStand(src, fs) == \A n \in 1 .. Len(fs) : FrameStands(src, fs[n])

LEMMA StandImplies == CallsOK /\ AllStand(sources, frames) => MergedIsStanding
<1> SUFFICES ASSUME CallsOK, AllStand(sources, frames),
                    NEW n \in 1 .. Len(frames), NEW path \in Paths
             PROVE  M!ScalarsIn(M!ValuesAt(M!Object(frames[n].ret), path))
                        = M!ScalarsIn(M!Put(frames[n], M!InForce(frames[n]), path))
  BY DEF MergedIsStanding, M!MergedIsStanding
<1> DEFINE frame == frames[n]
           N == Len(frame.parts)
           list == RulesIn(sources, frame)
<1>1. FrameOK(sources, frame) /\ FrameStands(sources, frame)
  BY DEF CallsOK, Chained, AllStand
<1> HIDE DEF frame
<1>2. N \in Nat
  BY <1>1, LengthIs DEF FrameOK
<1>3. PICK f : /\ Forces(f, list, frame.parts, N)
               /\ StandsIn(frame.ret, list, frame.parts, f[N])
  BY <1>1 DEF FrameStands, Stands
<1>4. M!InForce(frame) = f[N]
  BY <1>2, <1>3, ForceIs
<1>5. IsSequence(path)
  <2>1. path \in Seq(STRING)
    BY FetchAssumption
  <2> QED BY <2>1, SequenceIs
<1>6. Seen(frame.ret, path) = M!ScalarsIn(PutBy(list, frame.parts, f[N], path))
  BY <1>3, <1>5 DEF StandsIn
<1>7. M!Put(frame, M!InForce(frame), path) = PutBy(list, frame.parts, f[N], path)
  BY <1>4, PutIs
<1> HIDE DEF list
<1>8. M!ScalarsIn(M!ValuesAt(M!Object(frame.ret), path))
          = M!ScalarsIn(M!Put(frame, M!InForce(frame), path))
  BY <1>6, <1>7 DEF Seen
<1> QED BY <1>8 DEF frame

LEMMA TakeStands ==
    ASSUME SourcesOK(sources), NEW frame, FrameOK(sources, frame), ~AtEnd(sources, frame),
           FrameStands(sources, frame), NEW value
    PROVE  FrameStands(sources, M!Take(frame, value))
<1> DEFINE list == RulesIn(sources, frame)
           N == Len(frame.parts)
           key == list[N + 1].key
           ret == IF value = M!NoValue THEN frame.ret ELSE M!SetNested(frame.ret, key, value)
           parts == Append(frame.parts, value)
           taken == M!Take(frame, value)
<1>1. /\ frame = [source |-> frame.source, captures |-> frame.captures,
                  parts |-> frame.parts, ret |-> frame.ret]
      /\ frame.source \in DOMAIN sources /\ sources[frame.source].kind = "merge"
      /\ IsSequence(frame.parts) /\ N <= Len(list)
  BY DEF FrameOK
<1>2. M!Rule(frame).key = key
  BY DEF M!Rule, M!Rules, RulesIn
<1>3. taken = [frame EXCEPT !.parts = parts,
                            !.ret = IF value = M!NoValue THEN frame.ret
                                    ELSE M!SetNested(frame.ret, M!Rule(frame).key, value)]
  BY DEF M!Take
<1>4. IsSequence(key)
  <2>1. IsSequence(list) /\ \A i \in 1 .. Len(list) : IsRule(list[i])
    BY <1>1 DEF SourcesOK, IsSource, RulesIn
  <2>2. N \in Nat /\ N # Len(list)
    BY <1>1, LengthIs DEF AtEnd
  <2>3. Len(list) \in Nat
    BY <2>1, LengthIs
  <2>4. N <= Len(list)
    BY <1>1
  <2> HIDE DEF list, N
  <2>5. N + 1 \in 1 .. Len(list)
    BY <2>2, <2>3, <2>4
  <2>6. IsRule(list[N + 1])
    BY <2>1, <2>5
  <2>7. key \in Seq(STRING)
    BY <2>6 DEF IsRule
  <2> HIDE DEF key
  <2> QED BY <2>7, SequenceIs
<1>5. EndsWith(parts, frame.parts, N, value)
  BY <1>1, AppendEnds
<1> HIDE DEF parts, taken
<1>6. Stands(list, frame.parts, frame.ret)
  BY DEF FrameStands
<1>7. Stands(list, parts, ret)
  <2> HIDE DEF list
  <2> QED BY <1>1, <1>4, <1>5, <1>6, GoesOnStanding
<1>8. taken.source = frame.source /\ taken.parts = parts /\ taken.ret = ret
  <2>1. taken = [frame EXCEPT !.parts = parts, !.ret = ret]
    BY <1>2, <1>3
  <2> HIDE DEF ret
  <2> QED BY <1>1, <2>1
<1>9. RulesIn(sources, taken) = list
  BY <1>8 DEF RulesIn
<1> HIDE DEF list, ret
<1> QED BY <1>7, <1>8, <1>9 DEF FrameStands, taken

LEMMA CallStands ==
    ASSUME NEW name, NEW captures
    PROVE  FrameStands(sources, M!Call(name, captures))
<1> DEFINE call == M!Call(name, captures)
<1>1. call.parts = <<>> /\ call.ret = M!EmptyMap
  BY DEF M!Call
<1>2. Len(<<>>) = 0
  BY EmptySeq
<1> HIDE DEF call
<1>3. Len(call.parts) = 0
  BY <1>1, <1>2
<1>4. Stands(RulesIn(sources, call), call.parts, M!EmptyMap)
  BY <1>3, NothingStands
<1> QED BY <1>1, <1>4 DEF FrameStands, call

LEMMA AllStandEnds ==
    ASSUME NEW src, NEW fs, AllStand(src, fs), Len(fs) \in Nat,
           NEW u, NEW n, NEW x, EndsWith(u, fs, n, x), n <= Len(fs), FrameStands(src, x)
    PROVE  AllStand(src, u)
<1>1. /\ n \in Nat /\ Len(u) = n + 1 /\ u[n + 1] = x
      /\ \A i \in 1 .. n : u[i] = fs[i]
  BY DEF EndsWith
<1> SUFFICES ASSUME NEW i \in 1 .. n + 1 PROVE FrameStands(src, u[i])
  BY <1>1 DEF AllStand
<1>2. CASE i = n + 1
  BY <1>1, <1>2
<1>3. CASE i # n + 1
  <2>1. i \in 1 .. n /\ i \in 1 .. Len(fs)
    BY <1>1, <1>3
  <2>2. u[i] = fs[i]
    BY <1>1, <2>1
  <2> QED BY <2>1, <2>2 DEF AllStand
<1> QED BY <1>2, <1>3

LEMMA AllStandStarts ==
    /\ AllStand(sources, <<>>)
    /\ \A x : FrameStands(sources, x) => AllStand(sources, <<x>>)
<1>1. Len(<<>>) = 0 /\ \A n \in 1 .. 0 : FALSE
  BY EmptySeq
<1>2. AllStand(sources, <<>>)
  BY <1>1 DEF AllStand
<1>3. ASSUME NEW x, FrameStands(sources, x) PROVE AllStand(sources, <<x>>)
  <2>1. Len(<<x>>) = 1 /\ <<x>>[1] = x /\ \A n \in 1 .. 1 : n = 1
    OBVIOUS
  <2> DEFINE u == <<x>>
  <2> HIDE DEF u
  <2>2. Len(u) = 1 /\ u[1] = x
    BY <2>1 DEF u
  <2>3. AllStand(sources, u)
    BY <1>3, <2>1, <2>2 DEF AllStand
  <2> QED BY <2>3 DEF u
<1> QED BY <1>2, <1>3

LEMMA StepStands ==
    ASSUME CallsOK, M!Step, AllStand(sources, frames)
    PROVE  AllStand(sources', frames')
<1> DEFINE n == Len(frames)
           frame == frames[n]
<1>1. /\ SourcesOK(sources) /\ Chained(sources, frames, request)
      /\ AskedFrom(sources, frames, lookups, request, asked)
      /\ IsSequence(frames)
  BY DEF CallsOK, Chained
<1>2. n \in Nat
  BY <1>1, LengthIs
<1>3. sources' = sources
  BY DEF M!Step, M!SkipRule, M!CallLeaf, M!CallMerge, M!LeafReturns, M!Return
<1>4. ASSUME frames # <<>>, ~AtEnd(sources, frame), NEW value,
             frames' = M!Front(frames) \o <<M!Take(M!Innermost, value)>>
      PROVE  AllStand(sources, frames')
  <2> DEFINE x == M!Take(frame, value)
  <2>1. n \in Nat \ {0} /\ M!Innermost = frame /\ FrameOK(sources, frame)
    BY <1>1, <1>4, InnermostIs
  <2>2. FrameStands(sources, frame)
    <3>1. n \in 1 .. n
      BY <2>1
    <3> QED BY <3>1 DEF AllStand
  <2> HIDE DEF frame
  <2>3. FrameStands(sources, x)
    BY <1>1, <1>4, <2>1, <2>2, TakeStands
  <2>4. frames' = M!Front(frames) \o <<x>>
    BY <1>4, <2>1
  <2> HIDE DEF x
  <2> DEFINE m == n - 1
  <2>5. EndsWith(frames', frames, m, x)
    BY <1>1, <1>4, <2>4, LastReplaced
  <2>6. m <= n
    BY <2>1
  <2> HIDE DEF m
  <2> QED BY <1>2, <2>3, <2>5, <2>6, AllStandEnds
<1>5. CASE M!SkipRule
  <2>1. /\ frames # <<>> /\ ~M!Done(M!Innermost)
        /\ frames' = M!Front(frames) \o <<M!Take(M!Innermost, M!NoValue)>>
    BY <1>5 DEF M!SkipRule, M!AtRule
  <2>2. M!Innermost = frame /\ (M!Done(frame) <=> AtEnd(sources, frame))
    BY <1>1, <2>1, InnermostIs
  <2>3. ~AtEnd(sources, frame)
    BY <2>1, <2>2
  <2> HIDE DEF frame
  <2> QED BY <1>3, <1>4, <2>1, <2>3
<1>6. CASE M!CallLeaf
  BY <1>3, <1>6 DEF M!CallLeaf
<1>7. CASE M!CallMerge
  <2> DEFINE name == M!Rule(M!Innermost).source
             x == M!Call(name, M!ArgsOf(M!Innermost))
  <2>1. frames' = Append(frames, x)
    BY <1>7 DEF M!CallMerge
  <2>2. FrameStands(sources, x)
    <3> HIDE DEF name
    <3> QED BY CallStands
  <2> HIDE DEF x
  <2>3. EndsWith(frames', frames, n, x)
    BY <1>1, <2>1, AppendEnds
  <2>4. n <= n
    BY <1>2
  <2> QED BY <1>2, <1>3, <2>2, <2>3, <2>4, AllStandEnds
<1>8. CASE M!LeafReturns
  <2>1. asked # M!NoCall
    BY <1>8 DEF M!LeafReturns
  <2>2. CASE frames = <<>>
    BY <1>3, <1>8, <2>2 DEF M!LeafReturns
  <2>3. CASE frames # <<>>
    <3>1. PICK value \in M!Responses : frames' = M!Front(frames) \o <<M!Take(M!Innermost, value)>>
      BY <1>8, <2>3 DEF M!LeafReturns
    <3>2. ~AtEnd(sources, frame)
      BY <1>1, <2>1, <2>3 DEF AskedFrom
    <3> HIDE DEF frame
    <3> QED BY <1>3, <1>4, <2>3, <3>1, <3>2
  <2> QED BY <2>2, <2>3
<1>9. CASE M!Return
  <2> DEFINE value == M!Object(M!Innermost.ret)
             callers == M!Front(frames)
  <2>1. /\ frames # <<>>
        /\ callers = <<>> => frames' = <<>>
        /\ callers # <<>> => frames' = M!Front(callers) \o <<M!Take(M!Last(callers), value)>>
    BY <1>9 DEF M!Return
  <2> HIDE DEF value
  <2>2. CASE callers = <<>>
    BY <1>3, <2>1, <2>2, AllStandStarts
  <2>3. CASE callers # <<>>
    <3> DEFINE caller == M!Last(callers)
               x == M!Take(caller, value)
               m == n - 1
               l == n - 2
    <3>1. l \in Nat /\ caller = frames[m]
      BY <1>1, <2>1, <2>3, LastTwoReplaced
    <3>2. m \in 1 .. n /\ m < n /\ l <= n
      BY <1>2, <3>1
    <3> HIDE DEF m, caller
    <3>3. FrameOK(sources, caller) /\ ~AtEnd(sources, caller) /\ FrameStands(sources, caller)
      BY <1>1, <3>1, <3>2 DEF Chained, AllStand
    <3>4. FrameStands(sources, x)
      BY <1>1, <3>3, TakeStands
    <3>5. frames' = M!Front(M!Front(frames)) \o <<x>>
      BY <2>1, <2>3 DEF caller
    <3> HIDE DEF x
    <3>6. EndsWith(frames', frames, l, x)
      BY <1>1, <2>1, <2>3, <3>5, LastTwoReplaced
    <3> HIDE DEF l
    <3> QED BY <1>2, <1>3, <3>2, <3>4, <3>6, AllStandEnds
  <2> QED BY <2>2, <2>3
<1> QED BY <1>5, <1>6, <1>7, <1>8, <1>9 DEF M!Step

(* Whichever sources fail, and however the rules' keys overlap, the object *)
(* of every merge being called has the scalars that its rules' answers     *)
(* leave standing, no other and none elsewhere, for every configuration    *)
(* and at every path (set_nested_value and call).                          *)
THEOREM MergedIsStandingHolds == Spec => []MergedIsStanding
<1> DEFINE Inv == AllStand(sources, frames)
<1>1. Init => Inv
  <2>1. Init => frames = <<>>
    BY DEF Init, M!Init
  <2> QED BY <2>1, AllStandStarts
<1>2. Inv /\ CallsOK /\ [Next]_fetchVars => Inv'
  <2> SUFFICES ASSUME Inv, CallsOK, [Next]_fetchVars PROVE AllStand(sources', frames')
    OBVIOUS
  <2>1. ASSUME NEW key \in Keys, Ask(key) PROVE AllStand(sources', frames')
    <3> DEFINE name == rules[R!FirstMatch(key)].source
    <3>1. M!Start(name, request')
      BY <2>1 DEF Ask
    <3> HIDE DEF name
    <3>2. /\ sources' = sources
          /\ frames' = IF M!IsMerge(name) THEN <<M!Call(name, request')>> ELSE <<>>
      BY <3>1 DEF M!Start
    <3>3. FrameStands(sources, M!Call(name, request'))
      BY CallStands
    <3> QED BY <3>2, <3>3, AllStandStarts
  <2>2. ASSUME NEW key \in Keys, AskNoRoute(key) PROVE AllStand(sources', frames')
    BY <2>2 DEF AskNoRoute
  <2>3. CASE Call
    BY <2>3, StepStands DEF Call
  <2>4. CASE Timeout \/ Restart
    <3>1. frames' = <<>> /\ sources' = sources
      BY <2>4 DEF Timeout, Restart, M!Abort
    <3> QED BY <3>1, AllStandStarts
  <2>5. CASE UNCHANGED fetchVars
    BY <2>5 DEF fetchVars, source
  <2> QED BY <2>1, <2>2, <2>3, <2>4, <2>5 DEF Next
<1>3. IInv => CallsOK
  BY DEF IInv
<1>4. CallsOK /\ Inv => MergedIsStanding
  BY StandImplies
<1> HIDE DEF Inv
<1> QED BY <1>1, <1>2, <1>3, <1>4, IInvHolds, PTL DEF Spec
=============================================================================
