--------------------------- MODULE RequestScopeProofs --------------------------
(***************************************************************************)
(* What TLAPS proves about RequestScope, for any sites, skills,            *)
(* conversations and bounds: the route is the one that the conversation    *)
(* means, no call leaves the scope of its request, and every model call    *)
(* gets the whole prompt.                                                  *)
(***************************************************************************)
EXTENDS RequestScope, FiniteSetTheorems, SequenceTheorems,
        WellFoundedInduction, TLAPS

-----------------------------------------------------------------------------
(* Induction.  The provers take no theorem with an operator parameter, so  *)
(* the proofs about conversations of any length, and about any number of   *)
(* skills, argue with the smallest number for which something fails.       *)

LEMMA SmallestNumber ==
    ASSUME NEW T \in SUBSET Nat, T # {}
    PROVE  \E n \in T : \A m \in T : n <= m
<1>1. PICK n \in T : \A m \in T : <<m, n>> \notin OpToRel(<, Nat)
  BY WFMin, NatLessThanWellFounded
<1>2. \A m \in T : ~(m < n)
  BY <1>1 DEF OpToRel
<1> QED BY <1>2

(* What holds of 0, and of each number that its predecessor has it, holds  *)
(* of all: here as a set of numbers, which a proof can name.               *)
LEMMA AllNumbers ==
    ASSUME NEW T \in SUBSET Nat, 0 \in T, \A n \in T : n + 1 \in T
    PROVE  T = Nat
<1> SUFFICES ASSUME Nat \ T # {} PROVE FALSE
  OBVIOUS
<1>1. PICK n \in Nat \ T : \A m \in Nat \ T : n <= m
  BY SmallestNumber
<1>2. n # 0 /\ n - 1 \in Nat
  BY <1>1
<1>3. n - 1 \in T
  BY <1>1, <1>2
<1> QED BY <1>1, <1>2, <1>3

(* A function may be defined by what it is at the number before: of such   *)
(* equations, those that take over the value before or give one of their   *)
(* own have a solution on every interval.                                  *)
Solves(f, n, Own, own) ==
    /\ f = [i \in 1..n |-> f[i]]
    /\ \A i \in 1..n : f[i] = IF i \in Own \/ i = 1 THEN own[i] ELSE f[i - 1]

LEMMA SolutionExists ==
    ASSUME NEW n \in Nat, NEW Own, NEW own
    PROVE  \E f : Solves(f, n, Own, own)
<1> DEFINE T == {k \in Nat : \E f : Solves(f, k, Own, own)}
<1>1. 0 \in T
  <2>1. Solves([i \in 1..0 |-> own[i]], 0, Own, own)
    BY DEF Solves
  <2> QED BY <2>1
<1>2. ASSUME NEW k \in T PROVE k + 1 \in T
  <2>1. PICK g : Solves(g, k, Own, own)
    OBVIOUS
  <2> DEFINE f == [i \in 1..(k + 1) |->
                      IF i \in 1..k THEN g[i]
                      ELSE IF i \in Own \/ i = 1 THEN own[i] ELSE g[i - 1]]
  <2>2. ASSUME NEW i \in 1..(k + 1)
        PROVE  f[i] = IF i \in Own \/ i = 1 THEN own[i] ELSE f[i - 1]
    <3>1. CASE i = 1
      BY <2>1, <3>1 DEF Solves
    <3>2. CASE i # 1
      <4>1. i - 1 \in 1..k
        BY <3>2
      <4>2. f[i - 1] = g[i - 1]
        BY <4>1
      <4>3. i \in 1..k \/ i = k + 1
        OBVIOUS
      <4>4. CASE i \in 1..k
        BY <2>1, <3>2, <4>2, <4>4 DEF Solves
      <4>5. CASE i = k + 1
        BY <3>2, <4>2, <4>5
      <4> QED BY <4>3, <4>4, <4>5
    <3> QED BY <3>1, <3>2
  <2>3. f = [i \in 1..(k + 1) |-> f[i]]
    OBVIOUS
  <2> HIDE DEF f
  <2>4. Solves(f, k + 1, Own, own)
    BY <2>2, <2>3 DEF Solves
  <2> QED BY <2>4
<1> HIDE DEF T
<1>3. T \in SUBSET Nat
  BY DEF T
<1>4. n \in T
  BY <1>1, <1>2, <1>3, AllNumbers
<1> QED BY <1>4 DEF T

(* A finite set of numbers can be counted in ascending order ... *)
Ascending(f, n) == \A i, j \in 1..n : i < j => f[i] < f[j]

LEMMA AscendingExists ==
    ASSUME NEW S \in SUBSET Nat, IsFiniteSet(S)
    PROVE  \E f \in [1..Cardinality(S) -> S] : Ascending(f, Cardinality(S))
<1> DEFINE T == {k \in Nat : \A R \in SUBSET Nat :
        IsFiniteSet(R) /\ Cardinality(R) = k
        => \E f \in [1..k -> R] : Ascending(f, k)}
<1>1. 0 \in T
  <2>1. ASSUME NEW R \in SUBSET Nat
        PROVE  \E f \in [1..0 -> R] : Ascending(f, 0)
    <3>1. [i \in 1..0 |-> i] \in [1..0 -> R]
      OBVIOUS
    <3>2. Ascending([i \in 1..0 |-> i], 0)
      BY DEF Ascending
    <3> QED BY <3>1, <3>2
  <2> QED BY <2>1
<1>2. ASSUME NEW k \in T PROVE k + 1 \in T
  <2> SUFFICES ASSUME NEW R \in SUBSET Nat, IsFiniteSet(R), Cardinality(R) = k + 1
               PROVE  \E f \in [1..(k + 1) -> R] : Ascending(f, k + 1)
    OBVIOUS
  <2>1. R # {}
    BY FS_EmptySet
  <2>2. PICK least \in R : \A m \in R : least <= m
    BY <2>1, SmallestNumber
  <2> DEFINE Q == R \ {least}
  <2>3. IsFiniteSet(Q) /\ Cardinality(Q) = k
    BY FS_RemoveElement
  <2>4. PICK g \in [1..k -> Q] : Ascending(g, k)
    BY <2>3
  <2> DEFINE f == [i \in 1..(k + 1) |-> IF i = 1 THEN least ELSE g[i - 1]]
  <2>5. ASSUME NEW i \in 1..(k + 1), i # 1
        PROVE  i - 1 \in 1..k /\ f[i] = g[i - 1] /\ f[i] \in Q
    BY <2>5, <2>4
  <2>6. f \in [1..(k + 1) -> R]
    BY <2>4, <2>5
  <2>7. Ascending(f, k + 1)
    <3> SUFFICES ASSUME NEW i \in 1..(k + 1), NEW j \in 1..(k + 1), i < j
                 PROVE  f[i] < f[j]
      BY DEF Ascending
    <3>1. j # 1
      OBVIOUS
    <3>2. CASE i = 1
      <4>1. f[j] \in R /\ f[j] # least /\ f[i] = least
        BY <2>5, <3>1, <3>2
      <4>2. least \in Nat /\ f[j] \in Nat /\ least <= f[j]
        BY <4>1, <2>2
      <4> HIDE DEF f
      <4> QED BY <4>1, <4>2
    <3>3. CASE i # 1
      <4>1. /\ i - 1 \in 1..k /\ f[i] = g[i - 1]
            /\ j - 1 \in 1..k /\ f[j] = g[j - 1]
        BY <2>5, <3>1, <3>3
      <4>2. i - 1 < j - 1
        OBVIOUS
      <4> QED BY <2>4, <4>1, <4>2 DEF Ascending
    <3> QED BY <3>2, <3>3
  <2> HIDE DEF f
  <2> QED BY <2>6, <2>7
<1>3. Cardinality(S) \in Nat
  BY FS_CardinalityType
<1> HIDE DEF T
<1>4. T \in SUBSET Nat
  BY DEF T
<1>5. Cardinality(S) \in T
  BY <1>1, <1>2, <1>3, <1>4, AllNumbers
<1> QED BY <1>5 DEF T

(* ... which leaves none of its elements out. *)
LEMMA AscendingIsOnto ==
    ASSUME NEW S \in SUBSET Nat, IsFiniteSet(S), NEW f \in [1..Cardinality(S) -> S],
           Ascending(f, Cardinality(S))
    PROVE  \A x \in S : \E i \in 1..Cardinality(S) : f[i] = x
<1> DEFINE n == Cardinality(S)
<1>1. n \in Nat
  BY FS_CardinalityType
<1>2. IsFiniteSet(1..n) /\ Cardinality(1..n) = n
  BY <1>1, FS_Interval
<1>3. f \in Injection(1..n, S)
  <2>1. ASSUME NEW i \in 1..n, NEW j \in 1..n, f[i] = f[j] PROVE i = j
    <3>1. f[i] \in S /\ f[j] = f[i]
      BY <2>1
    <3>2. f[i] \in Nat /\ f[j] \in Nat
      BY <3>1
    <3>3. ~(f[i] < f[j]) /\ ~(f[j] < f[i])
      BY <3>1, <3>2
    <3>4. ~(i < j) /\ ~(j < i)
      BY <3>3 DEF Ascending
    <3> QED BY <1>1, <3>4
  <2> QED BY <2>1 DEF Injection, IsInjective
<1>4. f \in Surjection(1..n, S)
  BY <1>2, <1>3, FS_Injection
<1> QED BY <1>4 DEF Surjection

(* What SkillItems is: a choice of an ascending count, which there is. *)
LEMMA SkillsAreFinite ==
    ASSUME NEW ks \in SUBSET Skills
    PROVE  /\ IsFiniteSet(ks) /\ Cardinality(ks) \in 0..Cardinality(Skills)
           /\ ks \in SUBSET Nat
<1>1. IsFiniteSet(Skills) /\ Skills \in SUBSET Nat
  BY ScopeAssumption, FS_Interval DEF Skills
<1>2. IsFiniteSet(ks) /\ Cardinality(ks) <= Cardinality(Skills)
  BY <1>1, FS_Subset
<1>3. Cardinality(ks) \in Nat /\ Cardinality(Skills) \in Nat
  BY <1>1, <1>2, FS_CardinalityType
<1> QED BY <1>1, <1>2, <1>3

LEMMA InOrderFacts ==
    ASSUME NEW ks \in SUBSET Skills
    PROVE  /\ InOrder[ks] \in [1..Cardinality(ks) -> ks]
           /\ Ascending(InOrder[ks], Cardinality(ks))
<1> DEFINE n == Cardinality(ks)
<1>1. \E f \in [1..n -> ks] : Ascending(f, n)
  BY SkillsAreFinite, AscendingExists
<1>2. InOrder[ks] = CHOOSE f \in [1..n -> ks] : Ascending(f, n)
  BY DEF InOrder, Ascending
<1> HIDE DEF n
<1>3. InOrder[ks] \in [1..n -> ks] /\ Ascending(InOrder[ks], n)
  BY <1>1, <1>2
<1> QED BY <1>3 DEF n

LEMMA SkillItemsFacts ==
    ASSUME NEW ks \in SUBSET Skills
    PROVE  SkillItems(ks) \in Seq(Items) /\ Len(SkillItems(ks)) = Cardinality(ks)
<1>1. Cardinality(ks) \in Nat /\ ks \in SUBSET Nat
  BY SkillsAreFinite
<1>2. \A i \in 1..Cardinality(ks) : Item("skill", InOrder[ks][i]) \in Items
  BY <1>1, InOrderFacts DEF Item, Items
<1>3. SkillItems(ks) \in [1..Cardinality(ks) -> Items]
  BY <1>2 DEF SkillItems
<1> QED BY <1>1, <1>3

(* inject puts the skills that it is given into the prompt by priority,    *)
(* each of them once and none besides, for any set of any skills           *)
(* (skills.py:401-408).                                                    *)
THEOREM SkillsByPriority ==
    ASSUME NEW ks \in SUBSET Skills
    PROVE  /\ Len(SkillItems(ks)) = Cardinality(ks)
           /\ \A k \in ks : \E i \in 1..Cardinality(ks) :
                 /\ SkillItems(ks)[i] = Item("skill", k)
                 /\ \A j \in 1..Cardinality(ks) :
                       SkillItems(ks)[j] = Item("skill", k) => j = i
           /\ \A i, j \in 1..Cardinality(ks) :
                 i < j => SkillItems(ks)[i].n < SkillItems(ks)[j].n
<1> DEFINE n == Cardinality(ks)
           f == InOrder[ks]
<1>1. n \in Nat /\ f \in [1..n -> ks] /\ Ascending(f, n) /\ ks \in SUBSET Nat
  BY SkillsAreFinite, InOrderFacts
<1>2. \A i \in 1..n :
          SkillItems(ks)[i] = Item("skill", f[i]) /\ SkillItems(ks)[i].n = f[i]
  BY DEF SkillItems, Item
<1>3. \A k \in ks : \E i \in 1..n : f[i] = k
  <2>1. IsFiniteSet(ks)
    BY SkillsAreFinite
  <2> HIDE DEF f
  <2> QED BY <1>1, <2>1, AscendingIsOnto DEF n
<1> HIDE DEF n, f
<1>4. \A i, j \in 1..n : f[i] = f[j] => i = j
  <2> SUFFICES ASSUME NEW i \in 1..n, NEW j \in 1..n, f[i] = f[j] PROVE i = j
    OBVIOUS
  <2>1. f[i] \in Nat /\ f[j] \in Nat
    BY <1>1
  <2>2. ~(i < j) /\ ~(j < i)
    BY <1>1, <2>1 DEF Ascending
  <2> QED BY <1>1, <2>2
<1>5. \A i, j \in 1..n : i < j => f[i] < f[j]
  BY <1>1 DEF Ascending
<1>6. Len(SkillItems(ks)) = n
  BY SkillItemsFacts DEF n
<1>7. ASSUME NEW k \in ks
      PROVE  \E i \in 1..n :
                /\ SkillItems(ks)[i] = Item("skill", k)
                /\ \A j \in 1..n : SkillItems(ks)[j] = Item("skill", k) => j = i
  <2>1. PICK i \in 1..n : f[i] = k
    BY <1>3
  <2>2. ASSUME NEW j \in 1..n, SkillItems(ks)[j] = Item("skill", k) PROVE j = i
    <3>1. SkillItems(ks)[j].n = k
      BY <2>2 DEF Item
    <3> QED BY <1>2, <1>4, <2>1, <3>1
  <2> QED BY <1>2, <2>1, <2>2
<1>8. \A i, j \in 1..n : i < j => SkillItems(ks)[i].n < SkillItems(ks)[j].n
  BY <1>2, <1>5
<1> QED BY <1>6, <1>7, <1>8 DEF n

-----------------------------------------------------------------------------
(* Sequences: what a prefix and a suffix of a concatenation are *)
LEMMA PartsOfConcat ==
    ASSUME NEW S, NEW a \in Seq(S), NEW b \in Seq(S), NEW c \in Seq(S)
    PROVE  /\ SubSeq(a \o b \o c, 1, Len(a)) = a
           /\ SubSeq(a \o b \o c, Len(a) + Len(b) + 1, Len(a \o b \o c)) = c
<1> DEFINE s == a \o b \o c
<1>1. /\ a \o b \in Seq(S) /\ Len(a \o b) = Len(a) + Len(b)
      /\ \A i \in 1..(Len(a) + Len(b)) :
            (a \o b)[i] = IF i <= Len(a) THEN a[i] ELSE b[i - Len(a)]
  BY ConcatProperties
<1>2. /\ s \in Seq(S) /\ Len(s) = Len(a) + Len(b) + Len(c)
      /\ \A i \in 1..(Len(a) + Len(b) + Len(c)) :
            s[i] = IF i <= Len(a) + Len(b) THEN (a \o b)[i]
                   ELSE c[i - (Len(a) + Len(b))]
  BY <1>1, ConcatProperties
<1>3. Len(a) \in Nat /\ Len(b) \in Nat /\ Len(c) \in Nat
  BY LenProperties
<1>4. \A i \in 1..Len(s) : s[i] \in S
  BY <1>2, ElementOfSeq
<1> HIDE DEF s
<1>5. SubSeq(s, 1, Len(a)) = a
  <2> DEFINE t == SubSeq(s, 1, Len(a))
  <2>1. \A i \in 1..Len(a) : s[i] \in S
    BY <1>2, <1>3, <1>4
  <2>2. t \in Seq(S) /\ Len(t) = Len(a) /\ \A i \in 1..Len(a) : t[i] = s[i]
    BY <1>3, <2>1, SubSeqProperties
  <2>3. \A i \in 1..Len(a) : s[i] = a[i]
    BY <1>1, <1>2, <1>3
  <2> HIDE DEF t
  <2>4. t = a
    BY <2>2, <2>3, SeqEqual
  <2> QED BY <2>4 DEF t
<1>6. SubSeq(s, Len(a) + Len(b) + 1, Len(s)) = c
  <2> DEFINE m == Len(a) + Len(b) + 1
             t == SubSeq(s, m, Len(s))
  <2>1. m \in Int /\ Len(s) \in Int /\ \A i \in m..Len(s) : s[i] \in S
    BY <1>2, <1>3, <1>4
  <2>2. Len(s) - m + 1 = Len(c)
    BY <1>2, <1>3
  <2>3. /\ t \in Seq(S)
        /\ Len(t) = IF m <= Len(s) THEN Len(s) - m + 1 ELSE 0
        /\ \A i \in 1..(Len(s) - m + 1) : t[i] = s[m + i - 1]
    BY <2>1, SubSeqProperties
  <2>4. \A i \in 1..Len(c) : s[m + i - 1] = c[i]
    <3> SUFFICES ASSUME NEW i \in 1..Len(c) PROVE s[m + i - 1] = c[i]
      OBVIOUS
    <3>1. m + i - 1 \in 1..(Len(a) + Len(b) + Len(c)) /\ ~(m + i - 1 <= Len(a) + Len(b))
      BY <1>3
    <3>2. m + i - 1 - (Len(a) + Len(b)) = i
      BY <1>3
    <3> DEFINE k == m + i - 1
    <3>3. s[k] = c[k - (Len(a) + Len(b))]
      <4> HIDE DEF k, s, m, t
      <4>1. k \in 1..(Len(a) + Len(b) + Len(c)) /\ ~(k <= Len(a) + Len(b))
        BY <3>1 DEF k
      <4>2. ~(k <= Len(a))
        BY <1>3, <4>1
      <4> QED BY <1>2, <4>1, <4>2
    <3> QED BY <3>2, <3>3
  <2>5. Len(t) = Len(c)
    BY <1>3, <2>1, <2>2, <2>3
  <2> HIDE DEF t, m
  <2>6. \A i \in 1..Len(t) : t[i] = c[i]
    BY <2>2, <2>3, <2>4, <2>5
  <2>7. t = c
    BY <2>3, <2>5, <2>6, SeqEqual
  <2> QED BY <2>7 DEF t, m
<1> QED BY <1>5, <1>6 DEF s

-----------------------------------------------------------------------------
(* A policy with an origin has the one site that the caller declared;      *)
(* nothing is called before the scope is settled.                          *)
OriginInv ==
    origin # {} => voice /\ origin = declared /\ Cardinality(declared) = 1
ScopeInv ==
    /\ declared \subseteq Sites
    /\ OriginInv
    /\ pc = "arrived" => dispatched = {}
    /\ CallsStayInScope

(* What BroadcastPolicy makes of the caller's instructions *)
LEMMA PolicyFacts ==
    ASSUME declared \subseteq Sites, PolicyOrigin # {}
    PROVE  voice /\ PolicyOrigin = declared /\ Cardinality(declared) = 1
<1>1. voice /\ Cardinality(declared) = 1 /\ PolicyOrigin = declared \cap connected
  BY DEF PolicyOrigin
<1>2. IsFiniteSet(declared)
  BY ScopeAssumption, FS_Subset
<1>3. \E s : declared = {s}
  BY <1>1, <1>2, FS_Singleton
<1> QED
  BY <1>1, <1>3

(* A call that reaches its site is allowed to. *)
LEMMA ReachesFacts ==
    ASSUME OriginInv, NEW c \in Calls, Reaches(c)
    PROVE  /\ c.site \in offered
           /\ voice /\ c.tool = "HassBroadcast" =>
                 Cardinality(declared) = 1 /\ c.site \notin declared
BY DEF OriginInv, Reaches, Allows

LEMMA InitScopeInv == Init => ScopeInv
<1> SUFFICES ASSUME Init PROVE ScopeInv
  OBVIOUS
<1>1. declared \subseteq Sites
  BY DEF Init
<1>2. origin = {} /\ dispatched = {}
  BY DEF Init
<1> QED
  BY <1>1, <1>2 DEF ScopeInv, OriginInv, CallsStayInScope

LEMMA ScopeStep == ScopeInv /\ [Next]_vars => ScopeInv'
<1> SUFFICES ASSUME ScopeInv, [Next]_vars PROVE ScopeInv'
  OBVIOUS
<1>1. CASE Arrive
  <2>1. /\ UNCHANGED <<declared, voice, dispatched>> /\ dispatched = {} /\ pc' = "asking"
        /\ origin' = PolicyOrigin
    BY <1>1 DEF Arrive, ScopeInv
  <2>2. OriginInv'
    BY <2>1, PolicyFacts DEF OriginInv, ScopeInv
  <2> QED
    BY <2>1, <2>2 DEF ScopeInv, CallsStayInScope
<1>2. ASSUME NEW n \in 1..MaxCalls, NEW calls \in [1..n -> Calls],
             NEW outcome \in [1..n -> Outcomes], ToolBatch(calls, outcome)
      PROVE  ScopeInv'
  <2>1. /\ dispatched' = {c \in ToSet(calls) : Reaches(c)}
        /\ UNCHANGED <<declared, voice, offered, origin>> /\ pc = "asking"
        /\ pc' \in {pc, "end"}
    BY <1>2 DEF ToolBatch, caller
  <2>2. ToSet(calls) \subseteq Calls
    BY DEF ToSet
  <2>3. CallsStayInScope'
    <3> SUFFICES ASSUME NEW c \in dispatched'
                 PROVE  /\ c.site \in offered
                        /\ voice /\ c.tool = "HassBroadcast" =>
                              Cardinality(declared) = 1 /\ c.site \notin declared
      BY <2>1 DEF CallsStayInScope
    <3>1. c \in Calls /\ Reaches(c)
      BY <2>1, <2>2
    <3> QED
      BY <3>1, ReachesFacts DEF ScopeInv
  <2> QED
    BY <2>1, <2>3 DEF ScopeInv, OriginInv
<1>3. CASE End \/ SiteChanges \/ UNCHANGED vars
  <2>1. /\ UNCHANGED <<declared, voice, offered, origin, dispatched>>
        /\ pc' = "arrived" => pc = "arrived"
    BY <1>3 DEF End, SiteChanges, vars, caller
  <2> QED
    BY <2>1 DEF ScopeInv, OriginInv, CallsStayInScope
<1> QED
  BY <1>1, <1>2, <1>3 DEF Next

-----------------------------------------------------------------------------
(* No call reaches a site outside the request's scope, and no broadcast of *)
(* a voice request the site it comes from, whatever connects meanwhile.    *)
THEOREM CallsInScope == Spec => []CallsStayInScope
<1>1. ScopeInv => CallsStayInScope
  BY DEF ScopeInv
<1> QED
  BY <1>1, InitScopeInv, ScopeStep, PTL DEF Spec

-----------------------------------------------------------------------------
(* The prompt's parts, and what a response's calls append to it *)
OutputItems(m) == [i \in 1..m |-> Item("output", i)]
IncomingItems == <<Item("incoming", 1)>>
Ending(m) == GuidanceItems(offered, origin) \o IncomingItems \o OutputItems(m)
Prompt(ks, m) ==
    MasterItems \o SkillItems(ks) \o GuidanceItems(offered, origin)
        \o IncomingItems \o OutputItems(m)

LEMMA PartsAreItems ==
    /\ MasterItems \in Seq(Items) /\ IncomingItems \in Seq(Items)
    /\ \A sites, from : GuidanceItems(sites, from) \in Seq(Items)
    /\ \A m \in Nat : OutputItems(m) \in Seq(Items) /\ Len(OutputItems(m)) = m
<1>1. /\ Item("master", 1) \in Items /\ Item("incoming", 1) \in Items
      /\ Item("guidance", 1) \in Items
      /\ \A i \in Nat : Item("output", i) \in Items
  BY DEF Item, Items
<1>2. MasterItems \in Seq(Items) /\ IncomingItems \in Seq(Items)
  BY <1>1 DEF MasterItems, IncomingItems
<1>3. \A sites, from : GuidanceItems(sites, from) \in Seq(Items)
  BY <1>1 DEF GuidanceItems
<1>4. ASSUME NEW m \in Nat PROVE OutputItems(m) \in Seq(Items) /\ Len(OutputItems(m)) = m
  <2>1. OutputItems(m) \in [1..m -> Items]
    BY <1>1 DEF OutputItems
  <2> QED BY <2>1
<1> QED BY <1>2, <1>3, <1>4

LEMMA OutputsAppend ==
    ASSUME NEW m \in Nat, NEW k \in Nat
    PROVE  OutputItems(m) \o [i \in 1..k |-> Item("output", m + i)] = OutputItems(m + k)
<1> DEFINE new == [i \in 1..k |-> Item("output", m + i)]
<1>1. new \in Seq(Items) /\ Len(new) = k
  <2>1. \A i \in 1..k : Item("output", m + i) \in Items
    BY DEF Item, Items
  <2>2. new \in [1..k -> Items]
    BY <2>1
  <2> HIDE DEF new
  <2> QED BY <2>2
<1>2. /\ OutputItems(m) \in Seq(Items) /\ Len(OutputItems(m)) = m
      /\ OutputItems(m + k) \in Seq(Items) /\ Len(OutputItems(m + k)) = m + k
  BY PartsAreItems
<1>3. \A i \in 1..k : new[i] = Item("output", m + i)
  OBVIOUS
<1> HIDE DEF new
<1>4. /\ OutputItems(m) \o new \in Seq(Items) /\ Len(OutputItems(m) \o new) = m + k
      /\ \A i \in 1..(m + k) :
           (OutputItems(m) \o new)[i] = IF i <= m THEN OutputItems(m)[i] ELSE new[i - m]
  <2> DEFINE old == OutputItems(m)
  <2>1. old \in Seq(Items) /\ Len(old) = m
    BY <1>2
  <2> HIDE DEF old
  <2>2. /\ old \o new \in Seq(Items) /\ Len(old \o new) = Len(old) + Len(new)
        /\ \A i \in 1..(Len(old) + Len(new)) :
             (old \o new)[i] = IF i <= Len(old) THEN old[i] ELSE new[i - Len(old)]
    BY <1>1, <2>1, ConcatProperties
  <2> QED BY <1>1, <2>1, <2>2 DEF old
<1>5. ASSUME NEW i \in 1..(m + k)
      PROVE  (OutputItems(m) \o new)[i] = OutputItems(m + k)[i]
  <2>1. CASE i <= m
    BY <1>4, <2>1 DEF OutputItems
  <2>2. CASE ~(i <= m)
    <3>1. i - m \in 1..k /\ m + (i - m) = i
      BY <2>2
    <3>2. new[i - m] = Item("output", i)
      BY <1>3, <3>1
    <3> QED BY <1>4, <2>2, <3>2 DEF OutputItems
  <2> QED BY <2>1, <2>2
<1>6. OutputItems(m) \o new = OutputItems(m + k)
  BY <1>2, <1>4, <1>5, SeqEqual
<1> QED BY <1>6 DEF new

LEMMA PromptRegroups ==
    ASSUME NEW ks \in SUBSET Skills, NEW m \in Nat
    PROVE  /\ Prompt(ks, m) = MasterItems \o SkillItems(ks) \o Ending(m)
           /\ Ending(m) \in Seq(Items) /\ Prompt(ks, m) \in Seq(Items)
<1> DEFINE a == MasterItems \o SkillItems(ks)
           i == IncomingItems
           o == OutputItems(m)
           g == GuidanceItems(offered, origin)
<1>1. /\ a \in Seq(Items) /\ g \in Seq(Items) /\ i \in Seq(Items) /\ o \in Seq(Items)
  BY PartsAreItems, SkillItemsFacts, ConcatProperties
<1> HIDE DEF a, g, i, o
<1>2. g \o i \in Seq(Items) /\ a \o g \in Seq(Items)
  BY <1>1, ConcatProperties
<1>3. \A s, t, u \in Seq(Items) : (s \o t) \o u = s \o (t \o u)
  BY ConcatAssociative
<1>4. (a \o g) \o i = a \o (g \o i)
  BY <1>3, <1>1, ZenonT(40)
<1>5. (a \o (g \o i)) \o o = a \o ((g \o i) \o o)
  BY <1>3, <1>1, <1>2, ZenonT(40)
<1>6. (g \o i) \o o \in Seq(Items)
  BY <1>1, <1>2, ConcatProperties
<1>7. a \o ((g \o i) \o o) \in Seq(Items)
  BY <1>1, <1>6, ConcatProperties
<1> QED BY <1>4, <1>5, <1>6, <1>7 DEF a, g, i, o, Prompt, Ending

(* inject on a whole prompt gives the whole prompt with the new skills. *)
LEMMA InjectReplaces ==
    ASSUME NEW old \in SUBSET Skills, NEW ks \in SUBSET Skills, NEW m \in Nat
    PROVE  Inject(Prompt(old, m), Len(MasterItems), Cardinality(old), ks) = Prompt(ks, m)
<1> DEFINE a == MasterItems
           b == SkillItems(old)
           c == Ending(m)
<1>1. a \in Seq(Items) /\ b \in Seq(Items) /\ c \in Seq(Items)
  BY PartsAreItems, SkillItemsFacts, PromptRegroups
<1>2. Prompt(old, m) = a \o b \o c /\ Len(b) = Cardinality(old)
  BY SkillItemsFacts, PromptRegroups
<1>3. Prompt(ks, m) = a \o SkillItems(ks) \o c
  BY PromptRegroups
<1> HIDE DEF a, b, c
<1>4. /\ SubSeq(a \o b \o c, 1, Len(a)) = a
      /\ SubSeq(a \o b \o c, Len(a) + Len(b) + 1, Len(a \o b \o c)) = c
  BY <1>1, PartsOfConcat
<1> QED BY <1>2, <1>3, <1>4 DEF Inject, a

(* and on the master prompt alone the head of the prompt. *)
LEMMA InjectStarts ==
    ASSUME NEW ks \in SUBSET Skills
    PROVE  Inject(MasterItems, Len(MasterItems), 0, ks) = MasterItems \o SkillItems(ks)
<1>1. /\ MasterItems \in Seq(Items) /\ SkillItems(ks) \in Seq(Items)
      /\ Len(MasterItems) \in Nat
  BY PartsAreItems, SkillItemsFacts, LenProperties
<1>2. SubSeq(MasterItems, 1, Len(MasterItems)) = MasterItems
  BY <1>1, SubSeqFull
<1>3. SubSeq(MasterItems, Len(MasterItems) + 0 + 1, Len(MasterItems)) = <<>>
  BY <1>1, SubSeqEmpty
<1>4. MasterItems \o SkillItems(ks) \in Seq(Items)
  BY <1>1, ConcatProperties
<1>5. MasterItems \o SkillItems(ks) \o <<>> = MasterItems \o SkillItems(ks)
  BY <1>4, ConcatEmptySeq
<1> QED BY <1>2, <1>3, <1>5 DEF Inject

-----------------------------------------------------------------------------
(* While the model is asked, the session's skills are those that the       *)
(* events so far trigger, and the prompt holds them.                       *)
SkillsInv ==
    /\ context = happened
    /\ active = Matching(happened)
    /\ injected = Cardinality(active)
PromptInv ==
    /\ TypeOK
    /\ pc = "arrived" => incoming # <<>> /\ outputs = 0 /\ active = {}
    /\ pc = "asking" => SkillsInv /\ input = Prompt(Matching(happened), outputs)

LEMMA PromptInvMeans == PromptInv => PromptIsComplete
BY DEF PromptInv, PromptIsComplete, Prompt, IncomingItems, OutputItems

LEMMA MatchingFacts ==
    /\ \A events : Matching(events) \in SUBSET Skills
    /\ \A events, more : Matching(events) \subseteq Matching(events \cup more)
BY DEF Matching

LEMMA HappensInEvents ==
    ASSUME NEW n \in Nat, NEW calls \in [1..n -> Calls], NEW outcome \in [1..n -> Outcomes]
    PROVE  UNION {Happens(calls[i], outcome[i]) : i \in DOMAIN calls} \in SUBSET Events
BY DEF Happens, Events

LEMMA InitPromptInv == Init => PromptInv
<1> SUFFICES ASSUME Init PROVE PromptInv
  OBVIOUS
<1>1. PICK n \in 1..MaxMessages : incoming \in [1..n -> Messages]
  BY DEF Init
<1>2. incoming \in Seq(Messages) /\ incoming # <<>>
  <2>1. n \in Nat /\ n # 0
    BY ScopeAssumption
  <2>2. incoming \in Seq(Messages) /\ Len(incoming) = n
    BY <1>1, <2>1
  <2> QED BY <2>1, <2>2, EmptySeq
<1>3. Cardinality(Skills) \in Nat
  BY SkillsAreFinite, FS_CardinalityType
<1>4. injected \in 0..Cardinality(Skills) /\ iteration \in 0..MaxIterations
  BY <1>3, ScopeAssumption DEF Init
<1>5. input \in Seq(Items)
  BY EmptySeq DEF Init
<1>6. TypeOK
  BY <1>2, <1>4, <1>5 DEF Init, TypeOK
<1> QED
  BY <1>2, <1>6 DEF Init, PromptInv

LEMMA ArrivePrompt == PromptInv /\ Arrive => PromptInv'
<1> SUFFICES ASSUME PromptInv, Arrive PROVE PromptInv'
  OBVIOUS
<1> USE DEF PromptInv
<1>1. /\ pc = "arrived" /\ pc' = "asking" /\ iteration' = 1
      /\ UNCHANGED <<connected, declared, voice, master, outputs, dispatched>>
      /\ incoming' = <<>> /\ system' = {} /\ origin' = PolicyOrigin
      /\ context' = happened' /\ active' = Activated(context')
      /\ injected' = Cardinality(active')
      /\ input' = Inject(MasterItems, Len(MasterItems), 0, active')
                    \o GuidanceItems(offered', origin') \o IncomingItems
  BY DEF Arrive, IncomingItems
<1>2. active' = Matching(happened') /\ active' \in SUBSET Skills
  BY <1>1, MatchingFacts DEF Activated
<1>3. offered' \subseteq Sites /\ happened' \subseteq Events
  BY DEF Arrive, TypeOK, Events
<1>4. injected' \in 0..Cardinality(Skills)
  BY <1>1, <1>2, SkillsAreFinite
<1>5. outputs = 0
  BY <1>1
<1>6. input' \in Seq(Items) /\ input' = Prompt(Matching(happened), outputs)'
  <2> DEFINE p == MasterItems \o SkillItems(active')
             g == GuidanceItems(offered', origin')
  <2>1. input' = p \o g \o IncomingItems
    BY <1>1, <1>2, InjectStarts
  <2>2. p \in Seq(Items) /\ g \in Seq(Items) /\ IncomingItems \in Seq(Items)
    BY <1>2, PartsAreItems, SkillItemsFacts, ConcatProperties
  <2>3. g = GuidanceItems(offered, origin)'
    BY <1>1 DEF GuidanceItems, Allows
  <2>4. p = (MasterItems \o SkillItems(Matching(happened)))'
    BY <1>1, <1>2 DEF MasterItems, SkillItems, Matching, Channel
  <2>5. OutputItems(0) = <<>>
    BY PartsAreItems, EmptySeq
  <2> HIDE DEF p, g
  <2>6. p \o g \o IncomingItems \in Seq(Items)
    BY <2>2, ConcatProperties
  <2>7. input' = p \o g \o IncomingItems \o OutputItems(0)
    BY <2>1, <2>5, <2>6, ConcatEmptySeq
  <2>8. input' \in Seq(Items)
    BY <2>1, <2>6
  <2> QED BY <1>1, <1>5, <2>3, <2>4, <2>7, <2>8 DEF Prompt, IncomingItems, OutputItems
<1>7. TypeOK'
  <2>1. input' \in Seq(Items)
    BY <1>6
  <2>2. iteration' \in 0..MaxIterations
    BY <1>1, ScopeAssumption
  <2>3. origin' \subseteq declared'
    BY <1>1 DEF PolicyOrigin
  <2> QED
    BY <1>1, <1>2, <1>3, <1>4, <2>1, <2>2, <2>3, EmptySeq DEF TypeOK
<1>8. Matching(happened)' = Matching(happened')
  BY <1>1 DEF Matching, Channel
<1> QED
  BY <1>1, <1>2, <1>6, <1>7, <1>8 DEF SkillsInv

LEMMA ToolBatchPrompt ==
    ASSUME PromptInv, NEW n \in 1..MaxCalls, NEW calls \in [1..n -> Calls],
           NEW outcome \in [1..n -> Outcomes], ToolBatch(calls, outcome)
    PROVE  PromptInv'
<1> DEFINE new == UNION {Happens(calls[i], outcome[i]) : i \in DOMAIN calls}
           appended == [i \in 1..(2 * Len(calls)) |-> Item("output", outputs + i)]
           answered == input \o appended
           all == Activated(context')
<1>1. /\ TypeOK /\ pc = "asking" /\ SkillsInv
      /\ input = Prompt(Matching(happened), outputs)
  BY DEF ToolBatch, PromptInv
<1>2. /\ UNCHANGED <<connected, caller, offered, origin>>
      /\ UNCHANGED <<connected, incoming, system, declared, voice, master, offered, origin>>
      /\ dispatched' = {c \in ToSet(calls) : Reaches(c)}
      /\ context' = context \cup new /\ happened' = happened \cup new
      /\ outputs' = outputs + 2 * Len(calls)
      /\ IF iteration < MaxIterations
         THEN iteration' = iteration + 1 /\ UNCHANGED pc
         ELSE pc' = "end" /\ UNCHANGED iteration
  BY DEF ToolBatch, AfterTools, caller
<1>3. IF iteration < MaxIterations /\ all # active
      THEN /\ active' = all /\ injected' = Cardinality(all)
           /\ input' = Inject(answered, Len(MasterItems), injected, all)
      ELSE input' = answered /\ UNCHANGED <<active, injected>>
  BY DEF ToolBatch
<1>4. n \in Nat /\ Len(calls) = n /\ ToSet(calls) \subseteq Calls
  BY ScopeAssumption DEF ToSet
<1>5. new \in SUBSET Events
  BY <1>4, HappensInEvents
<1>6. outputs \in Nat /\ outputs' \in Nat
  BY <1>1, <1>2, <1>4 DEF TypeOK
<1>7. Matching(happened)' = Matching(happened')
  BY <1>2 DEF Matching, Channel
<1> HIDE DEF new
<1>8. all = Matching(happened') /\ all \in SUBSET Skills /\ active \in SUBSET Skills
  BY <1>1, <1>2, MatchingFacts DEF Activated, SkillsInv
<1>9. answered = Prompt(active, outputs + 2 * Len(calls))
  <2> DEFINE b == MasterItems \o SkillItems(active) \o GuidanceItems(offered, origin)
                    \o IncomingItems
  <2>1. b \in Seq(Items)
    BY <1>8, PartsAreItems, SkillItemsFacts, ConcatProperties
  <2>2. input = b \o OutputItems(outputs)
    BY <1>1 DEF SkillsInv, Prompt
  <2> DEFINE k == 2 * Len(calls)
  <2>3. k \in Nat /\ OutputItems(outputs) \o appended = OutputItems(outputs + k)
    <3>1. k \in Nat
      BY <1>4
    <3> HIDE DEF k
    <3>2. OutputItems(outputs) \o [i \in 1..k |-> Item("output", outputs + i)]
             = OutputItems(outputs + k)
      BY <1>6, <3>1, OutputsAppend
    <3> QED BY <3>1, <3>2 DEF k
  <2>4. OutputItems(outputs) \in Seq(Items) /\ appended \in Seq(Items)
    <3>1. OutputItems(outputs) \in Seq(Items)
      BY <1>6, PartsAreItems
    <3>2. \A i \in 1..k : Item("output", outputs + i) \in Items
      BY <1>6 DEF Item, Items
    <3>3. appended \in [1..k -> Items]
      BY <3>2
    <3>4. appended \in Seq(Items)
      <4> HIDE DEF appended, k
      <4> QED BY <2>3, <3>3
    <3> QED BY <3>1, <3>4
  <2> HIDE DEF b, appended
  <2>5. (b \o OutputItems(outputs)) \o appended = b \o (OutputItems(outputs) \o appended)
    BY <2>1, <2>4, ConcatAssociative, SMTT(30)
  <2> QED BY <2>2, <2>3, <2>5 DEF Prompt, b
<1> HIDE DEF all, answered, appended
<1>10. /\ input' = Prompt(active', outputs') /\ input' \in Seq(Items)
       /\ active' \in SUBSET Skills /\ injected' = Cardinality(active')
  <2>1. CASE iteration < MaxIterations /\ all # active
    <3>1. input' = Inject(answered, Len(MasterItems), Cardinality(active), all)
      BY <1>1, <1>3, <2>1 DEF SkillsInv
    <3>2. input' = Prompt(all, outputs')
      BY <1>2, <1>6, <1>8, <1>9, <3>1, InjectReplaces
    <3> QED BY <1>3, <1>6, <1>8, <2>1, <3>2, PromptRegroups
  <2>2. CASE ~(iteration < MaxIterations /\ all # active)
    BY <1>1, <1>2, <1>3, <1>6, <1>8, <1>9, <2>2, PromptRegroups DEF SkillsInv
  <2> QED BY <2>1, <2>2
<1>11. pc' = "asking" => active' = all
  BY <1>2, <1>3
<1>12. pc' = "asking" => SkillsInv' /\ input' = Prompt(Matching(happened), outputs)'
  <2> SUFFICES ASSUME pc' = "asking"
               PROVE  SkillsInv' /\ input' = Prompt(Matching(happened), outputs)'
    OBVIOUS
  <2>1. SkillsInv'
    BY <1>1, <1>2, <1>7, <1>8, <1>10, <1>11 DEF SkillsInv
  <2>2. Prompt(Matching(happened), outputs)' = Prompt(Matching(happened'), outputs')
    BY <1>2, <1>7
       DEF Prompt, MasterItems, SkillItems, GuidanceItems, Allows, IncomingItems, OutputItems
  <2> QED BY <1>8, <1>10, <1>11, <2>1, <2>2
<1>13. TypeOK'
  <2>1. injected' \in 0..Cardinality(Skills)
    BY <1>10, SkillsAreFinite
  <2>2. iteration' \in 0..MaxIterations /\ pc' \in {"arrived", "asking", "end"}
    BY <1>1, <1>2, ScopeAssumption DEF TypeOK
  <2>3. dispatched' \subseteq Calls
    BY <1>2, <1>4
  <2>4. context' \subseteq Events /\ happened' \subseteq Events
    BY <1>1, <1>2, <1>5 DEF TypeOK
  <2> QED
    BY <1>1, <1>2, <1>6, <1>10, <2>1, <2>2, <2>3, <2>4 DEF TypeOK
<1>14. pc' # "arrived"
  BY <1>1, <1>2
<1> QED
  BY <1>12, <1>13, <1>14 DEF PromptInv

LEMMA PromptStep == PromptInv /\ [Next]_vars => PromptInv'
<1> SUFFICES ASSUME PromptInv, [Next]_vars PROVE PromptInv'
  OBVIOUS
<1>1. CASE Arrive
  BY <1>1, ArrivePrompt
<1>2. ASSUME NEW n \in 1..MaxCalls, NEW calls \in [1..n -> Calls],
             NEW outcome \in [1..n -> Outcomes], ToolBatch(calls, outcome)
      PROVE  PromptInv'
  BY <1>2, ToolBatchPrompt
<1>3. CASE End \/ SiteChanges \/ UNCHANGED vars
  <2>1. /\ UNCHANGED <<incoming, system, declared, voice, master, offered, origin,
                       iteration, dispatched, context, active, injected, input,
                       happened, outputs>>
        /\ pc' \in {pc, "end"}
        /\ connected' \subseteq Sites
    BY <1>3 DEF End, SiteChanges, vars, caller, skills, PromptInv, TypeOK
  <2>2. TypeOK'
    BY <2>1 DEF PromptInv, TypeOK
  <2>3. /\ Matching(happened)' = Matching(happened)
        /\ Prompt(Matching(happened), outputs)' = Prompt(Matching(happened), outputs)
    BY <2>1 DEF Matching, Channel, Prompt, MasterItems, SkillItems, GuidanceItems, Allows,
                IncomingItems, OutputItems
  <2> QED
    BY <2>1, <2>2, <2>3 DEF PromptInv, SkillsInv
<1> QED
  BY <1>1, <1>2, <1>3 DEF Next

(* The state of a request has its types: the prompt is a sequence of items *)
(* and the number of injected skills never exceeds the registry's.         *)
THEOREM TypeCorrect == Spec => []TypeOK
<1>1. PromptInv => TypeOK
  BY DEF PromptInv
<1> QED
  BY <1>1, InitPromptInv, PromptStep, PTL DEF Spec

(* Every model call gets the whole prompt: the skills that anything so far *)
(* has triggered, by priority, before everything else that is in it.       *)
THEOREM PromptComplete == Spec => []PromptIsComplete
<1> QED
  BY PromptInvMeans, InitPromptInv, PromptStep, PTL DEF Spec

-----------------------------------------------------------------------------
(* The route.  A message that stands alone has a route of its own; any     *)
(* other takes over that of the message before.                            *)
StandsAlone(m) == m.global \/ m.names # {} \/ ~m.followup
OwnRoute(m) == IF m.global \/ m.names # {} THEN Named(m) ELSE ByInstructions

LEMMA MeantRouteFacts ==
    ASSUME NEW n \in Nat, incoming \in [1..n -> Messages]
    PROVE  \A i \in 1..n :
             MeantRoute[i] = IF StandsAlone(incoming[i]) \/ i = 1
                             THEN OwnRoute(incoming[i]) ELSE MeantRoute[i - 1]
<1> DEFINE Own == {i \in 1..n : StandsAlone(incoming[i])}
           own == [i \in 1..n |-> OwnRoute(incoming[i])]
           Body(f) == [i \in DOMAIN incoming |->
                          IF incoming[i].global \/ incoming[i].names # {}
                          THEN Named(incoming[i])
                          ELSE IF incoming[i].followup /\ i > 1
                               THEN f[i - 1] ELSE ByInstructions]
<1>1. PICK f : Solves(f, n, Own, own)
  <2> HIDE DEF Own, own
  <2> QED BY SolutionExists
<1>2. DOMAIN incoming = 1..n
  OBVIOUS
<1>3. ASSUME NEW g, NEW i \in 1..n
      PROVE  Body(g)[i] = IF StandsAlone(incoming[i]) \/ i = 1
                          THEN OwnRoute(incoming[i]) ELSE g[i - 1]
  BY <1>2 DEF StandsAlone, OwnRoute
<1>4. f = Body(f)
  <2>1. ASSUME NEW i \in 1..n PROVE f[i] = Body(f)[i]
    <3>1. f[i] = IF StandsAlone(incoming[i]) \/ i = 1
                 THEN OwnRoute(incoming[i]) ELSE f[i - 1]
      BY <1>1 DEF Solves
    <3> QED BY <1>3, <3>1
  <2>2. f = [i \in 1..n |-> f[i]] /\ Body(f) = [i \in 1..n |-> Body(f)[i]]
    BY <1>1, <1>2 DEF Solves
  <2> HIDE DEF Body
  <2> QED BY <2>1, <2>2
<1>5. MeantRoute = CHOOSE g : g = Body(g)
  BY DEF MeantRoute
<1>6. MeantRoute = Body(MeantRoute)
  <2> HIDE DEF Body
  <2> QED BY <1>4, <1>5
<1>7. \A i \in 1..n : MeantRoute[i] = Body(MeantRoute)[i]
  BY <1>6
<1> QED BY <1>3, <1>7

(* Over follow-ups that name nothing a route is handed on unchanged. *)
LEMMA RouteIsHandedOn ==
    ASSUME NEW n \in Nat, incoming \in [1..n -> Messages],
           NEW w \in 1..n, NEW v \in w..n,
           \A i \in (w + 1)..v : ~StandsAlone(incoming[i])
    PROVE  MeantRoute[v] = MeantRoute[w]
<1> DEFINE T == {d \in Nat : w + d <= v => MeantRoute[w + d] = MeantRoute[w]}
<1>1. 0 \in T
  OBVIOUS
<1>2. ASSUME NEW d \in T PROVE d + 1 \in T
  <2> SUFFICES ASSUME w + (d + 1) <= v PROVE MeantRoute[w + (d + 1)] = MeantRoute[w]
    OBVIOUS
  <2>1. /\ w + (d + 1) \in 1..n /\ w + (d + 1) # 1 /\ w + (d + 1) - 1 = w + d
        /\ w + (d + 1) \in (w + 1)..v /\ w + d <= v
    OBVIOUS
  <2>2. MeantRoute[w + (d + 1)] = MeantRoute[w + d]
    BY <2>1, MeantRouteFacts
  <2> QED BY <2>1, <2>2
<1> HIDE DEF T
<1>3. T \in SUBSET Nat
  BY DEF T
<1>4. T = Nat
  BY <1>1, <1>2, <1>3, AllNumbers
<1>5. v - w \in Nat /\ w + (v - w) = v
  OBVIOUS
<1>6. v - w \in T
  BY <1>4, <1>5
<1>7. w + (v - w) <= v => MeantRoute[w + (v - w)] = MeantRoute[w]
  BY <1>6 DEF T
<1> QED BY <1>5, <1>7

LEMMA LargestIndex ==
    ASSUME NEW n \in Nat, NEW W \in SUBSET (1..n), W # {}
    PROVE  \E i \in W : \A j \in W : j <= i
<1> DEFINE T == {d \in Nat : n - d \in W}
<1>1. ASSUME NEW j \in W PROVE n - j \in T /\ n - (n - j) = j
  <2>1. n - j \in Nat /\ n - (n - j) = j
    OBVIOUS
  <2> QED BY <2>1
<1>2. T \in SUBSET Nat /\ T # {}
  <2>1. PICK j : j \in W
    OBVIOUS
  <2>2. n - j \in T
    BY <1>1, <2>1
  <2> QED BY <2>2
<1>3. PICK d \in T : \A e \in T : d <= e
  <2> HIDE DEF T
  <2> QED BY <1>2, SmallestNumber
<1>4. d \in Nat /\ n - d \in W
  BY <1>3
<1>5. ASSUME NEW j \in W PROVE j <= n - d
  <2>1. d <= n - j
    BY <1>1, <1>3
  <2> QED BY <1>4, <2>1
<1> QED BY <1>4, <1>5

(* What _followup_sites looks at *)
LEMMA EarlierFacts ==
    ASSUME NEW n \in Nat \ {0}, incoming \in [1..n -> Messages],
           \A i \in 1..n : incoming[i].names \subseteq connected
    PROVE  /\ Current = incoming[n]
           /\ DOMAIN Earlier = 1..(n - 1)
           /\ \A i \in 1..(n - 1) : Earlier[i] = incoming[i]
           /\ \A i \in 1..n : Matched(incoming[i]) = incoming[i].names
           /\ WalkEnds = {i \in 1..(n - 1) : StandsAlone(incoming[i])}
<1>1. incoming \in Seq(Messages) /\ Len(incoming) = n
  OBVIOUS
<1>2. Current = incoming[n]
  BY <1>1 DEF Current, Last
<1>3. \A i \in 1..(n - 1) : incoming[i] \in Messages
  OBVIOUS
<1>4. /\ Earlier \in Seq(Messages) /\ Len(Earlier) = n - 1
      /\ \A i \in 1..(n - 1) : Earlier[i] = incoming[i]
  <2>1. /\ SubSeq(incoming, 1, n - 1) \in Seq(Messages)
        /\ Len(SubSeq(incoming, 1, n - 1)) = IF 1 <= n - 1 THEN (n - 1) - 1 + 1 ELSE 0
        /\ \A i \in 1..((n - 1) - 1 + 1) :
              SubSeq(incoming, 1, n - 1)[i] = incoming[1 + i - 1]
    BY <1>3, SubSeqProperties
  <2>2. Earlier = SubSeq(incoming, 1, n - 1)
    BY <1>1 DEF Earlier, Front
  <2> QED BY <2>1, <2>2
<1>5. DOMAIN Earlier = 1..(n - 1)
  BY <1>4, LenProperties
<1>6. \A i \in 1..n : Matched(incoming[i]) = incoming[i].names
  BY DEF Matched
<1>7. \A i \in 1..(n - 1) : EndsWalk(Earlier[i]) <=> StandsAlone(incoming[i])
  BY <1>4, <1>6 DEF EndsWalk, StandsAlone
<1> QED BY <1>2, <1>4, <1>5, <1>6, <1>7 DEF WalkEnds

(* The route of the message before the current one is the one that the     *)
(* walk back finds, however long the chain of follow-ups.                  *)
LEMMA WalkFindsRoute ==
    ASSUME NEW n \in Nat, n > 1, incoming \in [1..n -> Messages],
           \A i \in 1..n : incoming[i].names \subseteq connected
    PROVE  MeantRoute[n - 1] = IF Inherits THEN Named(InheritedFrom) ELSE ByInstructions
<1>1. /\ WalkEnds = {i \in 1..(n - 1) : StandsAlone(incoming[i])}
      /\ \A i \in 1..(n - 1) : Earlier[i] = incoming[i]
      /\ \A i \in 1..n : Matched(incoming[i]) = incoming[i].names
  BY EarlierFacts
<1>2. CASE WalkEnds = {}
  <2>1. 1 \in 1..n /\ n - 1 \in 1..n /\ \A i \in (1 + 1)..(n - 1) : ~StandsAlone(incoming[i])
    BY <1>1, <1>2
  <2>2. MeantRoute[n - 1] = MeantRoute[1]
    BY <2>1, RouteIsHandedOn
  <2>3. MeantRoute[1] = OwnRoute(incoming[1]) /\ ~StandsAlone(incoming[1])
    BY <1>1, <1>2, <2>1, MeantRouteFacts
  <2> QED BY <1>2, <2>2, <2>3 DEF OwnRoute, StandsAlone, Inherits
<1>3. CASE WalkEnds # {}
  <2> DEFINE IsLast(i) == \A j \in WalkEnds : j <= i
             w == CHOOSE i \in WalkEnds : IsLast(i)
  <2>1. \E i \in WalkEnds : IsLast(i)
    <3>1. n - 1 \in Nat /\ WalkEnds \in SUBSET (1..(n - 1))
      BY <1>1
    <3> QED BY <1>3, <3>1, LargestIndex
  <2>2. w \in WalkEnds /\ IsLast(w)
    <3> HIDE DEF IsLast
    <3> QED BY <2>1
  <2>3. InheritedFrom = incoming[w]
    BY <1>1, <2>2 DEF InheritedFrom
  <2> HIDE DEF w
  <2>4. w \in 1..n /\ n - 1 \in w..n /\ StandsAlone(incoming[w])
    BY <1>1, <2>2
  <2>5. \A i \in (w + 1)..(n - 1) : ~StandsAlone(incoming[i])
    BY <1>1, <2>2, <2>4
  <2>6. MeantRoute[n - 1] = MeantRoute[w]
    BY <2>4, <2>5, RouteIsHandedOn
  <2>7. MeantRoute[w] = OwnRoute(incoming[w])
    BY <2>4, MeantRouteFacts
  <2> QED BY <1>1, <1>3, <2>3, <2>4, <2>6, <2>7 DEF OwnRoute, Inherits
<1> QED BY <1>2, <1>3

LEMMA RouteIsMeant ==
    ASSUME NEW n \in Nat \ {0}, incoming \in [1..n -> Messages], HasKeywords,
           \A i \in 1..n : incoming[i].names \subseteq connected
    PROVE  SelectSites = Meant
<1>1. Current = incoming[n] /\ Matched(Current) = Current.names
  BY EarlierFacts
<1>2. Meant = MeantRoute[n]
  BY DEF Meant
<1>3. Meant = IF StandsAlone(Current) \/ n = 1 THEN OwnRoute(Current) ELSE MeantRoute[n - 1]
  BY <1>1, <1>2, MeantRouteFacts
<1>4. CASE Current.global \/ Current.names # {}
  BY <1>1, <1>3, <1>4 DEF SelectSites, StandsAlone, OwnRoute
<1>5. CASE ~(Current.global \/ Current.names # {}) /\ ~Current.followup
  BY <1>1, <1>3, <1>5 DEF SelectSites, StandsAlone, OwnRoute
<1>6. CASE ~(Current.global \/ Current.names # {}) /\ Current.followup
  <2>1. SelectSites = IF Inherits THEN Named(InheritedFrom) ELSE ByInstructions
    BY <1>1, <1>6 DEF SelectSites
  <2>2. CASE n = 1
    <3>1. WalkEnds = {}
      BY <2>2, EarlierFacts
    <3> QED BY <1>3, <1>6, <2>1, <2>2, <3>1 DEF OwnRoute, Inherits
  <2>3. CASE n # 1
    <3>1. MeantRoute[n - 1] = IF Inherits THEN Named(InheritedFrom) ELSE ByInstructions
      BY <2>3, WalkFindsRoute
    <3> QED BY <1>3, <1>6, <2>1, <2>3, <3>1 DEF StandsAlone
  <2> QED BY <2>2, <2>3
<1> QED BY <1>4, <1>5, <1>6

(* _select_sites finds the route that the conversation means, however long *)
(* its chains of follow-ups are, while the named sites are connected.      *)
THEOREM ScopeMeant == Spec => []ScopeIsMeant
<1>1. PromptInv => ScopeIsMeant
  <2> SUFFICES ASSUME PromptInv, pc = "arrived", HasKeywords,
                      \A i \in DOMAIN incoming : incoming[i].names \subseteq connected
               PROVE  SelectSites = Meant
    BY DEF ScopeIsMeant
  <2>1. incoming \in Seq(Messages) /\ incoming # <<>>
    BY DEF PromptInv, TypeOK
  <2>2. Len(incoming) \in Nat \ {0} /\ incoming \in [1..Len(incoming) -> Messages]
    BY <2>1, EmptySeq, LenProperties
  <2> QED BY <2>2, RouteIsMeant
<1> QED
  BY <1>1, InitPromptInv, PromptStep, PTL DEF Spec
=============================================================================
