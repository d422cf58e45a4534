------------------------ MODULE GuestRecordingProofs ------------------------
(***************************************************************************)
(* Proofs about what the guest's driver records and hands out: descriptor  *)
(* pools count their sets, a submit that is acknowledged has run its ray   *)
(* commands, and a submit replays each command buffer in its recorded      *)
(* order (GuestCommands); it runs the commands of a recording with what    *)
(* was bound to them (GuestBindings); a copy out of an image brings what   *)
(* the image holds (GuestImages).                                          *)
(***************************************************************************)
EXTENDS GuestCommands, GuestBindings, GuestImages, FiniteSetTheorems, SequenceTheorems,
  WellFoundedInduction, TLAPS

----------------------------------------------------------------------------
(* Descriptor pools.                                                       *)

\* PoolsCountSets with the types its proof needs: every set has a pool that
\* exists, and no pool has more than maxSets of them.
PoolsInv ==
  /\ IsTable(descriptorPools, DescriptorPools, 0 .. MaxSets)
  /\ IsTable(descriptorSets, DescriptorSets, DOMAIN descriptorPools)
  /\ PoolsCountSets

\* The sets of a pool, in a table of sets.
Members(table, p) == {d \in DOMAIN table : table[d] = p}

LEMMA Finite ==
  ASSUME NEW table, DOMAIN table \subseteq DescriptorSets, NEW p
  PROVE  IsFiniteSet(Members(table, p)) /\ Cardinality(Members(table, p)) \in Nat
<1>1. Members(table, p) \in SUBSET DescriptorSets
  BY DEF Members
<1> QED BY <1>1, FS_Subset, FS_CardinalityType, CommandAssumption

LEMMA PoolsInitially == CommandInit => PoolsInv
<1> SUFFICES ASSUME CommandInit PROVE PoolsInv
  OBVIOUS
<1>1. descriptorPools = EmptyTable /\ descriptorSets = EmptyTable
  BY DEF CommandInit
<1> QED BY <1>1 DEF PoolsInv, PoolsCountSets, IsTable, EmptyTable

\* A new pool has no sets.
LEMMA CreateCounts ==
  ASSUME PoolsInv, NEW p \in DescriptorPools, CreateDescriptorPool(p)
  PROVE  PoolsInv'
<1>1. /\ DOMAIN descriptorPools' = DOMAIN descriptorPools \cup {p}
      /\ \A q \in DOMAIN descriptorPools' :
           descriptorPools'[q] = IF q = p THEN 0 ELSE descriptorPools[q]
      /\ descriptorPools' = [q \in DOMAIN descriptorPools' |-> descriptorPools'[q]]
  BY DEF CreateDescriptorPool, Put
<1>2. descriptorSets' = descriptorSets /\ p \notin DOMAIN descriptorPools
  BY DEF CreateDescriptorPool
<1>3. \A q : SetsOf(q)' = SetsOf(q)
  BY <1>2 DEF SetsOf
<1>4. SetsOf(p) = {}
  BY <1>2 DEF SetsOf, PoolsInv, IsTable
<1>5. \A q \in DOMAIN descriptorPools' : descriptorPools'[q] = Cardinality(SetsOf(q)')
  BY <1>1, <1>3, <1>4, FS_EmptySet DEF PoolsInv, PoolsCountSets
<1>6. PoolsCountSets'
  BY <1>5 DEF PoolsCountSets
<1>7. IsTable(descriptorPools, DescriptorPools, 0 .. MaxSets)'
  BY <1>1, CommandAssumption DEF PoolsInv, IsTable
<1>8. IsTable(descriptorSets, DescriptorSets, DOMAIN descriptorPools)'
  BY <1>1, <1>2 DEF PoolsInv, IsTable
<1> QED BY <1>6, <1>7, <1>8 DEF PoolsInv

\* A pool is destroyed with its sets, the others keep theirs.
LEMMA DestroyCounts ==
  ASSUME PoolsInv, NEW p, DestroyDescriptorPool(p)
  PROVE  PoolsInv'
<1>1. /\ DOMAIN descriptorPools' = DOMAIN descriptorPools \ {p}
      /\ \A q \in DOMAIN descriptorPools' : descriptorPools'[q] = descriptorPools[q]
      /\ descriptorPools' = [q \in DOMAIN descriptorPools' |-> descriptorPools'[q]]
  BY DEF DestroyDescriptorPool, Drop
<1>2. /\ DOMAIN descriptorSets' = {d \in DOMAIN descriptorSets : descriptorSets[d] # p}
      /\ \A d \in DOMAIN descriptorSets' : descriptorSets'[d] = descriptorSets[d]
      /\ descriptorSets' = [d \in DOMAIN descriptorSets' |-> descriptorSets'[d]]
  BY DEF DestroyDescriptorPool, Without, SetsOf
<1>3. ASSUME NEW q \in DOMAIN descriptorPools' PROVE SetsOf(q)' = SetsOf(q)
  BY <1>1, <1>2, <1>3 DEF SetsOf
<1>4. PoolsCountSets'
  BY <1>1, <1>3 DEF PoolsInv, PoolsCountSets
<1>5. IsTable(descriptorPools, DescriptorPools, 0 .. MaxSets)'
  BY <1>1 DEF PoolsInv, IsTable
<1>6. IsTable(descriptorSets, DescriptorSets, DOMAIN descriptorPools)'
  BY <1>1, <1>2 DEF PoolsInv, IsTable
<1> QED BY <1>4, <1>5, <1>6 DEF PoolsInv

\* A pool that is reset has no sets and counts none.
LEMMA ResetCounts ==
  ASSUME PoolsInv, NEW p, ResetDescriptorPool(p)
  PROVE  PoolsInv'
<1>1. /\ DOMAIN descriptorPools' = DOMAIN descriptorPools
      /\ \A q \in DOMAIN descriptorPools' :
           descriptorPools'[q] = IF q = p THEN 0 ELSE descriptorPools[q]
      /\ descriptorPools' = [q \in DOMAIN descriptorPools' |-> descriptorPools'[q]]
  BY DEF ResetDescriptorPool, PoolsInv, IsTable
<1>2. /\ DOMAIN descriptorSets' = {d \in DOMAIN descriptorSets : descriptorSets[d] # p}
      /\ \A d \in DOMAIN descriptorSets' : descriptorSets'[d] = descriptorSets[d]
      /\ descriptorSets' = [d \in DOMAIN descriptorSets' |-> descriptorSets'[d]]
  BY DEF ResetDescriptorPool, Without, SetsOf
<1>3. ASSUME NEW q \in DOMAIN descriptorPools', q # p PROVE SetsOf(q)' = SetsOf(q)
  BY <1>2, <1>3 DEF SetsOf
<1>4. SetsOf(p)' = {}
  BY <1>2 DEF SetsOf
<1>5. \A q \in DOMAIN descriptorPools' : descriptorPools'[q] = Cardinality(SetsOf(q)')
  BY <1>1, <1>3, <1>4, FS_EmptySet DEF PoolsInv, PoolsCountSets
<1>6. PoolsCountSets'
  BY <1>5 DEF PoolsCountSets
<1>7. IsTable(descriptorPools, DescriptorPools, 0 .. MaxSets)'
  BY <1>1, CommandAssumption DEF PoolsInv, IsTable
<1>8. IsTable(descriptorSets, DescriptorSets, DOMAIN descriptorPools)'
  BY <1>1, <1>2 DEF PoolsInv, IsTable
<1> QED BY <1>6, <1>7, <1>8 DEF PoolsInv

\* The pool gains the sets that were made, which had no pool before.
LEMMA AllocateCounts ==
  ASSUME PoolsInv, NEW p, NEW wanted \in SUBSET DescriptorSets, NEW made,
         AllocateDescriptorSets(p, wanted, made)
  PROVE  PoolsInv'
<1>1. /\ DOMAIN descriptorPools' = DOMAIN descriptorPools
      /\ \A q \in DOMAIN descriptorPools' :
           descriptorPools'[q] = IF q = p THEN descriptorPools[p] + Cardinality(made)
                                 ELSE descriptorPools[q]
      /\ descriptorPools' = [q \in DOMAIN descriptorPools' |-> descriptorPools'[q]]
  BY DEF AllocateDescriptorSets, PoolsInv, IsTable
<1>2. /\ DOMAIN descriptorSets' = DOMAIN descriptorSets \cup made
      /\ \A d \in DOMAIN descriptorSets' :
           descriptorSets'[d] = IF d \in made THEN p ELSE descriptorSets[d]
      /\ descriptorSets' = [d \in DOMAIN descriptorSets' |-> descriptorSets'[d]]
  BY DEF AllocateDescriptorSets
<1>3. /\ p \in DOMAIN descriptorPools /\ made \subseteq wanted
      /\ made \cap DOMAIN descriptorSets = {}
      /\ Cardinality(wanted) <= MaxSets - descriptorPools[p]
  BY DEF AllocateDescriptorSets
<1>4. /\ IsFiniteSet(made) /\ Cardinality(made) \in Nat
      /\ Cardinality(wanted) \in Nat /\ Cardinality(made) <= Cardinality(wanted)
  <2>1. IsFiniteSet(wanted)
    BY FS_Subset, CommandAssumption
  <2>2. made \in SUBSET wanted
    BY <1>3
  <2> QED BY <2>1, <2>2, FS_Subset, FS_CardinalityType
<1>5. SetsOf(p)' = SetsOf(p) \cup made /\ SetsOf(p) \cap made = {}
  BY <1>2, <1>3 DEF SetsOf
<1>6. IsFiniteSet(SetsOf(p)) /\ Cardinality(SetsOf(p)) \in Nat
  <2>1. SetsOf(p) = Members(descriptorSets, p) /\ DOMAIN descriptorSets \subseteq DescriptorSets
    BY DEF SetsOf, Members, PoolsInv, IsTable
  <2> QED BY <2>1, Finite
<1>7. Cardinality(SetsOf(p)') = descriptorPools[p] + Cardinality(made)
  <2>1. descriptorPools[p] = Cardinality(SetsOf(p))
    BY <1>3 DEF PoolsInv, PoolsCountSets
  <2>2. Cardinality(SetsOf(p) \cup made) = Cardinality(SetsOf(p)) + Cardinality(made)
    <3>1. Cardinality(SetsOf(p) \cup made)
            = Cardinality(SetsOf(p)) + Cardinality(made) - Cardinality(SetsOf(p) \cap made)
      BY <1>4, <1>6, FS_Union
    <3>2. Cardinality(SetsOf(p) \cap made) = 0
      BY <1>5, FS_EmptySet
    <3> QED BY <3>1, <3>2, <1>4, <1>6
  <2> QED BY <2>1, <2>2, <1>5
<1>8. ASSUME NEW q \in DOMAIN descriptorPools', q # p PROVE SetsOf(q)' = SetsOf(q)
  BY <1>2, <1>3, <1>8 DEF SetsOf
<1>9. \A q \in DOMAIN descriptorPools' : descriptorPools'[q] = Cardinality(SetsOf(q)')
  BY <1>1, <1>7, <1>8 DEF PoolsInv, PoolsCountSets
<1>10. PoolsCountSets'
  BY <1>9 DEF PoolsCountSets
<1>11. IsTable(descriptorPools, DescriptorPools, 0 .. MaxSets)'
  <2>1. descriptorPools[p] \in 0 .. MaxSets
    BY <1>3 DEF PoolsInv, IsTable
  <2>2. descriptorPools[p] + Cardinality(made) \in 0 .. MaxSets
    BY <2>1, <1>3, <1>4, CommandAssumption
  <2> QED BY <1>1, <2>2 DEF PoolsInv, IsTable
<1>12. IsTable(descriptorSets, DescriptorSets, DOMAIN descriptorPools)'
  BY <1>1, <1>2, <1>3 DEF PoolsInv, IsTable
<1> QED BY <1>10, <1>11, <1>12 DEF PoolsInv

\* The pool loses the sets that are freed, which were its own.
LEMMA FreeCounts ==
  ASSUME PoolsInv, NEW p, NEW gone, FreeDescriptorSets(p, gone)
  PROVE  PoolsInv'
<1>1. /\ DOMAIN descriptorPools' = DOMAIN descriptorPools
      /\ \A q \in DOMAIN descriptorPools' :
           descriptorPools'[q] = IF q = p THEN descriptorPools[p] - Cardinality(gone)
                                 ELSE descriptorPools[q]
      /\ descriptorPools' = [q \in DOMAIN descriptorPools' |-> descriptorPools'[q]]
  BY DEF FreeDescriptorSets, PoolsInv, IsTable
<1>2. /\ DOMAIN descriptorSets' = DOMAIN descriptorSets \ gone
      /\ \A d \in DOMAIN descriptorSets' : descriptorSets'[d] = descriptorSets[d]
      /\ descriptorSets' = [d \in DOMAIN descriptorSets' |-> descriptorSets'[d]]
  BY DEF FreeDescriptorSets, Without
<1>3. p \in DOMAIN descriptorPools /\ gone \subseteq SetsOf(p)
  BY DEF FreeDescriptorSets
<1>4. IsFiniteSet(SetsOf(p)) /\ Cardinality(SetsOf(p)) \in Nat
  <2>1. SetsOf(p) = Members(descriptorSets, p) /\ DOMAIN descriptorSets \subseteq DescriptorSets
    BY DEF SetsOf, Members, PoolsInv, IsTable
  <2> QED BY <2>1, Finite
<1>5. /\ SetsOf(p)' = SetsOf(p) \ gone /\ SetsOf(p) \cap gone = gone
      /\ gone \in SUBSET SetsOf(p)
  BY <1>2, <1>3 DEF SetsOf
<1>6. Cardinality(gone) \in Nat /\ Cardinality(gone) <= Cardinality(SetsOf(p))
  BY <1>4, <1>5, FS_Subset, FS_CardinalityType
<1>7. descriptorPools[p] = Cardinality(SetsOf(p))
  BY <1>3 DEF PoolsInv, PoolsCountSets
<1>8. Cardinality(SetsOf(p)') = descriptorPools[p] - Cardinality(gone)
  <2>1. Cardinality(SetsOf(p) \ gone) = Cardinality(SetsOf(p)) - Cardinality(SetsOf(p) \cap gone)
    BY <1>4, FS_Difference
  <2> QED BY <1>5, <1>7, <2>1
<1>9. ASSUME NEW q \in DOMAIN descriptorPools', q # p PROVE SetsOf(q)' = SetsOf(q)
  BY <1>2, <1>3, <1>9 DEF SetsOf
<1>10. \A q \in DOMAIN descriptorPools' : descriptorPools'[q] = Cardinality(SetsOf(q)')
  BY <1>1, <1>8, <1>9 DEF PoolsInv, PoolsCountSets
<1>11. PoolsCountSets'
  BY <1>10 DEF PoolsCountSets
<1>12. IsTable(descriptorPools, DescriptorPools, 0 .. MaxSets)'
  <2>1. descriptorPools[p] - Cardinality(gone) \in 0 .. MaxSets
    <3>1. descriptorPools[p] \in 0 .. MaxSets
      BY <1>3 DEF PoolsInv, IsTable
    <3> QED BY <3>1, <1>4, <1>6, <1>7, CommandAssumption
  <2> QED BY <1>1, <2>1 DEF PoolsInv, IsTable
<1>13. IsTable(descriptorSets, DescriptorSets, DOMAIN descriptorPools)'
  BY <1>1, <1>2 DEF PoolsInv, IsTable
<1> QED BY <1>11, <1>12, <1>13 DEF PoolsInv

\* Recording and submits leave the pools alone.
LEMMA OthersCount ==
  ASSUME PoolsInv, Recorders \/ Submits \/ UNCHANGED commandVars
  PROVE  PoolsInv'
<1>1. Recorders => UNCHANGED descriptorVars
  BY DEF Recorders, CreateCommandPool, DestroyCommandPool, ResetCommandPool,
         AllocateCommandBuffer, FreeCommandBuffer, ResetCommandBuffer, BeginCommandBuffer,
         EndCommandBuffer, BindPipeline, RecordTransfer, RecordBuild, RecordDispatch,
         RecordRays, RecordDraw, Becomes
<1>2. Submits => UNCHANGED descriptorVars
  BY DEF Submits, QueueSubmit
<1>3. UNCHANGED descriptorVars
  BY <1>1, <1>2 DEF commandVars, descriptorVars
<1> QED BY <1>3 DEF descriptorVars, PoolsInv, PoolsCountSets, SetsOf, IsTable

\* Every behaviour of the driver's command buffers and descriptor pools: each
\* pool counts the sets that are its own, so vkAllocateDescriptorSets refuses
\* exactly when the pool is full.
THEOREM PoolsCount == CommandSpec => []PoolsCountSets
<1>1. PoolsInv /\ [CommandNext]_commandVars => PoolsInv'
  <2> SUFFICES ASSUME PoolsInv, [CommandNext]_commandVars PROVE PoolsInv'
    OBVIOUS
  <2>1. CASE Recorders \/ Submits \/ UNCHANGED commandVars
    BY <2>1, OthersCount
  <2>2. ASSUME NEW p \in DescriptorPools,
               \/ CreateDescriptorPool(p) \/ DestroyDescriptorPool(p) \/ ResetDescriptorPool(p)
               \/ \E wanted, made \in SUBSET DescriptorSets :
                    AllocateDescriptorSets(p, wanted, made)
               \/ \E gone \in SUBSET DescriptorSets : FreeDescriptorSets(p, gone)
        PROVE  PoolsInv'
    BY <2>2, CreateCounts, DestroyCounts, ResetCounts, AllocateCounts, FreeCounts
  <2> QED BY <2>1, <2>2 DEF CommandNext, Descriptors
<1>2. PoolsInv => PoolsCountSets
  BY DEF PoolsInv
<1> QED BY <1>1, <1>2, PoolsInitially, PTL DEF CommandSpec

----------------------------------------------------------------------------
(* What a submit acknowledges.                                             *)

LEMMA Least ==
  ASSUME NEW S, S \subseteq Nat, S # {}
  PROVE  \E n \in S : \A m \in S : ~(m < n)
<1>1. PICK n \in S : \A m \in S : ~(<<m, n>> \in OpToRel(<, Nat))
  BY NatLessThanWellFounded, WFMin
<1> QED BY <1>1 DEF OpToRel

\* What a recursive function keeps from one value to the next, it keeps.
LEMMA StepByStep ==
  ASSUME NEW n \in Nat, NEW D, NEW f, f[0] \in D,
         \A m \in 1 .. n : f[m - 1] \in D => f[m] \in D
  PROVE  \A m \in 0 .. n : f[m] \in D
<1> DEFINE Wrong == {m \in 0 .. n : f[m] \notin D}
<1> SUFFICES ASSUME Wrong # {} PROVE FALSE
  OBVIOUS
<1>1. PICK m \in Wrong : \A k \in Wrong : ~(k < m)
  <2>1. Wrong \subseteq Nat
    OBVIOUS
  <2> HIDE DEF Wrong
  <2> QED BY <2>1, Least
<1>2. m \in 1 .. n /\ m - 1 \in 0 .. n /\ m - 1 \notin Wrong
  BY <1>1
<1> QED BY <1>1, <1>2

\* f is the recursive function of a first value and a step from each to the next.
Follows(f, top, first, next) ==
  \A m \in 0 .. top : f[m] = IF m = 0 THEN first ELSE next[<<m, f[m - 1]>>]

LEMMA Recursion ==
  ASSUME NEW top \in Nat, NEW D, NEW first \in D, NEW next \in [(1 .. top) \X D -> D]
  PROVE  \E f \in [0 .. top -> D] : Follows(f, top, first, next)
<1> DEFINE Is(f, k) ==
      \A m \in 0 .. k : f[m] = IF m = 0 THEN first ELSE next[<<m, f[m - 1]>>]
<1> DEFINE Lacking == {k \in 0 .. top : ~\E f \in [0 .. k -> D] : Is(f, k)}
<1> SUFFICES ASSUME top \in Lacking PROVE FALSE
  BY DEF Follows
<1>1. PICK k \in Lacking : \A j \in Lacking : ~(j < k)
  <2>1. Lacking \subseteq Nat
    OBVIOUS
  <2> HIDE DEF Lacking
  <2> QED BY <2>1, Least
<1>2. CASE k = 0
  <2>1. [m \in 0 .. 0 |-> first] \in [0 .. 0 -> D] /\ Is([m \in 0 .. 0 |-> first], 0)
    OBVIOUS
  <2> QED BY <1>1, <1>2, <2>1
<1>3. CASE k # 0
  <2>1. k \in 1 .. top /\ k - 1 \in 0 .. top
    BY <1>1, <1>3
  <2>a. k - 1 \notin Lacking
    <3>1. k - 1 < k
      BY <2>1
    <3> HIDE DEF Lacking
    <3> QED BY <1>1, <3>1
  <2>2. PICK f \in [0 .. k - 1 -> D] : Is(f, k - 1)
    BY <2>1, <2>a
  <2> DEFINE g == [m \in 0 .. k |-> IF m = k THEN next[<<k, f[k - 1]>>] ELSE f[m]]
  <2>3. f[k - 1] \in D /\ next[<<k, f[k - 1]>>] \in D
    BY <2>1
  <2>4. g \in [0 .. k -> D]
    BY <2>1, <2>3
  <2>5. ASSUME NEW m \in 0 .. k PROVE g[m] = IF m = 0 THEN first ELSE next[<<m, g[m - 1]>>]
    <3>1. CASE m = k
      <4>1. k - 1 \in 0 .. k /\ k - 1 # k /\ k \in 0 .. k
        BY <2>1
      <4>2. g[k - 1] = f[k - 1] /\ g[k] = next[<<k, f[k - 1]>>]
        BY <4>1
      <4> QED BY <1>3, <3>1, <4>2
    <3>2. CASE m # k
      <4>1. m \in 0 .. k - 1 /\ g[m] = f[m] /\ (m # 0 => g[m - 1] = f[m - 1])
        BY <2>1, <3>2
      <4>2. f[m] = IF m = 0 THEN first ELSE next[<<m, f[m - 1]>>]
        BY <2>2, <4>1
      <4> QED BY <4>1, <4>2
    <3> QED BY <3>1, <3>2
  <2>6. Is(g, k)
    BY <2>5
  <2> QED BY <1>1, <2>4, <2>6
<1> QED BY <1>2, <1>3

\* f holds the concatenations of the beginnings of s, the function that
\* FlattenSeq is defined with.
Beginnings(f, s, n) ==
  f = [i \in 1 .. n |-> IF i = 1 THEN s[i] ELSE f[i - 1] \o s[i]]

LEMMA BeginningsExist ==
  ASSUME NEW s
  PROVE  \A n \in Nat : \E f : Beginnings(f, s, n)
<1> DEFINE Missing == {n \in Nat : ~\E f : Beginnings(f, s, n)}
<1> SUFFICES ASSUME Missing # {} PROVE FALSE
  OBVIOUS
<1>1. PICK n \in Missing : \A m \in Missing : ~(m < n)
  <2>1. Missing \subseteq Nat
    OBVIOUS
  <2> HIDE DEF Missing
  <2> QED BY <2>1, Least
<1>2. CASE n = 0
  <2>1. Beginnings([i \in 1 .. 0 |-> s[i]], s, 0)
    BY DEF Beginnings
  <2> QED BY <1>1, <1>2, <2>1
<1>3. CASE n # 0
  <2>1. n \in Nat \ {0} /\ n - 1 \in Nat /\ n - 1 \notin Missing
    BY <1>1, <1>3
  <2>2. PICK f : Beginnings(f, s, n - 1)
    BY <2>1
  <2> DEFINE g == [i \in 1 .. n |->
                     IF i # n THEN f[i] ELSE IF n = 1 THEN s[n] ELSE f[n - 1] \o s[n]]
  <2>3. \A i \in 1 .. n - 1 :
          g[i] = f[i] /\ f[i] = IF i = 1 THEN s[i] ELSE f[i - 1] \o s[i]
    <3> TAKE i \in 1 .. n - 1
    <3>1. i \in 1 .. n /\ i # n
      BY <2>1
    <3>2. g[i] = f[i]
      BY <3>1
    <3>3. f[i] = IF i = 1 THEN s[i] ELSE f[i - 1] \o s[i]
      BY <2>2 DEF Beginnings
    <3> QED BY <3>2, <3>3
  <2>4. ASSUME NEW i \in 1 .. n
        PROVE  g[i] = IF i = 1 THEN s[i] ELSE g[i - 1] \o s[i]
    <3>1. CASE i = n
      <4>1. CASE n = 1
        BY <3>1, <4>1
      <4>2. CASE n # 1
        <5>1. n - 1 \in 1 .. n - 1
          BY <1>3, <2>1, <4>2
        <5>2. g[n - 1] = f[n - 1]
          BY <2>3, <5>1
        <5>3. g[n] = f[n - 1] \o s[n]
          <6>1. n \in 1 .. n
            BY <2>1
          <6>2. g[n] = IF n # n THEN f[n] ELSE IF n = 1 THEN s[n] ELSE f[n - 1] \o s[n]
            BY <6>1
          <6> QED BY <4>2, <6>2
        <5> QED BY <3>1, <4>2, <5>2, <5>3
      <4> QED BY <4>1, <4>2
    <3>2. CASE i # n
      <4>1. i \in 1 .. n - 1
        BY <3>2, <2>1
      <4>2. CASE i = 1
        BY <2>3, <4>1, <4>2
      <4>3. CASE i # 1
        <5>1. i - 1 \in 1 .. n - 1
          BY <4>1, <4>3
        <5>2. g[i - 1] = f[i - 1] /\ g[i] = f[i - 1] \o s[i]
          BY <2>3, <4>1, <4>3, <5>1
        <5> QED BY <4>3, <5>2
      <4> QED BY <4>2, <4>3
    <3> QED BY <3>1, <3>2
  <2>5. Beginnings(g, s, n)
    <3>1. g = [i \in 1 .. n |-> IF i = 1 THEN s[i] ELSE g[i - 1] \o s[i]]
      BY <2>4
    <3> QED BY <3>1 DEF Beginnings
  <2> QED BY <1>1, <2>5
<1> QED BY <1>2, <1>3

\* Sequences of S flattened are a sequence of S.
LEMMA Flattened ==
  ASSUME NEW S, NEW s \in Seq(Seq(S)), Len(s) # 0
  PROVE  FlattenSeq(s) \in Seq(S)
<1> DEFINE n == Len(s)
           f == CHOOSE g : Beginnings(g, s, n)
<1>1. n \in Nat \ {0} /\ \A i \in 1 .. n : s[i] \in Seq(S)
  OBVIOUS
<1>2. FlattenSeq(s) = f[n]
  BY DEF FlattenSeq, Beginnings
<1>3. Beginnings(f, s, n)
  BY <1>1, BeginningsExist
<1> HIDE DEF n, f
<1>4. \A i \in 1 .. n : f[i] = IF i = 1 THEN s[i] ELSE f[i - 1] \o s[i]
  BY <1>3 DEF Beginnings
<1> DEFINE Wrong == {i \in 1 .. n : f[i] \notin Seq(S)}
<1>5. CASE Wrong # {}
  <2>1. PICK i \in Wrong : \A j \in Wrong : ~(j < i)
    <3>1. Wrong \subseteq Nat
      BY <1>1
    <3> HIDE DEF Wrong
    <3> QED BY <1>5, <3>1, Least
  <2>2. CASE i = 1
    BY <1>1, <1>4, <2>1, <2>2
  <2>3. CASE i # 1
    <3>1. i \in 1 .. n /\ i - 1 \in 1 .. n /\ i - 1 \notin Wrong
      BY <1>1, <2>1, <2>3
    <3>2. f[i - 1] \in Seq(S) /\ s[i] \in Seq(S)
      BY <1>1, <3>1
    <3>3. f[i - 1] \o s[i] \in Seq(S)
      BY <3>2, ConcatProperties
    <3> QED BY <1>4, <2>1, <2>3, <3>1, <3>3
  <2> QED BY <2>2, <2>3
<1>6. CASE Wrong = {}
  BY <1>1, <1>2, <1>6
<1> QED BY <1>5, <1>6

\* A command buffer's record keeps its fields and holds known ray commands.
RaysOf(record) ==
  /\ DOMAIN record = {"pool", "recording", "executable", "pipeline",
                      "next", "lists", "rays", "draws"}
  /\ record.rays \in Seq(RayCommands)
RaysKnown == \A c \in DOMAIN commandBuffers : RaysOf(commandBuffers[c])

LEMMA FreshRays == \A p : RaysOf(Fresh(p))
<1> TAKE p
<1>1. Fresh(p).rays = <<>> /\ <<>> \in Seq(RayCommands)
  BY DEF Fresh
<1>2. DOMAIN Fresh(p) = {"pool", "recording", "executable", "pipeline",
                         "next", "lists", "rays", "draws"}
  BY DEF Fresh
<1> QED BY <1>1, <1>2 DEF RaysOf

LEMMA BecomesKnown ==
  ASSUME RaysKnown, NEW c, NEW record, RaysOf(record), Becomes(c, record)
  PROVE  RaysKnown'
BY DEF RaysKnown, Becomes

\* The commands that are no ray commands leave the list of the ray commands.
LEMMA OtherRecordsKnown ==
  ASSUME RaysKnown, NEW c,
         \/ BeginCommandBuffer(c) \/ EndCommandBuffer(c) \/ ResetCommandBuffer(c)
         \/ \E kind : BindPipeline(c, kind)
         \/ \E k, fails : RecordTransfer(c, k, fails)
         \/ \E fails : RecordBuild(c, fails)
         \/ RecordDispatch(c) \/ RecordDraw(c)
  PROVE  RaysKnown'
<1> DEFINE r == commandBuffers[c]
<1>1. c \in DOMAIN commandBuffers
  BY DEF BeginCommandBuffer, EndCommandBuffer, ResetCommandBuffer, BindPipeline,
         RecordTransfer, RecordBuild, RecordDispatch, RecordDraw, Recording
<1>2. RaysOf(r)
  BY <1>1 DEF RaysKnown
<1> HIDE DEF r
<1>3. \A k, fails : RaysOf(Numbered(r, k, fails))
  BY <1>2 DEF RaysOf, Numbered
<1>4. CASE BeginCommandBuffer(c) \/ ResetCommandBuffer(c)
  <2>1. RaysOf([Fresh(r.pool) EXCEPT !.recording = TRUE]) /\ RaysOf(Fresh(r.pool))
    BY FreshRays DEF RaysOf
  <2> QED BY <1>4, <2>1, BecomesKnown DEF r, BeginCommandBuffer, ResetCommandBuffer
<1>5. CASE EndCommandBuffer(c)
  <2>1. RaysOf([r EXCEPT !.recording = FALSE, !.executable = TRUE])
    BY <1>2 DEF RaysOf
  <2> QED BY <1>5, <2>1, BecomesKnown DEF r, EndCommandBuffer
<1>6. ASSUME NEW kind, BindPipeline(c, kind) PROVE RaysKnown'
  <2>1. RaysOf([r EXCEPT !.pipeline = kind])
    BY <1>2 DEF RaysOf
  <2> QED BY <1>6, <2>1, BecomesKnown DEF r, BindPipeline
<1>7. ASSUME NEW k, NEW fails, RecordTransfer(c, k, fails) PROVE RaysKnown'
  BY <1>3, <1>7, BecomesKnown DEF r, RecordTransfer
<1>8. ASSUME NEW fails, RecordBuild(c, fails) PROVE RaysKnown'
  <2>1. RaysOf([r EXCEPT !.next = @ + 1])
    BY <1>2 DEF RaysOf
  <2>2. RaysOf(IF fails THEN [r EXCEPT !.next = @ + 1] ELSE Numbered(r, "build", FALSE))
    BY <1>3, <2>1
  <2> QED BY <1>8, <2>2, BecomesKnown DEF r, RecordBuild
<1>9. CASE RecordDispatch(c)
  BY <1>3, <1>9, BecomesKnown DEF r, RecordDispatch
<1>10. CASE RecordDraw(c)
  <2>1. RaysOf([r EXCEPT !.draws = @ + 1])
    BY <1>2 DEF RaysOf
  <2> QED BY <1>10, <2>1, BecomesKnown DEF r, RecordDraw
<1> QED BY <1>4, <1>5, <1>6, <1>7, <1>8, <1>9, <1>10

LEMMA RaysRecordedKnown ==
  ASSUME RaysKnown, NEW c, NEW kind, RecordRays(c, kind)
  PROVE  RaysKnown'
<1> DEFINE r == commandBuffers[c]
<1>1. c \in DOMAIN commandBuffers /\ kind \in RayCommands
  BY DEF RecordRays, Recording
<1>2. RaysOf(r)
  BY <1>1 DEF RaysKnown
<1> HIDE DEF r
<1>3. Append(r.rays, kind) \in Seq(RayCommands)
  BY <1>1, <1>2 DEF RaysOf
<1>4. RaysOf([r EXCEPT !.rays = Append(@, kind), !.next = IF kind = "copy" THEN @ + 1 ELSE @])
  BY <1>2, <1>3 DEF RaysOf
<1> QED BY <1>4, BecomesKnown DEF r, RecordRays

LEMMA PoolsKnown ==
  ASSUME RaysKnown, NEW p,
         \/ CreateCommandPool(p) \/ DestroyCommandPool(p) \/ ResetCommandPool(p)
         \/ \E c : AllocateCommandBuffer(p, c) \/ FreeCommandBuffer(c)
  PROVE  RaysKnown'
<1>1. CASE ResetCommandPool(p)
  <2>1. DOMAIN commandBuffers' = DOMAIN commandBuffers
    BY <1>1 DEF ResetCommandPool
  <2>2. ASSUME NEW c \in DOMAIN commandBuffers PROVE RaysOf(commandBuffers'[c])
    <3> DEFINE r == commandBuffers[c]
               q == [r EXCEPT !.recording = FALSE, !.executable = FALSE,
                       !.pipeline = "none", !.next = 1, !.lists = NoLists, !.rays = <<>>]
    <3>1. RaysOf(r)
      BY DEF RaysKnown
    <3>2. commandBuffers'[c] \in {r, q}
      BY <1>1 DEF ResetCommandPool
    <3> HIDE DEF r
    <3>3. <<>> \in Seq(RayCommands)
      OBVIOUS
    <3>4. RaysOf(q)
      BY <3>1, <3>3 DEF RaysOf
    <3> QED BY <3>1, <3>2, <3>4
  <2> QED BY <2>1, <2>2 DEF RaysKnown
<1>2. CASE CreateCommandPool(p) \/ DestroyCommandPool(p)
  BY <1>2 DEF RaysKnown, CreateCommandPool, DestroyCommandPool
<1>3. ASSUME NEW c, AllocateCommandBuffer(p, c) PROVE RaysKnown'
  BY <1>3, FreshRays DEF RaysKnown, AllocateCommandBuffer, Put
<1>4. ASSUME NEW c, FreeCommandBuffer(c) PROVE RaysKnown'
  BY <1>4 DEF RaysKnown, FreeCommandBuffer, Drop
<1> QED BY <1>1, <1>2, <1>3, <1>4

\* What AcknowledgedRaysRan says of one verdict.
Of(v, kinds) == {i \in DOMAIN v.asked : v.asked[i] \in kinds}
RanOf(v) ==
  v.result = "acknowledged" =>
    \/ v.traced = Of(v, {"scene"}) /\ v.traced # {}
    \/ v.traced = DOMAIN v.asked
    \/ /\ v.traced = {} /\ Of(v, {"scene", "null"}) # {}
       /\ Of(v, {"nv", "copy", "unresolved"}) = {}

\* Each of the ways to acknowledge a submit is one of the three it may be.
LEMMA ClassifiedRan ==
  ASSUME NEW rays, \A i \in DOMAIN rays : rays[i] \in RayCommands,
         NEW manifest, NEW fallback, NEW presented,
         NEW v, v = Classified(rays, manifest, fallback, presented)
  PROVE  RanOf(v)
<1> SUFFICES ASSUME v.result = "acknowledged" PROVE RanOf(v)
  BY DEF RanOf
<1> DEFINE kinds == {rays[i] : i \in DOMAIN rays}
           probes == {i \in DOMAIN rays : rays[i] = "probe"}
           others == \/ kinds \cap {"nv", "copy", "other", "unresolved"} # {}
                     \/ Cardinality(probes) > 1
           initial == ~others /\ "null" \in kinds
<1>1. CASE "scene" \in kinds /\ v = Verdict("acknowledged", rays, SceneOnly(rays), 0)
  BY <1>1 DEF Verdict, SceneOnly, RanOf, Of
<1>2. CASE PutOff(kinds, manifest) /\ v = Verdict("acknowledged", rays, {}, 0)
  <2>1. v.traced = {} /\ v.asked = rays
    BY <1>2 DEF Verdict
  <2>2. /\ \E i \in DOMAIN rays : rays[i] = "scene"
        /\ \A i \in DOMAIN rays : rays[i] \notin {"nv", "copy", "unresolved"}
    BY <1>2 DEF PutOff
  <2> QED BY <2>1, <2>2 DEF RanOf, Of
<1>3. CASE initial /\ v = Verdict("acknowledged", rays, {}, 0)
  <2>1. v.traced = {} /\ v.asked = rays
    BY <1>3 DEF Verdict
  <2>2. /\ \E i \in DOMAIN rays : rays[i] = "null"
        /\ \A i \in DOMAIN rays : rays[i] \notin {"nv", "copy", "unresolved"}
    BY <1>3
  <2> QED BY <2>1, <2>2 DEF RanOf, Of
<1>4. CASE /\ ~others /\ "scene" \notin kinds /\ "null" \notin kinds
           /\ v = Verdict("acknowledged", rays, probes, 0)
  <2>1. \A i \in DOMAIN rays : rays[i] = "probe"
    BY <1>4, CommandAssumption
  <2> QED BY <1>4, <2>1 DEF Verdict, RanOf
<1>5. CASE /\ ~others /\ "scene" \notin kinds /\ "null" \notin kinds /\ probes = {}
           /\ v = Verdict("acknowledged", rays, {}, presented)
  <2>1. DOMAIN rays = {}
    BY <1>5, CommandAssumption
  <2> QED BY <1>5, <2>1 DEF Verdict, RanOf
<1> QED BY <1>1, <1>2, <1>3, <1>4, <1>5 DEF Classified, Verdict

LEMMA SubmitRan ==
  ASSUME RaysKnown, Submits
  PROVE  RaysKnown' /\ AcknowledgedRaysRan'
<1> PICK n \in 1 .. MaxSubmit :
      \E cs \in [1 .. n -> {c \in DOMAIN commandBuffers : commandBuffers[c].executable}] :
        QueueSubmit(cs)
  BY DEF Submits
<1>1. PICK cs \in [1 .. n -> {c \in DOMAIN commandBuffers : commandBuffers[c].executable}] :
        QueueSubmit(cs)
  OBVIOUS
<1>2. RaysKnown'
  BY <1>1 DEF QueueSubmit, recordingVars, RaysKnown
<1> DEFINE seqs == [i \in DOMAIN cs |-> commandBuffers[cs[i]].rays]
           rays == FlattenSeq(seqs)
<1>3. \A i \in DOMAIN rays : rays[i] \in RayCommands
  <2>1. \A i \in 1 .. n : commandBuffers[cs[i]].rays \in Seq(RayCommands)
    BY DEF RaysKnown, RaysOf
  <2>2. n \in Nat \ {0} /\ DOMAIN cs = 1 .. n
    BY CommandAssumption
  <2>3. seqs \in Seq(Seq(RayCommands)) /\ Len(seqs) # 0
    BY <2>1, <2>2
  <2> HIDE DEF seqs
  <2>4. rays \in Seq(RayCommands)
    BY <2>3, Flattened
  <2> HIDE DEF rays
  <2> QED BY <2>4
<1>4. \/ verdict' = Verdict("failed", rays, {}, 0)
      \/ \E manifest \in BOOLEAN, fallback \in {"built", "absent", "fails"} :
           verdict' = Classified(rays, manifest, fallback, Presented(cs))
  BY <1>1 DEF QueueSubmit
<1> HIDE DEF rays
<1>5. RanOf(verdict')
  <2>1. CASE verdict' = Verdict("failed", rays, {}, 0)
    BY <2>1 DEF Verdict, RanOf
  <2>2. CASE verdict' # Verdict("failed", rays, {}, 0)
    BY <1>3, <1>4, <2>2, ClassifiedRan
  <2> QED BY <2>1, <2>2
<1> QED BY <1>2, <1>5 DEF AcknowledgedRaysRan, RanOf, Of

\* A submit that is acknowledged has traced all of its scenes, or every ray
\* command it holds; or it holds traces of a scene or its initialization, no
\* NV command, no copy and no unresolved trace, and has traced nothing:
\* whatever ray commands its command buffers have recorded in whatever order.
THEOREM AcknowledgedRan == CommandSpec => []AcknowledgedRaysRan
<1> DEFINE Inv == RaysKnown /\ AcknowledgedRaysRan
<1>1. CommandInit => Inv
  BY DEF CommandInit, EmptyTable, RaysKnown, AcknowledgedRaysRan, NoVerdict, Verdict
<1>2. Inv /\ [CommandNext]_commandVars => Inv'
  <2> SUFFICES ASSUME Inv, [CommandNext]_commandVars PROVE Inv'
    OBVIOUS
  <2>1. CASE Submits
    BY <2>1, SubmitRan
  <2>2. CASE Recorders
    <3>1. verdict' = NoVerdict
      BY <2>2 DEF Recorders, CreateCommandPool, DestroyCommandPool, ResetCommandPool,
         AllocateCommandBuffer, FreeCommandBuffer, ResetCommandBuffer, BeginCommandBuffer,
         EndCommandBuffer, BindPipeline, RecordTransfer, RecordBuild, RecordDispatch,
         RecordRays, RecordDraw, Becomes, NotSubmitted
    <3>2. RaysKnown'
      BY <2>2, OtherRecordsKnown, RaysRecordedKnown, PoolsKnown DEF Recorders
    <3> QED BY <3>1, <3>2 DEF AcknowledgedRaysRan, NoVerdict, Verdict
  <2>3. CASE Descriptors
    <3>1. verdict' = NoVerdict /\ commandBuffers' = commandBuffers
      BY <2>3 DEF Descriptors, CreateDescriptorPool, DestroyDescriptorPool,
         ResetDescriptorPool, AllocateDescriptorSets, FreeDescriptorSets,
         DescriptorsChange, NotSubmitted, recordingVars
    <3> QED BY <3>1 DEF RaysKnown, AcknowledgedRaysRan, NoVerdict, Verdict
  <2>4. CASE UNCHANGED commandVars
    BY <2>4 DEF commandVars, RaysKnown, AcknowledgedRaysRan
  <2> QED BY <2>1, <2>2, <2>3, <2>4 DEF CommandNext
<1> QED BY <1>1, <1>2, PTL DEF CommandSpec

----------------------------------------------------------------------------
(* The replay.                                                             *)

\* The commands of a record are numbered in the order of each list, every
\* number is of one list, and the next one is of none.
Numbering(r) ==
  /\ r.next \in Nat \ {0}
  /\ r.lists \in [Lists -> Seq(Nat)]
  /\ \A k \in Lists : \A i \in 1 .. Len(r.lists[k]) :
       /\ r.lists[k][i] \in 1 .. r.next - 1
       /\ \A j \in 1 .. Len(r.lists[k]) : i < j => r.lists[k][i] < r.lists[k][j]
       /\ \A l \in Lists : \A j \in 1 .. Len(r.lists[l]) :
            r.lists[k][i] = r.lists[l][j] => k = l

\* The order s, and then the command of number n if there is one.
Taken(r, n, s) ==
  IF ListsAt(r, n) = {} THEN s ELSE Append(s, CHOOSE k \in ListsAt(r, n) : TRUE)

\* The function InOrder is defined with.
IsOrder(f, r) ==
  f = [n \in 0 .. r.next - 1 |->
        IF n = 0 THEN <<>>
        ELSE IF ListsAt(r, n) = {} THEN f[n - 1]
        ELSE Append(f[n - 1], CHOOSE k \in ListsAt(r, n) : TRUE)]
Upto(r) == CHOOSE f : IsOrder(f, r)

LEMMA TakenTypes ==
  ASSUME NEW r, NEW n, NEW s \in Seq(Lists)
  PROVE  Taken(r, n, s) \in Seq(Lists)
<1>1. CASE ListsAt(r, n) = {}
  BY <1>1 DEF Taken
<1>2. CASE ListsAt(r, n) # {}
  <2>1. (CHOOSE k \in ListsAt(r, n) : TRUE) \in Lists
    BY <1>2 DEF ListsAt
  <2> DEFINE k == CHOOSE k \in ListsAt(r, n) : TRUE
  <2>2. Taken(r, n, s) = Append(s, k)
    BY <1>2 DEF Taken
  <2> HIDE DEF k
  <2>3. k \in Lists
    BY <2>1 DEF k
  <2> QED BY <2>2, <2>3
<1> QED BY <1>1, <1>2

LEMMA OrderExists ==
  ASSUME NEW r, r.next \in Nat \ {0}
  PROVE  /\ InOrder(r) = Upto(r)[r.next - 1]
         /\ Upto(r)[0] = <<>>
         /\ \A n \in 1 .. r.next - 1 : Upto(r)[n] = Taken(r, n, Upto(r)[n - 1])
         /\ \A n \in 0 .. r.next - 1 : Upto(r)[n] \in Seq(Lists)
<1> DEFINE top == r.next - 1
           D == Seq(Lists)
           next == [p \in (1 .. top) \X D |-> Taken(r, p[1], p[2])]
<1>1. top \in Nat /\ <<>> \in D
  OBVIOUS
<1>2. next \in [(1 .. top) \X D -> D]
  <2>1. ASSUME NEW p \in (1 .. top) \X D PROVE Taken(r, p[1], p[2]) \in D
    <3>1. p[2] \in Seq(Lists)
      OBVIOUS
    <3> QED BY <3>1, TakenTypes
  <2> HIDE DEF D
  <2> QED BY <2>1
<1>3. ASSUME NEW n \in 1 .. top, NEW s \in D PROVE next[<<n, s>>] = Taken(r, n, s)
  <2> HIDE DEF D
  <2>1. <<n, s>> \in (1 .. top) \X D
    OBVIOUS
  <2> QED BY <2>1
<1> HIDE DEF D, next
<1>4. PICK f \in [0 .. top -> D] : Follows(f, top, <<>>, next)
  <2> HIDE DEF top
  <2> QED BY <1>1, <1>2, Recursion
<1>5. IsOrder(f, r)
  <2>1. ASSUME NEW n \in 0 .. top
        PROVE  f[n] = IF n = 0 THEN <<>>
                      ELSE IF ListsAt(r, n) = {} THEN f[n - 1]
                      ELSE Append(f[n - 1], CHOOSE k \in ListsAt(r, n) : TRUE)
    <3>1. CASE n = 0
      BY <1>4, <3>1 DEF Follows
    <3>2. CASE n # 0
      <4>1. n \in 1 .. top /\ f[n - 1] \in D
        BY <1>1, <3>2
      <4>2. f[n] = next[<<n, f[n - 1]>>]
        BY <1>4, <3>2 DEF Follows
      <4>3. f[n] = Taken(r, n, f[n - 1])
        BY <1>3, <4>1, <4>2
      <4> QED BY <3>2, <4>3 DEF Taken
    <3> QED BY <3>1, <3>2
  <2> QED BY <2>1 DEF IsOrder
<1>6. IsOrder(Upto(r), r)
  BY <1>5 DEF Upto
<1> DEFINE g == Upto(r)
<1> HIDE DEF g
<1>7. ASSUME NEW n \in 0 .. top
      PROVE  g[n] = IF n = 0 THEN <<>>
                    ELSE IF ListsAt(r, n) = {} THEN g[n - 1]
                    ELSE Append(g[n - 1], CHOOSE k \in ListsAt(r, n) : TRUE)
  BY <1>6 DEF IsOrder, g
<1>8. InOrder(r) = g[r.next - 1]
  BY DEF InOrder, Upto, IsOrder, g
<1>9. g[0] = <<>>
  <2>1. 0 \in 0 .. top
    BY <1>1
  <2> HIDE DEF top
  <2> QED BY <1>7, <2>1
<1>10. ASSUME NEW n \in 1 .. top PROVE g[n] = Taken(r, n, g[n - 1])
  <2>1. n \in 0 .. top /\ n # 0
    OBVIOUS
  <2> HIDE DEF top
  <2> QED BY <1>7, <2>1 DEF Taken
<1>11. \A n \in 0 .. top : g[n] \in D
  <2>1. \A n \in 1 .. top : g[n - 1] \in D => g[n] \in D
    BY <1>10, TakenTypes DEF D
  <2>2. g[0] \in D
    BY <1>1, <1>9
  <2> HIDE DEF top
  <2> QED BY <1>1, <2>1, <2>2, StepByStep
<1> QED BY <1>8, <1>9, <1>10, <1>11 DEF g, D

LEMMA OrderStep ==
  ASSUME NEW r, r.next \in Nat \ {0}, NEW n \in 1 .. r.next - 1
  PROVE  Upto(r)[n] = Taken(r, n, Upto(r)[n - 1])
BY OrderExists

LEMMA OrderEnd ==
  ASSUME NEW r, r.next \in Nat \ {0}
  PROVE  InOrder(r) = Upto(r)[r.next - 1] /\ InOrder(r) \in Seq(Lists)
<1>1. r.next - 1 \in 0 .. r.next - 1
  OBVIOUS
<1> QED BY <1>1, OrderExists

\* Numbers no list has add nothing.
LEMMA Unused ==
  ASSUME NEW r, r.next \in Nat \ {0}, NEW n \in 0 .. r.next - 1, NEW m \in n .. r.next - 1,
         \A j \in n + 1 .. m : ListsAt(r, j) = {}
  PROVE  Upto(r)[m] = Upto(r)[n]
<1> DEFINE f == [j \in 0 .. m - n |-> Upto(r)[n + j]]
           D == {Upto(r)[n]}
<1>1. f[0] \in D /\ m - n \in Nat
  OBVIOUS
<1>2. ASSUME NEW j \in 1 .. m - n, f[j - 1] \in D PROVE f[j] \in D
  <2>1. n + j \in 1 .. r.next - 1 /\ n + j \in n + 1 .. m /\ n + (j - 1) = n + j - 1
    OBVIOUS
  <2>2. Upto(r)[n + j] = Upto(r)[n + j - 1]
    BY <2>1, OrderStep DEF Taken
  <2>3. f[j] = Upto(r)[n + j] /\ f[j - 1] = Upto(r)[n + j - 1]
    BY <2>1
  <2> QED BY <1>2, <2>2, <2>3
<1> HIDE DEF f, D
<1>3. f[m - n] \in D
  BY <1>1, <1>2, StepByStep
<1> QED BY <1>3 DEF f, D

\* Records with the same numbers have the same commands up to there.
LEMMA SameNumbers ==
  ASSUME NEW r, NEW q, r.next \in Nat \ {0}, q.next \in Nat \ {0}, r.next <= q.next,
         \A n \in 1 .. r.next - 1 : ListsAt(q, n) = ListsAt(r, n)
  PROVE  Upto(q)[r.next - 1] = InOrder(r)
<1> DEFINE top == r.next - 1
           f == [n \in 0 .. top |-> <<Upto(q)[n], Upto(r)[n]>>]
           D == {<<Upto(q)[n], Upto(r)[n]>> : n \in {n \in 0 .. top : Upto(q)[n] = Upto(r)[n]}}
<1>1. f[0] \in D
  BY OrderExists
<1>2. ASSUME NEW n \in 1 .. top, f[n - 1] \in D PROVE f[n] \in D
  <2>1. Upto(q)[n - 1] = Upto(r)[n - 1]
    BY <1>2
  <2>2. n \in 1 .. q.next - 1 /\ n \in 1 .. r.next - 1
    OBVIOUS
  <2>3. Upto(q)[n] = Upto(r)[n]
    <3>1. Upto(q)[n] = Taken(q, n, Upto(q)[n - 1])
      BY <2>2, OrderStep
    <3>2. Upto(r)[n] = Taken(r, n, Upto(r)[n - 1])
      BY <2>2, OrderStep
    <3>3. ListsAt(q, n) = ListsAt(r, n)
      BY <2>2
    <3> QED BY <2>1, <3>1, <3>2, <3>3 DEF Taken
  <2> QED BY <2>2, <2>3
<1> HIDE DEF f, D
<1>3. top \in Nat
  OBVIOUS
<1>4. f[top] \in D
  <2> HIDE DEF top
  <2> QED BY <1>1, <1>2, <1>3, StepByStep
<1>5. Upto(q)[top] = Upto(r)[top]
  BY <1>3, <1>4 DEF f, D
<1> QED BY <1>5, OrderEnd

\* q is r with one more command, in list k.
OneMore(r, q, k) ==
  q.next = r.next + 1 /\ q.lists = [r.lists EXCEPT ![k] = Append(@, r.next)]

\* The next command comes last.
LEMMA OrderGrows ==
  ASSUME NEW r, NEW q, Numbering(r), NEW k \in Lists, OneMore(r, q, k)
  PROVE  Numbering(q) /\ InOrder(q) = Append(InOrder(r), k)
<1> DEFINE n == r.next
           old == r.lists
           new == q.lists
<1>1. /\ n \in Nat \ {0} /\ q.next = n + 1 /\ old \in [Lists -> Seq(Nat)]
      /\ new[k] = Append(old[k], n) /\ \A l \in Lists \ {k} : new[l] = old[l]
      /\ new \in [Lists -> Seq(Nat)]
  BY DEF Numbering, OneMore
<1>2. /\ Len(new[k]) = Len(old[k]) + 1 /\ new[k][Len(old[k]) + 1] = n
      /\ Len(old[k]) \in Nat
      /\ \A i \in 1 .. Len(old[k]) : new[k][i] = old[k][i]
  BY <1>1
<1> HIDE DEF n, old, new
<1>n. n \in Nat \ {0}
  BY <1>1
<1>a. \A l \in Lists : old[l] \in Seq(Nat) /\ new[l] \in Seq(Nat)
  BY <1>1
<1>3. ASSUME NEW l \in Lists, NEW i \in 1 .. Len(new[l])
      PROVE  \/ i \in 1 .. Len(old[l]) /\ new[l][i] = old[l][i]
             \/ l = k /\ i = Len(old[k]) + 1 /\ new[l][i] = n
  <2>1. CASE l # k
    <3>1. new[l] = old[l]
      BY <1>1, <2>1
    <3> QED BY <3>1
  <2>2. CASE l = k /\ i = Len(old[k]) + 1
    BY <1>2, <2>2
  <2>3. CASE l = k /\ i # Len(old[k]) + 1
    <3>1. i \in 1 .. Len(old[k])
      BY <1>2, <2>3
    <3> QED BY <1>2, <2>3, <3>1
  <2> QED BY <2>1, <2>2, <2>3
<1>b. ASSUME NEW l \in Lists, NEW i \in 1 .. Len(old[l])
      PROVE  i \in 1 .. Len(new[l]) /\ new[l][i] = old[l][i]
  <2>1. CASE l # k
    <3>1. new[l] = old[l]
      BY <1>1, <2>1
    <3> QED BY <3>1
  <2>2. CASE l = k
    BY <1>2, <2>2
  <2> QED BY <2>1, <2>2
<1>c. ASSUME NEW l \in Lists, NEW i \in 1 .. Len(old[l])
      PROVE  /\ old[l][i] \in 1 .. n - 1
             /\ \A j \in 1 .. Len(old[l]) : i < j => old[l][i] < old[l][j]
             /\ \A h \in Lists : \A j \in 1 .. Len(old[h]) : old[l][i] = old[h][j] => l = h
  BY DEF Numbering, n, old
<1>4. ASSUME NEW l \in Lists, NEW i \in 1 .. Len(old[l])
      PROVE  /\ i \in 1 .. Len(new[l]) /\ new[l][i] = old[l][i]
             /\ old[l][i] \in Nat /\ 0 < old[l][i] /\ old[l][i] < n
  <2>1. old[l][i] \in 1 .. n - 1
    BY <1>c
  <2>2. old[l][i] \in Nat /\ 0 < old[l][i] /\ old[l][i] < n
    BY <1>n, <2>1
  <2> QED BY <1>b, <2>2
<1>5. Numbering(q)
  <2>1. ASSUME NEW l \in Lists, NEW i \in 1 .. Len(new[l])
        PROVE  /\ new[l][i] \in 1 .. n
               /\ \A j \in 1 .. Len(new[l]) : i < j => new[l][i] < new[l][j]
               /\ \A h \in Lists : \A j \in 1 .. Len(new[h]) : new[l][i] = new[h][j] => l = h
    <3>1. new[l][i] \in 1 .. n
      <4>1. CASE i \in 1 .. Len(old[l]) /\ new[l][i] = old[l][i]
        <5>1. old[l][i] \in 1 .. n - 1
          BY <1>c, <4>1
        <5> QED BY <1>n, <4>1, <5>1
      <4>2. CASE new[l][i] = n
        BY <1>n, <4>2
      <4> QED BY <1>3, <4>1, <4>2
    <3>2. ASSUME NEW j \in 1 .. Len(new[l]), i < j PROVE new[l][i] < new[l][j]
      <4>1. CASE j \in 1 .. Len(old[l]) /\ new[l][j] = old[l][j]
        <5>1. Len(old[l]) \in Nat
          BY <1>1
        <5>2. i \in 1 .. Len(old[l])
          BY <3>2, <4>1, <5>1
        <5> QED BY <1>4, <1>c, <3>2, <4>1, <5>2
      <4>2. CASE l = k /\ j = Len(old[k]) + 1 /\ new[l][j] = n
        <5>1. i \in 1 .. Len(old[l])
          BY <1>2, <3>2, <4>2
        <5> QED BY <1>4, <4>2, <5>1
      <4> QED BY <1>3, <4>1, <4>2
    <3>3. ASSUME NEW h \in Lists, NEW j \in 1 .. Len(new[h]), new[l][i] = new[h][j] PROVE l = h
      <4>1. CASE i \in 1 .. Len(old[l]) /\ j \in 1 .. Len(old[h])
        BY <1>b, <1>c, <3>3, <4>1
      <4>2. CASE i \notin 1 .. Len(old[l])
        <5>1. l = k /\ new[l][i] = n
          BY <1>3, <4>2
        <5>2. ~(j \in 1 .. Len(old[h]) /\ new[h][j] = old[h][j])
          BY <1>n, <1>4, <3>3, <5>1
        <5> QED BY <1>3, <5>1, <5>2
      <4>3. CASE j \notin 1 .. Len(old[h])
        <5>1. h = k /\ new[h][j] = n
          BY <1>3, <4>3
        <5>2. ~(i \in 1 .. Len(old[l]) /\ new[l][i] = old[l][i])
          BY <1>n, <1>4, <3>3, <5>1
        <5> QED BY <1>3, <5>1, <5>2
      <4> QED BY <4>1, <4>2, <4>3
    <3> QED BY <3>1, <3>2, <3>3
  <2>2. q.next - 1 = n /\ q.next \in Nat \ {0}
    BY <1>1
  <2> QED BY <1>1, <2>1, <2>2 DEF Numbering, new
<1>6. ASSUME NEW m \in 1 .. n - 1 PROVE ListsAt(q, m) = ListsAt(r, m)
  <2>1. \A l \in Lists : (\E i \in 1 .. Len(new[l]) : new[l][i] = m)
                          <=> (\E i \in 1 .. Len(old[l]) : old[l][i] = m)
    <3>1. m # n
      BY <1>1
    <3> QED BY <1>3, <1>b, <3>1
  <2>2. \A l \in Lists : DOMAIN new[l] = 1 .. Len(new[l]) /\ DOMAIN old[l] = 1 .. Len(old[l])
    BY <1>1
  <2> QED BY <2>1, <2>2 DEF ListsAt, new, old
<1>7. ListsAt(q, n) = {k}
  <2>1. \A l \in Lists : (\E i \in 1 .. Len(new[l]) : new[l][i] = n) <=> l = k
    BY <1>1, <1>2, <1>3, <1>4
  <2>2. \A l \in Lists : DOMAIN new[l] = 1 .. Len(new[l])
    BY <1>1
  <2> QED BY <2>1, <2>2 DEF ListsAt, new
<1>8. Upto(q)[n - 1] = InOrder(r)
  <2>1. q.next \in Nat \ {0} /\ r.next \in Nat \ {0} /\ r.next <= q.next
    BY <1>1 DEF n
  <2> QED BY <1>6, <2>1, SameNumbers DEF n
<1>9. n \in 1 .. q.next - 1 /\ q.next - 1 = n /\ q.next \in Nat \ {0}
  BY <1>1
<1>10. Upto(q)[n] = Append(Upto(q)[n - 1], k)
  <2>1. Upto(q)[n] = Taken(q, n, Upto(q)[n - 1])
    BY <1>9, OrderStep
  <2>2. (CHOOSE l \in {k} : TRUE) = k
    OBVIOUS
  <2> QED BY <1>7, <2>1, <2>2 DEF Taken
<1>11. InOrder(q) = Upto(q)[n]
  BY <1>9, OrderEnd
<1> QED BY <1>5, <1>8, <1>10, <1>11

\* A number no list takes is left out.
LEMMA OrderStays ==
  ASSUME NEW r, NEW q, Numbering(r), q.next \in {r.next, r.next + 1}, q.lists = r.lists
  PROVE  Numbering(q) /\ InOrder(q) = InOrder(r)
<1>1. r.next \in Nat \ {0} /\ q.next \in Nat \ {0} /\ r.next <= q.next
  BY DEF Numbering
<1>2. Numbering(q)
  <2>1. \A x \in 1 .. r.next - 1 : x \in 1 .. q.next - 1
    BY <1>1
  <2> QED BY <1>1, <2>1 DEF Numbering
<1>3. \A n : ListsAt(q, n) = ListsAt(r, n)
  BY DEF ListsAt
<1>4. Upto(q)[r.next - 1] = InOrder(r)
  BY <1>1, <1>3, SameNumbers
<1>5. CASE q.next = r.next
  <2>1. InOrder(q) = Upto(q)[q.next - 1]
    BY <1>1, OrderEnd
  <2> QED BY <1>2, <1>4, <1>5, <2>1
<1>6. CASE q.next = r.next + 1
  <2>1. ListsAt(q, r.next) = {}
    <3>1. \A k \in Lists : \A i \in DOMAIN r.lists[k] : r.lists[k][i] # r.next
      BY <1>1 DEF Numbering
    <3> QED BY <1>3, <3>1 DEF ListsAt
  <2>2. r.next \in 1 .. q.next - 1 /\ q.next - 1 = r.next
    BY <1>1, <1>6
  <2>3. Upto(q)[r.next] = Upto(q)[r.next - 1]
    <3>1. Upto(q)[r.next] = Taken(q, r.next, Upto(q)[r.next - 1])
      BY <1>1, <2>2, OrderStep
    <3> QED BY <2>1, <3>1 DEF Taken
  <2>4. InOrder(q) = Upto(q)[q.next - 1]
    BY <1>1, OrderEnd
  <2> QED BY <1>2, <1>4, <2>2, <2>3, <2>4
<1> QED BY <1>2, <1>5, <1>6

\* A place in every list.
Indexes == [Lists -> Nat \ {0}]

LEMMA NumberAt == ASSUME NEW s \in Seq(Nat), NEW i \in 1 .. Len(s) PROVE s[i] \in Nat
OBVIOUS

\* The list replayed next has the smallest number.
LEMMA NextIs ==
  ASSUME NEW r, Numbering(r), NEW index \in Indexes, Unreplayed(r, index) # {}
  PROVE  /\ NextList(r, index) \in Unreplayed(r, index)
         /\ \A j \in Unreplayed(r, index) :
              r.lists[NextList(r, index)][index[NextList(r, index)]] <= r.lists[j][index[j]]
<1> DEFINE U == Unreplayed(r, index)
           number(k) == r.lists[k][index[k]]
           S == {number(k) : k \in U}
<1>1. \A k \in U : number(k) \in Nat
  <2>1. ASSUME NEW k \in U PROVE number(k) \in Nat
    <3>1. k \in Lists /\ index[k] \in Nat \ {0} /\ index[k] <= Len(r.lists[k])
      BY DEF Unreplayed, Indexes
    <3>2. r.lists[k] \in Seq(Nat)
      BY <3>1 DEF Numbering
    <3>3. index[k] \in 1 .. Len(r.lists[k])
      BY <3>1, <3>2
    <3> QED BY <3>2, <3>3, NumberAt
  <2> QED BY <2>1
<1> HIDE DEF U, number
<1>2. S \subseteq Nat /\ S # {}
  BY <1>1 DEF U
<1>3. PICK n \in S : \A m \in S : ~(m < n)
  <2> HIDE DEF S
  <2> QED BY <1>2, Least
<1>4. PICK k \in U : n = number(k)
  BY <1>3
<1>5. \A j \in U : number(k) <= number(j)
  BY <1>1, <1>3, <1>4
<1>6. \E x \in U : \A j \in U : r.lists[x][index[x]] <= r.lists[j][index[j]]
  BY <1>5 DEF number
<1>7. NextList(r, index) =
        CHOOSE x \in U : \A j \in U : r.lists[x][index[x]] <= r.lists[j][index[j]]
  BY DEF NextList, U
<1>8. /\ NextList(r, index) \in U
      /\ \A j \in U : r.lists[NextList(r, index)][index[NextList(r, index)]]
                       <= r.lists[j][index[j]]
  BY <1>6, <1>7
<1> QED BY <1>8 DEF U

States == [index : Indexes, order : Seq(Lists)]
Begun == [index |-> [k \in Lists |-> 1], order |-> <<>>]
\* One turn of the loop, if there is one.
Turned(r, state) ==
  IF Unreplayed(r, state.index) = {} THEN state
  ELSE Replayed(state, NextList(r, state.index))

LEMMA TurnedTypes ==
  ASSUME NEW r, Numbering(r), NEW state \in States
  PROVE  Turned(r, state) \in States
<1>1. CASE Unreplayed(r, state.index) = {}
  BY <1>1 DEF Turned
<1>2. CASE Unreplayed(r, state.index) # {}
  <2> DEFINE k == NextList(r, state.index)
  <2>1. state.index \in Indexes /\ state.order \in Seq(Lists)
    BY DEF States
  <2>2. k \in Lists
    BY <1>2, <2>1, NextIs DEF Unreplayed
  <2> HIDE DEF k
  <2>3. [state.index EXCEPT ![k] = @ + 1] \in Indexes
    BY <2>1, <2>2 DEF Indexes
  <2>4. Append(state.order, k) \in Seq(Lists)
    BY <2>1, <2>2
  <2>5. Turned(r, state) = Replayed(state, k)
    BY <1>2 DEF Turned, k
  <2> QED BY <2>3, <2>4, <2>5 DEF Replayed, States
<1> QED BY <1>1, <1>2

\* The function ReplayOrder is defined with.
IsReplay(f, r) ==
  f = [n \in 0 .. r.next - 1 |->
        IF n = 0 THEN [index |-> [k \in Lists |-> 1], order |-> <<>>]
        ELSE IF Unreplayed(r, f[n - 1].index) = {} THEN f[n - 1]
        ELSE Replayed(f[n - 1], NextList(r, f[n - 1].index))]
Turns(r) == CHOOSE f : IsReplay(f, r)

LEMMA ReplayExists ==
  ASSUME NEW r, Numbering(r)
  PROVE  /\ ReplayOrder(r) = Turns(r)[r.next - 1].order
         /\ Turns(r)[0] = Begun
         /\ \A n \in 1 .. r.next - 1 : Turns(r)[n] = Turned(r, Turns(r)[n - 1])
         /\ \A n \in 0 .. r.next - 1 : Turns(r)[n] \in States
<1> DEFINE top == r.next - 1
           next == [p \in (1 .. top) \X States |-> Turned(r, p[2])]
<1>1. top \in Nat /\ Begun \in States
  BY DEF Numbering, Begun, States, Indexes
<1>2. next \in [(1 .. top) \X States -> States]
  BY TurnedTypes
<1>3. ASSUME NEW n \in 1 .. top, NEW s \in States PROVE next[<<n, s>>] = Turned(r, s)
  <2>1. <<n, s>> \in (1 .. top) \X States
    OBVIOUS
  <2> QED BY <2>1
<1> HIDE DEF next
<1>4. PICK f \in [0 .. top -> States] : Follows(f, top, Begun, next)
  <2> HIDE DEF top
  <2> QED BY <1>1, <1>2, Recursion
<1>5. IsReplay(f, r)
  <2>1. ASSUME NEW n \in 0 .. top
        PROVE  f[n] = IF n = 0 THEN [index |-> [k \in Lists |-> 1], order |-> <<>>]
                      ELSE IF Unreplayed(r, f[n - 1].index) = {} THEN f[n - 1]
                      ELSE Replayed(f[n - 1], NextList(r, f[n - 1].index))
    <3>1. CASE n = 0
      BY <1>4, <3>1 DEF Follows, Begun
    <3>2. CASE n # 0
      <4>1. n \in 1 .. top /\ f[n - 1] \in States
        BY <1>1, <3>2
      <4>2. f[n] = next[<<n, f[n - 1]>>]
        BY <1>4, <3>2 DEF Follows
      <4>3. f[n] = Turned(r, f[n - 1])
        BY <1>3, <4>1, <4>2
      <4> QED BY <3>2, <4>3 DEF Turned
    <3> QED BY <3>1, <3>2
  <2> QED BY <2>1 DEF IsReplay
<1>6. IsReplay(Turns(r), r)
  BY <1>5 DEF Turns
<1> DEFINE g == Turns(r)
<1> HIDE DEF g
<1>7. ASSUME NEW n \in 0 .. top
      PROVE  g[n] = IF n = 0 THEN [index |-> [k \in Lists |-> 1], order |-> <<>>]
                    ELSE IF Unreplayed(r, g[n - 1].index) = {} THEN g[n - 1]
                    ELSE Replayed(g[n - 1], NextList(r, g[n - 1].index))
  BY <1>6 DEF IsReplay, g
<1>8. ReplayOrder(r) = g[r.next - 1].order
  BY DEF ReplayOrder, Turns, IsReplay, g
<1>9. g[0] = Begun
  <2>1. 0 \in 0 .. top
    BY <1>1
  <2> HIDE DEF top
  <2> QED BY <1>7, <2>1 DEF Begun
<1>10. ASSUME NEW n \in 1 .. top PROVE g[n] = Turned(r, g[n - 1])
  <2>1. n \in 0 .. top /\ n # 0
    OBVIOUS
  <2> HIDE DEF top
  <2> QED BY <1>7, <2>1 DEF Turned
<1>11. \A n \in 0 .. top : g[n] \in States
  <2>1. \A n \in 1 .. top : g[n - 1] \in States => g[n] \in States
    BY <1>10, TurnedTypes
  <2>2. g[0] \in States
    BY <1>1, <1>9
  <2> HIDE DEF top
  <2> QED BY <1>1, <2>1, <2>2, StepByStep
<1> QED BY <1>8, <1>9, <1>10, <1>11 DEF g

\* The replay has come to the number t: it has run the commands up to there.
Reached(r, state, t) ==
  /\ \A k \in Lists : \A i \in 1 .. Len(r.lists[k]) :
       i < state.index[k] <=> r.lists[k][i] <= t
  /\ state.order = Upto(r)[t]

\* After m turns it has come to m at least, or to the end.
Progress(r, state, m) ==
  \E t \in 0 .. r.next - 1 :
    Reached(r, state, t) /\ (Unreplayed(r, state.index) = {} \/ t >= m)

LEMMA TurnReaches ==
  ASSUME NEW r, Numbering(r), NEW state \in States, NEW m \in 1 .. r.next - 1,
         Progress(r, state, m - 1)
  PROVE  Progress(r, Turned(r, state), m)
<1>1. PICK t \in 0 .. r.next - 1 :
        Reached(r, state, t) /\ (Unreplayed(r, state.index) = {} \/ t >= m - 1)
  BY DEF Progress
<1>2. CASE Unreplayed(r, state.index) = {}
  BY <1>1, <1>2 DEF Progress, Turned
<1>3. CASE Unreplayed(r, state.index) # {}
  <2> DEFINE index == state.index
             k == NextList(r, index)
             n == r.lists[k][index[k]]
             new == Turned(r, state)
  <2>1. index \in Indexes
    BY DEF States
  <2>2. /\ k \in Lists /\ index[k] <= Len(r.lists[k])
        /\ \A j \in Unreplayed(r, index) : n <= r.lists[j][index[j]]
    BY <1>3, <2>1, NextIs DEF Unreplayed
  <2>3. /\ new.index = [index EXCEPT ![k] = @ + 1]
        /\ new.order = Append(state.order, k)
    BY <1>3 DEF Turned, Replayed
  <2> HIDE DEF k, new, index
  <2>4. \A l \in Lists : index[l] \in Nat \ {0} /\ r.lists[l] \in Seq(Nat)
    BY <2>1 DEF Indexes, Numbering
  <2>5. index[k] \in 1 .. Len(r.lists[k]) /\ n \in 1 .. r.next - 1 /\ n > t
    <3>1. index[k] \in 1 .. Len(r.lists[k])
      BY <2>2, <2>4
    <3>2. n \in 1 .. r.next - 1
      BY <2>2, <3>1 DEF Numbering
    <3>3. ~(n <= t)
      BY <1>1, <2>2, <2>4, <3>1 DEF Reached, index
    <3> QED BY <3>1, <3>2, <3>3
  <2>6. ASSUME NEW l \in Lists, NEW i \in 1 .. Len(r.lists[l]), r.lists[l][i] > t
        PROVE  r.lists[l][i] >= n
    <3>1. r.lists[l][i] \in Nat
      BY <2>4
    <3>2. ~(i < index[l])
      BY <1>1, <2>6, <3>1 DEF Reached, index
    <3>3. index[l] \in 1 .. Len(r.lists[l])
      BY <2>4, <3>2
    <3>4. l \in Unreplayed(r, index)
      BY <3>3 DEF Unreplayed
    <3>5. n <= r.lists[l][index[l]]
      BY <2>2, <3>4
    <3>6. r.lists[l][index[l]] \in Nat
      BY <2>4, <3>3, NumberAt
    <3>7. index[l] = i \/ index[l] < i
      BY <2>4, <3>2
    <3>8. r.lists[l][index[l]] <= r.lists[l][i]
      <4>1. index[l] < i => r.lists[l][index[l]] < r.lists[l][i]
        BY <3>3 DEF Numbering
      <4> QED BY <3>1, <3>6, <3>7, <4>1
    <3> HIDE DEF n
    <3> QED BY <2>5, <3>1, <3>5, <3>6, <3>8
  <2>7. \A j \in t + 1 .. n - 1 : ListsAt(r, j) = {}
    <3>1. \A l \in Lists : DOMAIN r.lists[l] = 1 .. Len(r.lists[l])
      BY <2>4
    <3>2. r.next \in Nat
      BY DEF Numbering
    <3> HIDE DEF n
    <3>3. ASSUME NEW j \in t + 1 .. n - 1, NEW l \in Lists, NEW i \in DOMAIN r.lists[l]
          PROVE  r.lists[l][i] # j
      <4>1. i \in 1 .. Len(r.lists[l])
        BY <3>1
      <4>2. t \in Nat /\ n \in Nat
        BY <2>5, <3>2
      <4>3. j \in Int /\ j > t /\ ~(j >= n)
        BY <4>2
      <4> QED BY <2>6, <4>1, <4>3
    <3> QED BY <3>3 DEF ListsAt
  <2>8. ListsAt(r, n) = {k}
    <3>1. \A l \in Lists : DOMAIN r.lists[l] = 1 .. Len(r.lists[l])
      BY <2>4
    <3>2. \A l \in Lists : \A i \in 1 .. Len(r.lists[l]) : r.lists[l][i] = n => l = k
      BY <2>2, <2>5 DEF Numbering
    <3>3. k \in ListsAt(r, n)
      BY <2>2, <2>5, <3>1 DEF ListsAt
    <3> HIDE DEF n
    <3> QED BY <3>1, <3>2, <3>3 DEF ListsAt
  <2>9. Upto(r)[n] = Append(Upto(r)[t], k)
    <3>1. r.next \in Nat \ {0}
      BY DEF Numbering
    <3> HIDE DEF n
    <3>2. n - 1 \in t .. r.next - 1 /\ n - 1 \in Int /\ (n - 1) + 1 = n
      BY <2>5, <3>1
    <3>3. Upto(r)[n - 1] = Upto(r)[t]
      BY <2>7, <3>1, <3>2, Unused
    <3>4. Upto(r)[n] = Taken(r, n, Upto(r)[n - 1])
      BY <2>5, <3>1, OrderStep
    <3>5. (CHOOSE l \in {k} : TRUE) = k
      OBVIOUS
    <3> QED BY <2>8, <3>3, <3>4, <3>5 DEF Taken
  <2>10. ASSUME NEW l \in Lists, NEW i \in 1 .. Len(r.lists[l])
         PROVE  i < new.index[l] <=> r.lists[l][i] <= n
    <3>1. r.lists[l][i] \in Nat /\ i \in Nat
      BY <2>4
    <3>2. CASE l # k
      <4>1. new.index[l] = index[l]
        BY <2>1, <2>3, <3>2 DEF Indexes
      <4>2. r.lists[l][i] # n
        BY <2>2, <2>5, <3>2 DEF Numbering
      <4>3. i < index[l] <=> r.lists[l][i] <= t
        BY <1>1 DEF Reached, index
      <4> HIDE DEF n
      <4> QED BY <2>5, <2>6, <3>1, <4>1, <4>2, <4>3
    <3>3. CASE l = k
      <4>1. new.index[l] = index[k] + 1
        BY <2>1, <2>2, <2>3, <3>3 DEF Indexes
      <4>2. i < index[k] => r.lists[k][i] < n
        BY <2>2, <2>5, <3>3 DEF Numbering
      <4>3. index[k] < i => n < r.lists[k][i]
        BY <2>2, <2>5, <3>3 DEF Numbering
      <4>4. i = index[k] => r.lists[k][i] = n
        OBVIOUS
      <4> HIDE DEF n
      <4> QED BY <2>5, <3>1, <3>3, <4>1, <4>2, <4>3, <4>4
    <3> QED BY <3>2, <3>3
  <2>11. n \in 0 .. r.next - 1 /\ n >= m
    <3> HIDE DEF n
    <3> QED BY <1>1, <1>3, <2>5 DEF index
  <2>12. new.order = Upto(r)[n]
    BY <1>1, <2>3, <2>9 DEF Reached
  <2>13. Reached(r, new, n)
    <3> HIDE DEF n
    <3> QED BY <2>10, <2>12 DEF Reached
  <2> HIDE DEF n
  <2> QED BY <2>11, <2>13 DEF Progress, new
<1> QED BY <1>2, <1>3

\* executeRecordedCommandsLocked runs the commands in their order.
LEMMA Replays ==
  ASSUME NEW r, Numbering(r)
  PROVE  ReplayOrder(r) = InOrder(r) /\ ReplayOrder(r) \in Seq(Lists)
<1> DEFINE top == r.next - 1
           f == [m \in 0 .. top |-> <<m, Turns(r)[m]>>]
           D == {p \in (0 .. top) \X States : Progress(r, p[2], p[1])}
<1>1. top \in Nat /\ r.next \in Nat \ {0}
  BY DEF Numbering
<1>2. Progress(r, Begun, 0)
  <2>1. ASSUME NEW k \in Lists, NEW i \in 1 .. Len(r.lists[k])
        PROVE  i < Begun.index[k] <=> r.lists[k][i] <= 0
    <3>1. Begun.index[k] = 1
      BY DEF Begun
    <3>2. r.lists[k][i] \in 1 .. r.next - 1
      BY DEF Numbering
    <3> QED BY <1>1, <3>1, <3>2
  <2>2. Begun.order = Upto(r)[0]
    BY <1>1, OrderExists DEF Begun
  <2>3. Reached(r, Begun, 0)
    BY <2>1, <2>2 DEF Reached
  <2> QED BY <1>1, <2>3 DEF Progress
<1> HIDE DEF top
<1>3. /\ Turns(r)[0] = Begun
      /\ \A m \in 0 .. top : Turns(r)[m] \in States
      /\ \A m \in 1 .. top : Turns(r)[m] = Turned(r, Turns(r)[m - 1])
  BY ReplayExists DEF top
<1>4. f[0] \in D
  BY <1>1, <1>2, <1>3
<1>5. ASSUME NEW m \in 1 .. top, f[m - 1] \in D PROVE f[m] \in D
  <2>1. m - 1 \in 0 .. top /\ m \in 0 .. top
    BY <1>1
  <2>2. Progress(r, Turns(r)[m - 1], m - 1)
    BY <1>5, <2>1
  <2>3. Progress(r, Turned(r, Turns(r)[m - 1]), m)
    BY <1>3, <2>1, <2>2, TurnReaches DEF top
  <2> QED BY <1>3, <2>1, <2>3
<1>6. f[top] \in D
  <2> HIDE DEF f, D
  <2> QED BY <1>1, <1>4, <1>5, StepByStep
<1>7. Progress(r, Turns(r)[top], top)
  BY <1>1, <1>6
<1> DEFINE last == Turns(r)[top]
<1>8. PICK t \in 0 .. top :
        Reached(r, last, t) /\ (Unreplayed(r, last.index) = {} \/ t >= top)
  BY <1>7 DEF Progress, top
<1>9. last \in States
  BY <1>1, <1>3
<1> HIDE DEF last
<1>10. \A j \in t + 1 .. top : ListsAt(r, j) = {}
  <2>1. CASE t >= top
    BY <1>1, <2>1
  <2>2. CASE Unreplayed(r, last.index) = {}
    <3>1. ASSUME NEW k \in Lists, NEW i \in DOMAIN r.lists[k]
          PROVE  r.lists[k][i] <= t
      <4>1. last.index[k] \in Nat \ {0} /\ r.lists[k] \in Seq(Nat)
        BY <1>9 DEF States, Indexes, Numbering
      <4>2. ~(last.index[k] <= Len(r.lists[k]))
        BY <2>2 DEF Unreplayed
      <4>3. i \in 1 .. Len(r.lists[k]) /\ i < last.index[k]
        BY <4>1, <4>2
      <4> QED BY <1>8, <4>3 DEF Reached
    <3> QED BY <1>1, <3>1 DEF ListsAt
  <2> QED BY <1>8, <2>1, <2>2
<1>11. Upto(r)[top] = Upto(r)[t]
  <2>1. t \in 0 .. r.next - 1 /\ top \in t .. r.next - 1
    BY <1>1 DEF top
  <2> QED BY <1>1, <1>10, <2>1, Unused
<1>12. ReplayOrder(r) = last.order /\ last.order = Upto(r)[t]
  BY <1>8, ReplayExists DEF Reached, last, top
<1>13. InOrder(r) = Upto(r)[top]
  BY <1>1, OrderEnd DEF top
<1> QED BY <1>1, <1>11, <1>12, <1>13, OrderEnd

\* What the replay needs of a command buffer's record.
CommandsOf(r) ==
  /\ DOMAIN r = {"pool", "recording", "executable", "pipeline",
                 "next", "lists", "rays", "draws"}
  /\ r.recording \in BOOLEAN /\ r.executable \in BOOLEAN
  /\ ~(r.recording /\ r.executable)
  /\ Numbering(r)
  /\ r.draws \in 0 .. MaxDraws

\* Every command buffer's commands are numbered, and Vulkan knows the buffer.
LogInv ==
  /\ DOMAIN commandBuffers \subseteq CommandBuffers
  /\ \A c \in DOMAIN commandBuffers : CommandsOf(commandBuffers[c])

\* A record without commands
LEMMA NoCommands ==
  ASSUME NEW r, r.next = 1, r.lists = NoLists
  PROVE  Numbering(r) /\ InOrder(r) = <<>>
<1>1. r.next \in Nat \ {0} /\ r.next - 1 = 0
  OBVIOUS
<1>2. NoLists \in [Lists -> Seq(Nat)] /\ \A k \in Lists : Len(NoLists[k]) = 0
  BY DEF NoLists
<1>3. Numbering(r)
  BY <1>1, <1>2 DEF Numbering
<1>4. InOrder(r) = <<>>
  BY <1>1, OrderEnd, OrderExists
<1> QED BY <1>3, <1>4

LEMMA FreshCommands ==
  ASSUME NEW p
  PROVE  /\ CommandsOf(Fresh(p)) /\ LogOf(Fresh(p)) = Log!Empty("initial")
         /\ CommandsOf([Fresh(p) EXCEPT !.recording = TRUE])
         /\ LogOf([Fresh(p) EXCEPT !.recording = TRUE]) = Log!Empty("recording")
<1> DEFINE q == [Fresh(p) EXCEPT !.recording = TRUE]
<1>1. /\ q.next = 1 /\ q.lists = NoLists /\ q.draws = 0 /\ q.recording = TRUE
      /\ q.executable = FALSE
      /\ DOMAIN q = {"pool", "recording", "executable", "pipeline",
                     "next", "lists", "rays", "draws"}
  BY DEF Fresh
<1>2. /\ Fresh(p).next = 1 /\ Fresh(p).lists = NoLists /\ Fresh(p).draws = 0
      /\ Fresh(p).recording = FALSE /\ Fresh(p).executable = FALSE
      /\ DOMAIN Fresh(p) = {"pool", "recording", "executable", "pipeline",
                            "next", "lists", "rays", "draws"}
  BY DEF Fresh
<1> HIDE DEF q
<1>3. Numbering(q) /\ InOrder(q) = <<>> /\ Numbering(Fresh(p))
  BY <1>1, <1>2, NoCommands
<1>a. 0 \in 0 .. MaxDraws
  BY CommandAssumption
<1>4. CommandsOf(q) /\ CommandsOf(Fresh(p))
  BY <1>1, <1>2, <1>3, <1>a DEF CommandsOf
<1>5. LogOf(q) = Log!Empty("recording") /\ LogOf(Fresh(p)) = Log!Empty("initial")
  BY <1>1, <1>2, <1>3 DEF LogOf, Log!Empty
<1> QED BY <1>4, <1>5 DEF q

LEMMA DoneNothing == ASSUME NotSubmitted PROVE Done' = Log!Nothing
BY DEF NotSubmitted, Done, NoVerdict, Verdict, Log!Nothing

LEMMA InLogs ==
  /\ DOMAIN Logs = DOMAIN commandBuffers
  /\ \A c \in DOMAIN commandBuffers : Logs[c] = LogOf(commandBuffers[c])
BY DEF Logs

\* A step that changes no log is one that frees none.
LEMMA Quiet ==
  ASSUME NotSubmitted, Logs' = Logs
  PROVE  Log!Next
<1>1. Logs = [c \in DOMAIN Logs \ {} |-> Logs[c]]
  BY DEF Logs
<1>2. Log!Free({})
  BY <1>1, DoneNothing DEF Log!Free
<1> QED BY <1>2 DEF Log!Next

\* The change of one record changes one log.
LEMMA OneLog ==
  ASSUME LogInv, NEW c, c \in DOMAIN commandBuffers, NEW q, CommandsOf(q), Becomes(c, q)
  PROVE  /\ LogInv' /\ Logs' = [Logs EXCEPT ![c] = LogOf(q)] /\ Done' = Log!Nothing
         /\ c \in CommandBuffers /\ c \in DOMAIN Logs
         /\ Logs[c] = LogOf(commandBuffers[c])
<1>1. commandBuffers' = [commandBuffers EXCEPT ![c] = q] /\ NotSubmitted
  BY DEF Becomes
<1>2. LogInv'
  BY <1>1 DEF LogInv
<1>3. \A d \in DOMAIN commandBuffers :
        commandBuffers'[d] = IF d = c THEN q ELSE commandBuffers[d]
  BY <1>1
<1>4. DOMAIN commandBuffers' = DOMAIN commandBuffers
  BY <1>1
<1>5. Logs' = [d \in DOMAIN commandBuffers |-> LogOf(commandBuffers'[d])]
  BY <1>4 DEF Logs
<1>6. Logs' = [Logs EXCEPT ![c] = LogOf(q)]
  BY <1>3, <1>5 DEF Logs
<1> QED BY <1>1, <1>2, <1>6, DoneNothing DEF LogInv, Logs

\* What a record with its lists unchanged says.
LEMMA CommandsStay ==
  ASSUME NEW r, CommandsOf(r), NEW q, DOMAIN q = DOMAIN r,
         q.recording \in BOOLEAN, q.executable \in BOOLEAN, ~(q.recording /\ q.executable),
         q.next \in {r.next, r.next + 1}, q.lists = r.lists, q.draws \in 0 .. MaxDraws
  PROVE  CommandsOf(q) /\ InOrder(q) = InOrder(r)
<1>0. Numbering(r)
  BY DEF CommandsOf
<1>1. Numbering(q) /\ InOrder(q) = InOrder(r)
  BY <1>0, OrderStays
<1> QED BY <1>1 DEF CommandsOf

LEMMA UnchangedLog ==
  ASSUME LogInv, NEW c, c \in DOMAIN commandBuffers, NEW q, CommandsOf(q), Becomes(c, q),
         LogOf(q) = LogOf(commandBuffers[c])
  PROVE  LogInv' /\ Log!Next
<1>1. LogInv' /\ Logs' = [Logs EXCEPT ![c] = LogOf(q)] /\ Logs[c] = LogOf(commandBuffers[c])
  BY OneLog
<1>2. [Logs EXCEPT ![c] = Logs[c]] = Logs
  BY DEF Logs
<1> QED BY <1>1, <1>2, Quiet DEF Becomes

LEMMA BindIsQuiet ==
  ASSUME LogInv, NEW c, NEW kind, BindPipeline(c, kind)
  PROVE  LogInv' /\ Log!Next
<1> DEFINE r == commandBuffers[c]
           q == [r EXCEPT !.pipeline = kind]
<1>1. c \in DOMAIN commandBuffers /\ CommandsOf(r) /\ Becomes(c, q)
  BY DEF BindPipeline, Recording, LogInv
<1> HIDE DEF r
<1>2. /\ DOMAIN q = DOMAIN r /\ q.recording = r.recording /\ q.executable = r.executable
      /\ q.next = r.next /\ q.lists = r.lists /\ q.draws = r.draws
  BY <1>1 DEF CommandsOf
<1> HIDE DEF q
<1>3. CommandsOf(q) /\ InOrder(q) = InOrder(r)
  BY <1>1, <1>2, CommandsStay DEF CommandsOf
<1>4. LogOf(q) = LogOf(r)
  BY <1>2, <1>3 DEF LogOf
<1> QED BY <1>1, <1>3, <1>4, UnchangedLog DEF r

LEMMA RaysAreQuiet ==
  ASSUME LogInv, NEW c, NEW kind, RecordRays(c, kind)
  PROVE  LogInv' /\ Log!Next
<1> DEFINE r == commandBuffers[c]
           q == [r EXCEPT !.rays = Append(@, kind),
                          !.next = IF kind = "copy" THEN @ + 1 ELSE @]
<1>1. c \in DOMAIN commandBuffers /\ CommandsOf(r) /\ Becomes(c, q)
  BY DEF RecordRays, Recording, LogInv
<1> HIDE DEF r
<1>2. /\ DOMAIN q = DOMAIN r /\ q.recording = r.recording /\ q.executable = r.executable
      /\ q.next \in {r.next, r.next + 1} /\ q.lists = r.lists /\ q.draws = r.draws
  BY <1>1 DEF CommandsOf
<1> HIDE DEF q
<1>3. CommandsOf(q) /\ InOrder(q) = InOrder(r)
  BY <1>1, <1>2, CommandsStay DEF CommandsOf
<1>4. LogOf(q) = LogOf(r)
  BY <1>2, <1>3 DEF LogOf
<1> QED BY <1>1, <1>3, <1>4, UnchangedLog DEF r

LEMMA EndIsEnd ==
  ASSUME LogInv, NEW c, EndCommandBuffer(c)
  PROVE  LogInv' /\ Log!Next
<1> DEFINE r == commandBuffers[c]
           q == [r EXCEPT !.recording = FALSE, !.executable = TRUE]
<1>1. c \in DOMAIN commandBuffers /\ CommandsOf(r) /\ Becomes(c, q) /\ r.recording
  BY DEF EndCommandBuffer, LogInv
<1> HIDE DEF r
<1>2. /\ DOMAIN q = DOMAIN r /\ q.recording = FALSE /\ q.executable = TRUE
      /\ q.next = r.next /\ q.lists = r.lists /\ q.draws = r.draws
  BY <1>1 DEF CommandsOf
<1> HIDE DEF q
<1>3. CommandsOf(q) /\ InOrder(q) = InOrder(r)
  BY <1>1, <1>2, CommandsStay DEF CommandsOf
<1>4. /\ LogOf(r) = [state |-> "recording", commands |-> InOrder(r), draws |-> r.draws]
      /\ LogOf(q) = [state |-> "executable", commands |-> InOrder(r), draws |-> r.draws]
  BY <1>1, <1>2, <1>3 DEF LogOf
<1>5. LogOf(q) = [LogOf(r) EXCEPT !.state = "executable"] /\ LogOf(r).state = "recording"
  BY <1>4
<1>6. /\ LogInv' /\ Logs' = [Logs EXCEPT ![c] = LogOf(q)] /\ Done' = Log!Nothing
      /\ c \in CommandBuffers /\ c \in DOMAIN Logs /\ Logs[c] = LogOf(r)
  BY <1>1, <1>3, OneLog DEF r
<1>7. Log!End(c)
  BY <1>5, <1>6 DEF Log!End
<1> QED BY <1>6, <1>7 DEF Log!Next

LEMMA DrawIsDraw ==
  ASSUME LogInv, NEW c, RecordDraw(c)
  PROVE  LogInv' /\ Log!Next
<1> DEFINE r == commandBuffers[c]
           q == [r EXCEPT !.draws = @ + 1]
<1>1. /\ c \in DOMAIN commandBuffers /\ CommandsOf(r) /\ Becomes(c, q) /\ r.recording
      /\ r.draws < MaxDraws
  BY DEF RecordDraw, Recording, LogInv
<1> HIDE DEF r
<1>2. /\ DOMAIN q = DOMAIN r /\ q.recording = r.recording /\ q.executable = r.executable
      /\ q.next = r.next /\ q.lists = r.lists /\ q.draws = r.draws + 1
  BY <1>1 DEF CommandsOf
<1> HIDE DEF q
<1>3. q.draws \in 0 .. MaxDraws
  BY <1>1, <1>2, CommandAssumption DEF CommandsOf
<1>4. CommandsOf(q) /\ InOrder(q) = InOrder(r)
  BY <1>1, <1>2, <1>3, CommandsStay DEF CommandsOf
<1>5. /\ LogOf(r) = [state |-> "recording", commands |-> InOrder(r), draws |-> r.draws]
      /\ LogOf(q) = [state |-> "recording", commands |-> InOrder(r), draws |-> r.draws + 1]
  BY <1>1, <1>2, <1>4 DEF LogOf
<1>6. LogOf(q) = [LogOf(r) EXCEPT !.draws = @ + 1] /\ LogOf(r).state = "recording"
  BY <1>5
<1>7. /\ LogInv' /\ Logs' = [Logs EXCEPT ![c] = LogOf(q)] /\ Done' = Log!Nothing
      /\ c \in CommandBuffers /\ c \in DOMAIN Logs /\ Logs[c] = LogOf(r)
  BY <1>1, <1>4, OneLog DEF r
<1>8. Log!Draw(c)
  BY <1>6, <1>7 DEF Log!Draw
<1> QED BY <1>7, <1>8 DEF Log!Next

\* A command recorded in its list comes last in the log.
LEMMA NumberedIsRecord ==
  ASSUME LogInv, NEW c, Recording(c), NEW k \in Lists,
         Becomes(c, Numbered(commandBuffers[c], k, FALSE))
  PROVE  LogInv' /\ Log!Next
<1> DEFINE r == commandBuffers[c]
           q == Numbered(r, k, FALSE)
<1>1. c \in DOMAIN commandBuffers /\ CommandsOf(r) /\ Becomes(c, q) /\ r.recording
  BY DEF Recording, LogInv
<1> HIDE DEF r
<1>2. /\ DOMAIN q = DOMAIN r /\ q.recording = r.recording /\ q.executable = r.executable
      /\ q.next = r.next + 1 /\ q.lists = [r.lists EXCEPT ![k] = Append(@, r.next)]
      /\ q.draws = r.draws
  BY <1>1 DEF CommandsOf, Numbered
<1> HIDE DEF q
<1>3. Numbering(q) /\ InOrder(q) = Append(InOrder(r), k)
  <2>1. Numbering(r)
    BY <1>1 DEF CommandsOf
  <2>2. OneMore(r, q, k)
    BY <1>2 DEF OneMore
  <2> QED BY <2>1, <2>2, OrderGrows
<1>4. CommandsOf(q)
  BY <1>1, <1>2, <1>3 DEF CommandsOf
<1>5. /\ LogOf(r) = [state |-> "recording", commands |-> InOrder(r), draws |-> r.draws]
      /\ LogOf(q) = [state |-> "recording", commands |-> Append(InOrder(r), k),
                     draws |-> r.draws]
  BY <1>1, <1>2, <1>3 DEF LogOf
<1>6. LogOf(q) = [LogOf(r) EXCEPT !.commands = Append(@, k)] /\ LogOf(r).state = "recording"
  <2> DEFINE more == Append(InOrder(r), k)
  <2>1. LogOf(r).commands = InOrder(r) /\ LogOf(r).state = "recording"
    BY <1>5
  <2> HIDE DEF more
  <2>2. [LogOf(r) EXCEPT !.commands = more]
          = [state |-> "recording", commands |-> more, draws |-> r.draws]
    BY <1>5
  <2> QED BY <1>5, <2>1, <2>2 DEF more
<1>7. /\ LogInv' /\ Logs' = [Logs EXCEPT ![c] = LogOf(q)] /\ Done' = Log!Nothing
      /\ c \in CommandBuffers /\ c \in DOMAIN Logs /\ Logs[c] = LogOf(r)
  BY <1>1, <1>4, OneLog DEF r, q
<1>8. Log!Record(c, k)
  BY <1>6, <1>7 DEF Log!Record
<1> QED BY <1>7, <1>8 DEF Log!Next

LEMMA RecordIsRecord ==
  ASSUME TRUE \notin AllocationFails, LogInv, NEW c,
         \/ \E k \in Transfers, fails \in AllocationFails : RecordTransfer(c, k, fails)
         \/ \E fails \in AllocationFails : RecordBuild(c, fails)
         \/ RecordDispatch(c)
  PROVE  LogInv' /\ Log!Next
<1>1. \A fails \in AllocationFails : fails = FALSE
  BY CommandAssumption
<1>2. Recording(c) /\ \E k \in Lists : Becomes(c, Numbered(commandBuffers[c], k, FALSE))
  BY <1>1 DEF RecordTransfer, RecordBuild, RecordDispatch, Lists
<1> QED BY <1>2, NumberedIsRecord

LEMMA BeginIsBegin ==
  ASSUME LogInv, NEW c, BeginCommandBuffer(c)
  PROVE  LogInv' /\ Log!Next
<1> DEFINE r == commandBuffers[c]
           q == [Fresh(r.pool) EXCEPT !.recording = TRUE]
<1>1. c \in DOMAIN commandBuffers /\ CommandsOf(r) /\ Becomes(c, q) /\ ~r.recording
  BY DEF BeginCommandBuffer, LogInv
<1>2. CommandsOf(q) /\ LogOf(q) = Log!Empty("recording")
  BY FreshCommands
<1> HIDE DEF q, r
<1>3. LogOf(r).state # "recording"
  BY <1>1 DEF LogOf
<1>4. /\ LogInv' /\ Logs' = [Logs EXCEPT ![c] = LogOf(q)] /\ Done' = Log!Nothing
      /\ c \in CommandBuffers /\ c \in DOMAIN Logs /\ Logs[c] = LogOf(r)
  BY <1>1, <1>2, OneLog DEF r
<1>5. Log!Begin(c)
  BY <1>2, <1>3, <1>4 DEF Log!Begin
<1> QED BY <1>4, <1>5 DEF Log!Next

LEMMA ResetIsReset ==
  ASSUME LogInv, NEW c, ResetCommandBuffer(c)
  PROVE  LogInv' /\ Log!Next
<1> DEFINE q == Fresh(commandBuffers[c].pool)
<1>1. c \in DOMAIN commandBuffers /\ Becomes(c, q)
  BY DEF ResetCommandBuffer
<1>2. CommandsOf(q) /\ LogOf(q) = Log!Empty("initial")
  BY FreshCommands
<1> HIDE DEF q
<1>3. /\ LogInv' /\ Logs' = [Logs EXCEPT ![c] = LogOf(q)] /\ Done' = Log!Nothing
      /\ c \in CommandBuffers /\ c \in DOMAIN Logs
  BY <1>1, <1>2, OneLog
<1>4. Logs' = [d \in DOMAIN Logs |-> IF d \in {c} THEN Log!Empty("initial") ELSE Logs[d]]
  BY <1>2, <1>3 DEF Logs
<1>5. Log!Reset({c}) /\ {c} \in SUBSET CommandBuffers
  BY <1>3, <1>4 DEF Log!Reset
<1> QED BY <1>3, <1>5 DEF Log!Next

LEMMA AllocateIsAllocate ==
  ASSUME LogInv, NEW p, NEW c \in CommandBuffers, AllocateCommandBuffer(p, c)
  PROVE  LogInv' /\ Log!Next
<1>1. /\ c \notin DOMAIN commandBuffers /\ NotSubmitted
      /\ DOMAIN commandBuffers' = DOMAIN commandBuffers \cup {c}
      /\ \A d \in DOMAIN commandBuffers' :
           commandBuffers'[d] = IF d = c THEN Fresh(p) ELSE commandBuffers[d]
  BY DEF AllocateCommandBuffer, Put
<1>2. CommandsOf(Fresh(p)) /\ LogOf(Fresh(p)) = Log!Empty("initial")
  BY FreshCommands
<1>3. LogInv'
  BY <1>1, <1>2 DEF LogInv
<1>4. Logs' = [d \in DOMAIN commandBuffers' |-> LogOf(commandBuffers'[d])]
  BY DEF Logs
<1>5. \A d \in DOMAIN commandBuffers' :
        LogOf(commandBuffers'[d]) = IF d = c THEN Log!Empty("initial") ELSE Logs[d]
  BY <1>1, <1>2, InLogs
<1>6. Logs' = Log!Put(Logs, c, Log!Empty("initial"))
  BY <1>1, <1>4, <1>5, InLogs DEF Log!Put
<1>7. Log!Allocate(c)
  BY <1>1, <1>6, InLogs, DoneNothing DEF Log!Allocate
<1> QED BY <1>3, <1>7 DEF Log!Next

\* Command buffers that are gone
LEMMA FreeIsFree ==
  ASSUME LogInv, NEW gone \in SUBSET CommandBuffers, NotSubmitted,
         commandBuffers' = [c \in DOMAIN commandBuffers \ gone |-> commandBuffers[c]]
  PROVE  LogInv' /\ Log!Next
<1>1. LogInv'
  BY DEF LogInv
<1>2. /\ DOMAIN commandBuffers' = DOMAIN commandBuffers \ gone
      /\ \A c \in DOMAIN commandBuffers' : commandBuffers'[c] = commandBuffers[c]
  OBVIOUS
<1>3. Logs' = [c \in DOMAIN commandBuffers' |-> LogOf(commandBuffers'[c])]
  BY DEF Logs
<1>4. Logs' = [c \in DOMAIN Logs \ gone |-> Logs[c]]
  BY <1>2, <1>3, InLogs
<1>5. Log!Free(gone)
  BY <1>4, DoneNothing DEF Log!Free
<1> QED BY <1>1, <1>5 DEF Log!Next

LEMMA ResetPoolIsReset ==
  ASSUME LogInv, NEW p, ResetCommandPool(p)
  PROVE  LogInv' /\ Log!Next
<1> DEFINE some == OfPool(p)
           Emptied(r) == [r EXCEPT !.recording = FALSE, !.executable = FALSE,
                            !.pipeline = "none", !.next = 1, !.lists = NoLists, !.rays = <<>>]
<1>1. some \subseteq DOMAIN commandBuffers
  BY DEF OfPool
<1>2. /\ DOMAIN commandBuffers' = DOMAIN commandBuffers /\ NotSubmitted
      /\ \A c \in DOMAIN commandBuffers :
           commandBuffers'[c] =
             IF c \notin some THEN commandBuffers[c] ELSE Emptied(commandBuffers[c])
  BY DEF ResetCommandPool
<1>3. ASSUME NEW r, CommandsOf(r)
      PROVE  CommandsOf(Emptied(r)) /\ LogOf(Emptied(r)) = Log!Empty("initial")
  <2> DEFINE q == Emptied(r)
  <2>1. /\ DOMAIN q = DOMAIN r /\ q.recording = FALSE /\ q.executable = FALSE
        /\ q.next = 1 /\ q.lists = NoLists /\ q.draws = r.draws
    BY <1>3 DEF CommandsOf
  <2> HIDE DEF q
  <2>2. Numbering(q)
    BY <2>1, NoCommands
  <2>3. CommandsOf(q)
    BY <1>3, <2>1, <2>2 DEF CommandsOf
  <2>4. LogOf(q) = Log!Empty("initial")
    BY <2>1 DEF LogOf, Log!Empty
  <2> QED BY <2>3, <2>4 DEF q
<1> HIDE DEF some, Emptied
<1>4. \A c \in DOMAIN commandBuffers : CommandsOf(commandBuffers'[c])
  BY <1>2, <1>3 DEF LogInv
<1>5. LogInv'
  BY <1>2, <1>4 DEF LogInv
<1>6. \A c \in DOMAIN commandBuffers :
        LogOf(commandBuffers'[c]) = IF c \in some THEN Log!Empty("initial") ELSE Logs[c]
  BY <1>2, <1>3, InLogs DEF LogInv
<1>7. Logs' = [c \in DOMAIN commandBuffers |-> LogOf(commandBuffers'[c])]
  BY <1>2 DEF Logs
<1>8. Logs' = [c \in DOMAIN Logs |-> IF c \in some THEN Log!Empty("initial") ELSE Logs[c]]
  BY <1>6, <1>7, InLogs
<1>9. Log!Reset(some) /\ some \in SUBSET CommandBuffers
  BY <1>1, <1>2, <1>8, DoneNothing DEF Log!Reset, LogInv
<1> QED BY <1>5, <1>9 DEF Log!Next

\* The UI draws a submit presents are those of one of its command buffers.
LEMMA PresentedOfOne ==
  ASSUME NEW n \in Nat \ {0}, NEW cs, DOMAIN cs = 1 .. n,
         \A i \in 1 .. n : commandBuffers[cs[i]].draws \in 0 .. MaxDraws
  PROVE  Presented(cs) \in {0} \cup {commandBuffers[cs[i]].draws : i \in DOMAIN cs}
<1> DEFINE draws(i) == IF commandBuffers[cs[i]].pipeline = "graphics"
                       THEN commandBuffers[cs[i]].draws ELSE 0
           S == {draws(i) : i \in DOMAIN cs}
           left == {MaxDraws - draws(i) : i \in DOMAIN cs}
<1>1. \A i \in DOMAIN cs : draws(i) \in 0 .. MaxDraws
  BY CommandAssumption
<1>2. \A i \in DOMAIN cs : draws(i) \in {0} \cup {commandBuffers[cs[j]].draws : j \in DOMAIN cs}
  OBVIOUS
<1> HIDE DEF draws
<1>3. left \subseteq Nat /\ left # {}
  <2>1. MaxDraws \in Nat
    BY CommandAssumption
  <2>2. \A i \in DOMAIN cs : MaxDraws - draws(i) \in Nat
    BY <1>1, <2>1
  <2>3. 1 \in DOMAIN cs
    OBVIOUS
  <2> QED BY <2>2, <2>3
<1>4. PICK m \in left : \A k \in left : ~(k < m)
  <2> HIDE DEF left
  <2> QED BY <1>3, Least
<1>5. PICK j \in DOMAIN cs : m = MaxDraws - draws(j)
  BY <1>4
<1>6. \A i \in DOMAIN cs : draws(i) <= draws(j)
  <2> TAKE i \in DOMAIN cs
  <2>1. MaxDraws - draws(i) \in left
    OBVIOUS
  <2>2. ~(MaxDraws - draws(i) < MaxDraws - draws(j))
    BY <1>4, <1>5, <2>1
  <2>3. draws(i) \in Nat /\ draws(j) \in Nat /\ MaxDraws \in Nat
    BY <1>1, CommandAssumption
  <2> QED BY <2>2, <2>3
<1>7. \E d \in S : \A i \in DOMAIN cs : draws(i) <= d
  BY <1>6
<1>8. Presented(cs) = CHOOSE d \in S : \A i \in DOMAIN cs : draws(i) <= d
  BY DEF Presented, draws
<1>9. Presented(cs) \in S
  BY <1>7, <1>8
<1> QED BY <1>2, <1>9

LEMMA ClassifiedPresented ==
  ASSUME NEW rays, NEW manifest, NEW fallback, NEW presented
  PROVE  Classified(rays, manifest, fallback, presented).presented \in {0, presented}
BY DEF Classified, Verdict

LEMMA SubmitIsSubmit ==
  ASSUME LogInv, Submits
  PROVE  LogInv' /\ Log!Next
<1>1. PICK n \in 1 .. MaxSubmit :
        \E cs \in [1 .. n -> {c \in DOMAIN commandBuffers : commandBuffers[c].executable}] :
          QueueSubmit(cs)
  BY DEF Submits
<1>2. PICK cs \in [1 .. n -> {c \in DOMAIN commandBuffers : commandBuffers[c].executable}] :
        QueueSubmit(cs)
  BY <1>1
<1>3. n \in Nat \ {0} /\ DOMAIN cs = 1 .. n
  BY CommandAssumption
<1>4. commandBuffers' = commandBuffers
  BY <1>2 DEF QueueSubmit, recordingVars
<1>5. LogInv' /\ Logs' = Logs
  BY <1>4 DEF LogInv, Logs
<1>6. ASSUME NEW i \in 1 .. n
      PROVE  /\ cs[i] \in DOMAIN commandBuffers /\ cs[i] \in DOMAIN Logs
             /\ Logs[cs[i]].state = "executable"
             /\ Logs[cs[i]].commands = ReplayOrder(commandBuffers[cs[i]])
             /\ Logs[cs[i]].draws = commandBuffers[cs[i]].draws
             /\ commandBuffers[cs[i]].draws \in 0 .. MaxDraws
  <2> DEFINE r == commandBuffers[cs[i]]
  <2>1. cs[i] \in DOMAIN commandBuffers /\ r.executable
    OBVIOUS
  <2>2. CommandsOf(r) /\ Logs[cs[i]] = LogOf(r) /\ cs[i] \in DOMAIN Logs
    BY <2>1, InLogs DEF LogInv
  <2> HIDE DEF r
  <2>3. ~r.recording /\ Numbering(r) /\ r.draws \in 0 .. MaxDraws
    BY <2>1, <2>2 DEF CommandsOf
  <2>4. LogOf(r) = [state |-> "executable", commands |-> InOrder(r), draws |-> r.draws]
    BY <2>1, <2>3 DEF LogOf
  <2>5. ReplayOrder(r) = InOrder(r)
    BY <2>3, Replays
  <2> QED BY <2>1, <2>2, <2>3, <2>4, <2>5 DEF r
<1> DEFINE orders == [i \in DOMAIN cs |-> ReplayOrder(commandBuffers[cs[i]])]
           logs == [i \in DOMAIN cs |-> Logs[cs[i]].commands]
           all == FlattenSeq(orders)
           rays == FlattenSeq([i \in DOMAIN cs |-> commandBuffers[cs[i]].rays])
<1>7. orders = logs
  BY <1>3, <1>6
<1>8. \E stop \in 0 .. Len(all) :
        /\ \E skipped \in SUBSET {i \in 1 .. stop : all[i] \in {"build", "dispatch"}} :
             ran' = Replay(all, stop, skipped)
        /\ \/ verdict' = Verdict("failed", rays, {}, 0)
           \/ \E manifest \in BOOLEAN, fallback \in {"built", "absent", "fails"} :
                verdict' = Classified(rays, manifest, fallback, Presented(cs))
  BY <1>2 DEF QueueSubmit
<1>9. \A a, stop, skipped : Replay(a, stop, skipped) = Log!Beginning(a, stop, skipped)
  BY DEF Replay, Log!Beginning
<1> HIDE DEF all, rays, orders, logs
<1>10. Log!Executes(ran', all)
  BY <1>8, <1>9 DEF Log!Executes
<1>11. Log!FlattenSeq(logs) = all
  BY <1>7 DEF all, FlattenSeq, Log!FlattenSeq
<1>12. verdict'.presented \in {0, Presented(cs)}
  BY <1>8, ClassifiedPresented DEF Verdict
<1>13. Presented(cs) \in {0} \cup {commandBuffers[cs[i]].draws : i \in DOMAIN cs}
  BY <1>3, <1>6, PresentedOfOne
<1>14. {commandBuffers[cs[i]].draws : i \in DOMAIN cs} = {Logs[cs[i]].draws : i \in DOMAIN cs}
  BY <1>3, <1>6
<1>15. Done'.ran = ran' /\ Done'.presented = verdict'.presented
  BY DEF Done
<1>16. Log!Submit(cs)
  <2>1. \A i \in DOMAIN cs : cs[i] \in DOMAIN Logs /\ Logs[cs[i]].state = "executable"
    BY <1>3, <1>6
  <2>2. Log!Executes(Done'.ran, Log!FlattenSeq([i \in DOMAIN cs |-> Logs[cs[i]].commands]))
    BY <1>10, <1>11, <1>15 DEF logs
  <2>3. Done'.presented \in {0} \cup {Logs[cs[i]].draws : i \in DOMAIN cs}
    BY <1>12, <1>13, <1>14, <1>15
  <2> QED BY <1>5, <2>1, <2>2, <2>3 DEF Log!Submit
<1>17. cs \in [1 .. n -> DOMAIN Logs]
  BY <1>3, <1>6
<1> QED BY <1>5, <1>16, <1>17 DEF Log!Next

LEMMA LogStep ==
  ASSUME TRUE \notin AllocationFails, LogInv, CommandNext
  PROVE  LogInv' /\ Log!Next
<1>1. ASSUME NEW p \in CommandPools, CreateCommandPool(p) PROVE LogInv' /\ Log!Next
  <2>1. commandBuffers' = commandBuffers /\ NotSubmitted
    BY <1>1 DEF CreateCommandPool
  <2>2. LogInv' /\ Logs' = Logs
    BY <2>1 DEF LogInv, Logs
  <2> QED BY <2>1, <2>2, Quiet
<1>2. ASSUME NEW p \in CommandPools, DestroyCommandPool(p) PROVE LogInv' /\ Log!Next
  <2>1. OfPool(p) \in SUBSET CommandBuffers
    BY DEF OfPool, LogInv
  <2> QED BY <1>2, <2>1, FreeIsFree DEF DestroyCommandPool
<1>3. ASSUME NEW c \in CommandBuffers, FreeCommandBuffer(c) PROVE LogInv' /\ Log!Next
  <2>1. {c} \in SUBSET CommandBuffers /\ NotSubmitted
    BY <1>3 DEF FreeCommandBuffer
  <2>2. commandBuffers' = [d \in DOMAIN commandBuffers \ {c} |-> commandBuffers[d]]
    BY <1>3 DEF FreeCommandBuffer, Drop
  <2> QED BY <2>1, <2>2, FreeIsFree
<1>4. CASE Descriptors
  <2>1. commandBuffers' = commandBuffers /\ NotSubmitted
    BY <1>4 DEF Descriptors, CreateDescriptorPool, DestroyDescriptorPool,
       ResetDescriptorPool, AllocateDescriptorSets, FreeDescriptorSets,
       DescriptorsChange, recordingVars
  <2>2. LogInv' /\ Logs' = Logs
    BY <2>1 DEF LogInv, Logs
  <2> QED BY <2>1, <2>2, Quiet
<1>5. CASE Recorders
  BY <1>1, <1>2, <1>3, <1>5, ResetPoolIsReset, AllocateIsAllocate, ResetIsReset,
     BeginIsBegin, EndIsEnd, BindIsQuiet, RecordIsRecord, RaysAreQuiet, DrawIsDraw
     DEF Recorders
<1> QED BY <1>4, <1>5, SubmitIsSubmit DEF CommandNext

\* While no allocation fails, whatever is recorded, reset and recorded again
\* in how many command buffers: a submit of any number of them runs each in
\* its recorded order, as one log each.
THEOREM ReplaysLogs ==
  ASSUME TRUE \notin AllocationFails
  PROVE  CommandSpec => ReplayIsLog
<1>1. CommandInit => LogInv /\ Log!Init
  <2> SUFFICES ASSUME CommandInit PROVE LogInv /\ Log!Init
    OBVIOUS
  <2>1. commandBuffers = EmptyTable /\ ran = <<>> /\ verdict = NoVerdict
    BY DEF CommandInit
  <2>2. DOMAIN commandBuffers = {}
    BY <2>1 DEF EmptyTable
  <2>3. Logs = Log!EmptyTable
    BY <2>2 DEF Logs, Log!EmptyTable
  <2>4. Done = Log!Nothing
    BY <2>1 DEF Done, NoVerdict, Verdict, Log!Nothing
  <2> QED BY <2>2, <2>3, <2>4 DEF LogInv, Log!Init
<1>2. LogInv /\ [CommandNext]_commandVars => LogInv' /\ [Log!Next]_(Log!vars)
  <2> SUFFICES ASSUME LogInv, [CommandNext]_commandVars
               PROVE  LogInv' /\ [Log!Next]_(Log!vars)
    OBVIOUS
  <2>1. CASE CommandNext
    BY <2>1, LogStep
  <2>2. CASE UNCHANGED commandVars
    BY <2>2 DEF commandVars, LogInv, Log!vars, Logs, Done
  <2> QED BY <2>1, <2>2
<1> QED BY <1>1, <1>2, PTL DEF CommandSpec, ReplayIsLog, Log!Spec

----------------------------------------------------------------------------
(* What is bound.                                                          *)

\* The sequences of the driver, whatever their elements.
IsList(s) == Len(s) \in Nat /\ s = [n \in 1 .. Len(s) |-> s[n]]

\* c holds every constant of the table b.
Covers(c, b) == \A w \in DOMAIN b : w \in 1 .. Len(c) /\ c[w] = b[w]

Fields ==
  /\ DOMAIN command = DOMAIN Cleared
  /\ DOMAIN bound = DOMAIN Unbound
  /\ DOMAIN asked = DOMAIN NothingAsked

\* What the driver has bound is what Vulkan has; pipelines are of their point.
BoundAsAsked ==
  /\ command.sets = bound.sets
  /\ bound.sets \in [Points -> [Slots -> Sets \cup {Unset}]]
  /\ command.texture = bound.texture
  /\ command.scissor = bound.scissor
  /\ command.vertex = bound.vertex
  /\ command.index = bound.index
  /\ command.clear = bound.clear
  /\ IsList(command.constants)
  /\ Covers(command.constants, bound.constants)
  /\ DOMAIN bound.pipeline = Points
  /\ \A p \in Points : bound.pipeline[p] # Unset =>
       bound.pipeline[p] \in Pipelines /\ PointOf[bound.pipeline[p]] = p

\* The sets the application wrote are the sets the driver keeps; Kit's layouts
\* hold their sampled images in binding 0.
SetsAsWritten ==
  /\ DOMAIN contents = Sets /\ DOMAIN written = Sets
  /\ \A d \in Sets :
       /\ DOMAIN contents[d] = {"sampled", "bindings"}
       /\ contents[d].bindings = written[d]
       /\ \A e : At(contents[d].sampled, e) = At(written[d], Key("sampled", 0, e))

RecordingLists ==
  /\ IsList(command.dispatches) /\ IsList(asked.dispatches)
  /\ IsList(command.traces) /\ IsList(asked.traces)
  /\ IsList(command.draws) /\ IsList(asked.draws)
  /\ IsList(asked.triangles)
  /\ Len(command.dispatches) = Len(asked.dispatches)
  /\ Len(command.traces) = Len(asked.traces)
  /\ Len(command.draws) = Len(asked.draws)

SameDispatch(c, a) ==
  /\ c.pipeline = "dispatch" /\ c.pipeline = a.pipeline /\ c.sets = a.sets
  /\ a.sets \in [Slots -> Sets \cup {Unset}]
  /\ Covers(c.constants, a.constants)
  /\ 1 .. Words \subseteq DOMAIN a.constants => c.eligible = TRUE
DispatchesKept ==
  \A n \in 1 .. Len(asked.dispatches) : SameDispatch(command.dispatches[n], asked.dispatches[n])
TracesKept ==
  \A n \in 1 .. Len(asked.traces) :
    LET c == command.traces[n] a == asked.traces[n] IN
    c.pipeline = a.pipeline /\ c.sets = a.sets /\ a.sets \in [Slots -> Sets \cup {Unset}]

\* A draw holds the image its set has, and that image is there; what it reads
\* when it is submitted has not changed.
DrawsKept ==
  \A n \in 1 .. Len(asked.draws) :
    LET c == command.draws[n] a == asked.draws[n] IN
    /\ c.texture = SampledBy(a.set, a.element)
    /\ c.texture \in alive \cup {Unset}
    /\ a.set \in Sets \cup {Unset}
    /\ c.scissor = a.scissor
    /\ a.vertex = command.vertex /\ a.index = command.index /\ a.clear = command.clear
TrianglesKept ==
  \A n \in 1 .. Len(asked.triangles) : command.drew /\ asked.triangles[n] = command.clear

BindingInv ==
  /\ Fields /\ BoundAsAsked /\ SetsAsWritten /\ RecordingLists
  /\ DispatchesKept /\ TracesKept /\ DrawsKept /\ TrianglesKept

LEMMA Appended ==
  ASSUME NEW s, IsList(s), NEW e, NEW t, t = Append(s, e)
  PROVE  /\ IsList(t) /\ Len(t) = Len(s) + 1
         /\ \A n \in 1 .. Len(s) : t[n] = s[n]
         /\ t[Len(s) + 1] = e
<1> DEFINE S == {s[n] : n \in 1 .. Len(s)} \cup {e}
<1>1. s \in Seq(S) /\ e \in S
  BY DEF IsList
<1> HIDE DEF S
<1>2. t \in Seq(S) /\ Len(t) = Len(s) + 1 /\ (\A n \in 1 .. Len(s) : t[n] = s[n]) /\ t[Len(s) + 1] = e
  BY <1>1, AppendProperties
<1>3. IsList(t)
  BY <1>2, LenProperties DEF IsList
<1> QED BY <1>2, <1>3

LEMMA Domains ==
  /\ DOMAIN Cleared = {"recording", "executable", "pipeline", "sets", "constants", "texture",
       "scissor", "vertex", "index", "pass", "clear", "drew", "dispatches", "traces", "draws"}
  /\ DOMAIN Unbound = {"pipeline", "sets", "constants", "texture", "scissor", "vertex", "index",
       "clear"}
  /\ DOMAIN NothingAsked = {"dispatches", "traces", "draws", "triangles"}
BY DEF Cleared, Unbound, NothingAsked

LEMMA EmptyIsList == IsList(<<>>) /\ Len(<<>>) = 0
BY DEF IsList

\* Nothing that is bound or held moves but what is named.
ListsStay ==
  /\ asked' = asked
  /\ command'.dispatches = command.dispatches
  /\ command'.traces = command.traces
  /\ command'.draws = command.draws

LEMMA ListsStayKept ==
  ASSUME BindingInv, ListsStay
  PROVE  RecordingLists' /\ DispatchesKept' /\ TracesKept'
<1>1. /\ asked' = asked /\ command'.dispatches = command.dispatches
      /\ command'.traces = command.traces /\ command'.draws = command.draws
  BY DEF ListsStay
<1>2. RecordingLists'
  BY <1>1 DEF BindingInv, RecordingLists, IsList
<1>3. DispatchesKept'
  BY <1>1 DEF BindingInv, DispatchesKept, Covers
<1>4. TracesKept'
  BY <1>1 DEF BindingInv, TracesKept
<1> QED BY <1>2, <1>3, <1>4

\* A new recording, or none: nothing is bound, nothing is held.
LEMMA ClearedKept ==
  ASSUME BindingInv, bound' = Unbound, asked' = NothingAsked, NotRead,
         DOMAIN command' = DOMAIN Cleared,
         \A f \in DOMAIN Cleared : f # "recording" => command'[f] = Cleared[f]
  PROVE  BindingInv'
<1>2. /\ command'.sets = NoSets /\ command'.texture = 0 /\ command'.scissor = Unset
      /\ command'.vertex = Unset /\ command'.index = Unset /\ command'.clear = 0
      /\ command'.constants = <<>> /\ command'.dispatches = <<>> /\ command'.traces = <<>>
      /\ command'.draws = <<>>
  BY DEF Cleared
<1>3. Fields'
  BY DEF Fields
<1>4. BoundAsAsked'
  BY <1>2, EmptyIsList DEF BoundAsAsked, Unbound, NoSets, Covers, EmptyTable
<1>5. SetsAsWritten'
  BY DEF NotRead, BindingInv, SetsAsWritten
<1>6. RecordingLists' /\ DispatchesKept' /\ TracesKept' /\ DrawsKept' /\ TrianglesKept'
  BY <1>2, EmptyIsList DEF NothingAsked, RecordingLists, DispatchesKept, TracesKept, DrawsKept, TrianglesKept
<1> QED BY <1>3, <1>4, <1>5, <1>6 DEF BindingInv

\* Nothing that is bound changes.
BoundStay ==
  /\ bound' = bound
  /\ command'.sets = command.sets /\ command'.texture = command.texture
  /\ command'.scissor = command.scissor /\ command'.vertex = command.vertex
  /\ command'.index = command.index /\ command'.clear = command.clear
  /\ command'.constants = command.constants

LEMMA BoundStayKept == ASSUME BindingInv, BoundStay PROVE BoundAsAsked'
BY DEF BindingInv, BoundStay, BoundAsAsked, IsList, Covers

\* The draws still find what they had, when none of it changed, or when there
\* are no draws.
LEMMA DrawsStayKept ==
  ASSUME BindingInv, ListsStay, UNCHANGED contents, UNCHANGED alive,
         \/ ~Drawn
         \/ /\ command'.vertex = command.vertex /\ command'.index = command.index
            /\ command'.clear = command.clear
            /\ command.drew => command'.drew
  PROVE  DrawsKept' /\ TrianglesKept'
<1>1. CASE ~Drawn
  <2>1. Len(asked'.draws) = 0 /\ Len(asked'.triangles) = 0
    <3>1. Len(asked.draws) \in Nat /\ Len(asked.triangles) \in Nat
      BY DEF BindingInv, RecordingLists, IsList
    <3>2. Len(asked.draws) = 0 /\ Len(asked.triangles) = 0
      <4>1. ~(Len(asked.draws) + Len(asked.triangles) > 0)
        BY <1>1 DEF Drawn
      <4>2. \A a, b \in Nat : ~(a + b > 0) => a = 0 /\ b = 0
        OBVIOUS
      <4> HIDE DEF ListsStay
      <4> QED BY <3>1, <4>1, <4>2
    <3> QED BY <3>2 DEF ListsStay
  <2> QED BY <2>1 DEF DrawsKept, TrianglesKept
<1>2. CASE /\ command'.vertex = command.vertex /\ command'.index = command.index
           /\ command'.clear = command.clear
           /\ command.drew => command'.drew
  <2>1. DrawsKept'
    BY <1>2 DEF BindingInv, ListsStay, DrawsKept, SampledBy
  <2>2. TrianglesKept'
    BY <1>2 DEF BindingInv, ListsStay, TrianglesKept
  <2> QED BY <2>1, <2>2
<1> QED BY <1>1, <1>2

LEMMA SetsStayKept == ASSUME BindingInv, NotRead PROVE SetsAsWritten'
BY DEF BindingInv, NotRead, SetsAsWritten

\* A step that keeps the lists and the draws keeps the invariant if what is
\* bound afterwards is what Vulkan has.
LEMMA BindingKept ==
  ASSUME BindingInv, ListsStay, NotRead, DOMAIN command' = DOMAIN command,
         DOMAIN bound' = DOMAIN bound, BoundAsAsked',
         \/ ~Drawn
         \/ /\ command'.vertex = command.vertex /\ command'.index = command.index
            /\ command'.clear = command.clear
            /\ command.drew => command'.drew
  PROVE  BindingInv'
<1>1. UNCHANGED contents /\ UNCHANGED alive
  BY DEF NotRead
<1>2. Fields'
  BY DEF BindingInv, Fields, ListsStay
<1> QED BY <1>1, <1>2, ListsStayKept, DrawsStayKept, SetsStayKept DEF BindingInv

LEMMA LifetimeKept == ASSUME BindingInv, Lifetime PROVE BindingInv'
<1>1. CASE Begin
  BY <1>1, ClearedKept DEF Begin
<1>2. CASE Reset
  BY <1>2, ClearedKept DEF Reset
<1>3. CASE End
  <2>1. /\ DOMAIN command' = DOMAIN command /\ bound' = bound
        /\ \A f \in DOMAIN command : f \notin {"recording", "executable"} => command'[f] = command[f]
    BY <1>3 DEF End
  <2>2. BoundStay /\ command'.drew = command.drew
    BY <2>1, Domains DEF BindingInv, Fields, BoundStay
  <2>3. ListsStay
    BY <1>3, <2>1, Domains DEF BindingInv, Fields, ListsStay, End
  <2>4. NotRead
    BY <1>3 DEF End
  <2> QED BY <2>1, <2>2, <2>3, <2>4, BoundStayKept, BindingKept DEF BoundStay
<1> QED BY <1>1, <1>2, <1>3 DEF Lifetime

LEMMA SlotKept ==
  ASSUME BindingInv, NEW pipeline \in Pipelines, BindPipelineSlot(pipeline)
  PROVE  BindingInv'
<1>1. /\ DOMAIN command' = DOMAIN command /\ DOMAIN bound' = DOMAIN bound
      /\ \A f \in DOMAIN command : f # "pipeline" => command'[f] = command[f]
      /\ \A f \in DOMAIN bound : f # "pipeline" => bound'[f] = bound[f]
  BY DEF BindPipelineSlot
<1>2. ListsStay /\ command'.drew = command.drew
  BY <1>1, Domains DEF BindingInv, Fields, ListsStay, BindPipelineSlot
<1>3. /\ DOMAIN bound'.pipeline = Points
      /\ \A p \in Points : bound'.pipeline[p] =
           IF p = PointOf[pipeline] THEN pipeline ELSE bound.pipeline[p]
  <2>1. "pipeline" \in DOMAIN bound /\ DOMAIN bound.pipeline = Points
    BY Domains DEF BindingInv, Fields, BoundAsAsked
  <2> QED BY <2>1 DEF BindPipelineSlot
<1>4. \A p \in Points : bound'.pipeline[p] # Unset =>
        bound'.pipeline[p] \in Pipelines /\ PointOf[bound'.pipeline[p]] = p
  BY <1>3 DEF BindingInv, BoundAsAsked
<1>5. /\ command'.sets = command.sets /\ bound'.sets = bound.sets
      /\ command'.texture = command.texture /\ bound'.texture = bound.texture
      /\ command'.scissor = command.scissor /\ bound'.scissor = bound.scissor
      /\ command'.vertex = command.vertex /\ bound'.vertex = bound.vertex
      /\ command'.index = command.index /\ bound'.index = bound.index
      /\ command'.clear = command.clear /\ bound'.clear = bound.clear
      /\ command'.constants = command.constants /\ bound'.constants = bound.constants
  BY <1>1, Domains DEF BindingInv, Fields
<1>6. BoundAsAsked'
  BY <1>3, <1>4, <1>5 DEF BindingInv, BoundAsAsked, IsList, Covers
<1>7. NotRead
  BY DEF BindPipelineSlot
<1> QED BY <1>1, <1>2, <1>5, <1>6, <1>7, BindingKept

LEMMA SetKept ==
  ASSUME BindingInv, Liberties = {}, NEW point \in Points, NEW slot \in Slots, NEW d \in Sets,
         NEW dynamic, BindDescriptorSet(point, slot, d, dynamic)
  PROVE  BindingInv'
<1> DEFINE after == [bound.sets EXCEPT ![point] = [bound.sets[point] EXCEPT ![slot] = d]]
<1>1. /\ command' = [command EXCEPT !.sets = [command.sets EXCEPT ![point] =
                       [command.sets[point] EXCEPT ![slot] = d]]]
      /\ bound' = [bound EXCEPT !.sets = after]
  BY DEF BindDescriptorSet
<1>2. command.sets = bound.sets
  BY DEF BindingInv, BoundAsAsked
<1>3. command' = [command EXCEPT !.sets = after] /\ bound' = [bound EXCEPT !.sets = after]
  BY <1>1, <1>2
<1>4. after \in [Points -> [Slots -> Sets \cup {Unset}]]
  BY DEF BindingInv, BoundAsAsked
<1> HIDE DEF after
<1>5. /\ DOMAIN command' = DOMAIN command /\ DOMAIN bound' = DOMAIN bound
      /\ \A f \in DOMAIN command : f # "sets" => command'[f] = command[f]
      /\ \A f \in DOMAIN bound : f # "sets" => bound'[f] = bound[f]
  BY <1>3
<1>6. command'.sets = after /\ bound'.sets = after
  BY <1>3, Domains DEF BindingInv, Fields
<1>7. ListsStay /\ command'.drew = command.drew
  BY <1>5, Domains DEF BindingInv, Fields, ListsStay, BindDescriptorSet
<1>8. /\ command'.texture = command.texture /\ bound'.texture = bound.texture
      /\ command'.scissor = command.scissor /\ bound'.scissor = bound.scissor
      /\ command'.vertex = command.vertex /\ bound'.vertex = bound.vertex
      /\ command'.index = command.index /\ bound'.index = bound.index
      /\ command'.clear = command.clear /\ bound'.clear = bound.clear
      /\ command'.constants = command.constants /\ bound'.constants = bound.constants
      /\ bound'.pipeline = bound.pipeline
  BY <1>5, Domains DEF BindingInv, Fields
<1>9. BoundAsAsked'
  BY <1>4, <1>6, <1>8 DEF BindingInv, BoundAsAsked, IsList, Covers
<1>10. NotRead
  BY DEF BindDescriptorSet
<1> QED BY <1>5, <1>7, <1>8, <1>9, <1>10, BindingKept

LEMMA TextureKept ==
  ASSUME BindingInv, Liberties = {}, NEW v, PushTexture(v)
  PROVE  BindingInv'
<1>1. /\ DOMAIN command' = DOMAIN command /\ DOMAIN bound' = DOMAIN bound
      /\ \A f \in DOMAIN command : f # "texture" => command'[f] = command[f]
      /\ \A f \in DOMAIN bound : f # "texture" => bound'[f] = bound[f]
  BY DEF PushTexture
<1>2. command'.texture = v /\ bound'.texture = v
  BY Domains DEF BindingInv, Fields, PushTexture
<1>3. ListsStay /\ command'.drew = command.drew
  BY <1>1, Domains DEF BindingInv, Fields, ListsStay, PushTexture
<1>4. /\ command'.scissor = command.scissor /\ bound'.scissor = bound.scissor
      /\ command'.vertex = command.vertex /\ bound'.vertex = bound.vertex
      /\ command'.index = command.index /\ bound'.index = bound.index
      /\ command'.clear = command.clear /\ bound'.clear = bound.clear
      /\ command'.sets = command.sets /\ command'.constants = command.constants
      /\ bound'.sets = bound.sets /\ bound'.pipeline = bound.pipeline
      /\ bound'.constants = bound.constants
  BY <1>1, Domains DEF BindingInv, Fields
<1>5. BoundAsAsked'
  BY <1>2, <1>4 DEF BindingInv, BoundAsAsked, IsList, Covers
<1>6. NotRead
  BY DEF PushTexture
<1> QED BY <1>1, <1>3, <1>4, <1>5, <1>6, BindingKept

LEMMA VertexKept ==
  ASSUME BindingInv, Liberties = {}, NEW v, BindVertexBuffer(v)
  PROVE  BindingInv'
<1>1. /\ DOMAIN command' = DOMAIN command /\ DOMAIN bound' = DOMAIN bound
      /\ \A f \in DOMAIN command : f # "vertex" => command'[f] = command[f]
      /\ \A f \in DOMAIN bound : f # "vertex" => bound'[f] = bound[f]
  BY DEF BindVertexBuffer
<1>2. command'.vertex = v /\ bound'.vertex = v
  BY Domains DEF BindingInv, Fields, BindVertexBuffer
<1>3. ListsStay /\ command'.drew = command.drew
  BY <1>1, Domains DEF BindingInv, Fields, ListsStay, BindVertexBuffer
<1>4. /\ command'.texture = command.texture /\ bound'.texture = bound.texture
      /\ command'.scissor = command.scissor /\ bound'.scissor = bound.scissor
      /\ command'.index = command.index /\ bound'.index = bound.index
      /\ command'.clear = command.clear /\ bound'.clear = bound.clear
      /\ command'.sets = command.sets /\ command'.constants = command.constants
      /\ bound'.sets = bound.sets /\ bound'.pipeline = bound.pipeline
      /\ bound'.constants = bound.constants
  BY <1>1, Domains DEF BindingInv, Fields
<1>5. BoundAsAsked'
  BY <1>2, <1>4 DEF BindingInv, BoundAsAsked, IsList, Covers
<1>6. NotRead /\ ~Drawn
  BY DEF BindVertexBuffer
<1> QED BY <1>1, <1>3, <1>4, <1>5, <1>6, BindingKept

LEMMA IndexKept ==
  ASSUME BindingInv, Liberties = {}, NEW v, BindIndexBuffer(v)
  PROVE  BindingInv'
<1>1. /\ DOMAIN command' = DOMAIN command /\ DOMAIN bound' = DOMAIN bound
      /\ \A f \in DOMAIN command : f # "index" => command'[f] = command[f]
      /\ \A f \in DOMAIN bound : f # "index" => bound'[f] = bound[f]
  BY DEF BindIndexBuffer
<1>2. command'.index = v /\ bound'.index = v
  BY Domains DEF BindingInv, Fields, BindIndexBuffer
<1>3. ListsStay /\ command'.drew = command.drew
  BY <1>1, Domains DEF BindingInv, Fields, ListsStay, BindIndexBuffer
<1>4. /\ command'.texture = command.texture /\ bound'.texture = bound.texture
      /\ command'.scissor = command.scissor /\ bound'.scissor = bound.scissor
      /\ command'.vertex = command.vertex /\ bound'.vertex = bound.vertex
      /\ command'.clear = command.clear /\ bound'.clear = bound.clear
      /\ command'.sets = command.sets /\ command'.constants = command.constants
      /\ bound'.sets = bound.sets /\ bound'.pipeline = bound.pipeline
      /\ bound'.constants = bound.constants
  BY <1>1, Domains DEF BindingInv, Fields
<1>5. BoundAsAsked'
  BY <1>2, <1>4 DEF BindingInv, BoundAsAsked, IsList, Covers
<1>6. NotRead /\ ~Drawn
  BY DEF BindIndexBuffer
<1> QED BY <1>1, <1>3, <1>4, <1>5, <1>6, BindingKept

LEMMA ScissorKept ==
  ASSUME BindingInv, Liberties = {}, NEW v, SetScissor(v)
  PROVE  BindingInv'
<1>1. /\ DOMAIN command' = DOMAIN command /\ DOMAIN bound' = DOMAIN bound
      /\ \A f \in DOMAIN command : f # "scissor" => command'[f] = command[f]
      /\ \A f \in DOMAIN bound : f # "scissor" => bound'[f] = bound[f]
  BY DEF SetScissor
<1>2. command'.scissor = v /\ bound'.scissor = v
  BY Domains DEF BindingInv, Fields, SetScissor
<1>3. ListsStay /\ command'.drew = command.drew
  BY <1>1, Domains DEF BindingInv, Fields, ListsStay, SetScissor
<1>4. /\ command'.texture = command.texture /\ bound'.texture = bound.texture
      /\ command'.vertex = command.vertex /\ bound'.vertex = bound.vertex
      /\ command'.index = command.index /\ bound'.index = bound.index
      /\ command'.clear = command.clear /\ bound'.clear = bound.clear
      /\ command'.sets = command.sets /\ command'.constants = command.constants
      /\ bound'.sets = bound.sets /\ bound'.pipeline = bound.pipeline
      /\ bound'.constants = bound.constants
  BY <1>1, Domains DEF BindingInv, Fields
<1>5. BoundAsAsked'
  BY <1>2, <1>4 DEF BindingInv, BoundAsAsked, IsList, Covers
<1>6. NotRead
  BY DEF SetScissor
<1> QED BY <1>1, <1>3, <1>4, <1>5, <1>6, BindingKept

LEMMA ClearKept ==
  ASSUME BindingInv, Liberties = {}, NEW v, ClearAttachments(v)
  PROVE  BindingInv'
<1>1. /\ DOMAIN command' = DOMAIN command /\ DOMAIN bound' = DOMAIN bound
      /\ \A f \in DOMAIN command : f # "clear" => command'[f] = command[f]
      /\ \A f \in DOMAIN bound : f # "clear" => bound'[f] = bound[f]
  BY DEF ClearAttachments
<1>2. command'.clear = v /\ bound'.clear = v
  BY Domains DEF BindingInv, Fields, ClearAttachments
<1>3. ListsStay /\ command'.drew = command.drew
  BY <1>1, Domains DEF BindingInv, Fields, ListsStay, ClearAttachments
<1>4. /\ command'.texture = command.texture /\ bound'.texture = bound.texture
      /\ command'.scissor = command.scissor /\ bound'.scissor = bound.scissor
      /\ command'.vertex = command.vertex /\ bound'.vertex = bound.vertex
      /\ command'.index = command.index /\ bound'.index = bound.index
      /\ command'.sets = command.sets /\ command'.constants = command.constants
      /\ bound'.sets = bound.sets /\ bound'.pipeline = bound.pipeline
      /\ bound'.constants = bound.constants
  BY <1>1, Domains DEF BindingInv, Fields
<1>5. BoundAsAsked'
  BY <1>2, <1>4 DEF BindingInv, BoundAsAsked, IsList, Covers
<1>6. NotRead /\ ~Drawn
  BY DEF ClearAttachments
<1> QED BY <1>1, <1>3, <1>4, <1>5, <1>6, BindingKept

LEMMA PassKept ==
  ASSUME BindingInv, Liberties = {}, NEW v, BeginRenderPass(v)
  PROVE  BindingInv'
<1>1. /\ DOMAIN command' = DOMAIN command /\ DOMAIN bound' = DOMAIN bound
      /\ \A f \in DOMAIN command : f \notin {"pass", "clear", "drew"} => command'[f] = command[f]
      /\ \A f \in DOMAIN bound : f # "clear" => bound'[f] = bound[f]
  BY DEF BeginRenderPass
<1>2. command'.clear = v /\ bound'.clear = v
  BY Domains DEF BindingInv, Fields, BeginRenderPass
<1>3. ListsStay
  BY <1>1, Domains DEF BindingInv, Fields, ListsStay, BeginRenderPass
<1>4. /\ command'.texture = command.texture /\ bound'.texture = bound.texture
      /\ command'.scissor = command.scissor /\ bound'.scissor = bound.scissor
      /\ command'.vertex = command.vertex /\ bound'.vertex = bound.vertex
      /\ command'.index = command.index /\ bound'.index = bound.index
      /\ command'.sets = command.sets /\ command'.constants = command.constants
      /\ bound'.sets = bound.sets /\ bound'.pipeline = bound.pipeline
      /\ bound'.constants = bound.constants
  BY <1>1, Domains DEF BindingInv, Fields
<1>5. BoundAsAsked'
  BY <1>2, <1>4 DEF BindingInv, BoundAsAsked, IsList, Covers
<1>6. NotRead /\ ~Drawn
  BY DEF BeginRenderPass
<1> QED BY <1>1, <1>3, <1>5, <1>6, BindingKept

LEMMA EndPassKept ==
  ASSUME BindingInv, EndRenderPass
  PROVE  BindingInv'
<1>1. /\ DOMAIN command' = DOMAIN command /\ bound' = bound
      /\ \A f \in DOMAIN command : f # "pass" => command'[f] = command[f]
  BY DEF EndRenderPass
<1>2. BoundStay /\ command'.drew = command.drew
  BY <1>1, Domains DEF BindingInv, Fields, BoundStay
<1>3. ListsStay
  BY <1>1, Domains DEF BindingInv, Fields, ListsStay, EndRenderPass
<1>4. NotRead
  BY DEF EndRenderPass
<1> QED BY <1>1, <1>2, <1>3, <1>4, BoundStayKept, BindingKept DEF BoundStay

LEMMA ConstantsGrow ==
  ASSUME NEW c, IsList(c), NEW b, Covers(c, b), NEW word \in Nat \ {0}, NEW value,
         NEW d, d = [Grown(c, word) EXCEPT ![word] = value]
  PROVE  IsList(d) /\ Covers(d, Put(b, word, value))
<1> DEFINE size == IF word > Len(c) THEN word ELSE Len(c)
<1>1. Len(c) \in Nat /\ size \in Nat /\ word \in 1 .. size /\ Len(c) <= size
  BY DEF IsList
<1>2. Grown(c, word) = [w \in 1 .. size |-> IF w <= Len(c) THEN c[w] ELSE 0]
  BY DEF Grown
<1> HIDE DEF size
<1>3. d = [w \in 1 .. size |-> IF w = word THEN value ELSE IF w <= Len(c) THEN c[w] ELSE 0]
  BY <1>1, <1>2
<1>4. Len(d) = size
  BY <1>1, <1>3
<1>5. IsList(d)
  BY <1>1, <1>3, <1>4 DEF IsList
<1>6. \A w \in DOMAIN Put(b, word, value) : w \in 1 .. Len(d) /\ d[w] = Put(b, word, value)[w]
  BY <1>1, <1>3, <1>4 DEF Put, Covers
<1> QED BY <1>5, <1>6 DEF Covers

LEMMA ConstantKept ==
  ASSUME BindingInv, NEW word \in 1 .. Words, NEW value, PushConstant(word, value)
  PROVE  BindingInv'
<1>1. /\ DOMAIN command' = DOMAIN command /\ DOMAIN bound' = DOMAIN bound
      /\ \A f \in DOMAIN command : f # "constants" => command'[f] = command[f]
      /\ \A f \in DOMAIN bound : f # "constants" => bound'[f] = bound[f]
  BY DEF PushConstant
<1>2. /\ command'.constants = [Grown(command.constants, word) EXCEPT ![word] = value]
      /\ bound'.constants = Put(bound.constants, word, value)
  BY Domains DEF BindingInv, Fields, PushConstant
<1>3. ListsStay /\ command'.drew = command.drew
  BY <1>1, Domains DEF BindingInv, Fields, ListsStay, PushConstant
<1>4. /\ command'.texture = command.texture /\ bound'.texture = bound.texture
      /\ command'.scissor = command.scissor /\ bound'.scissor = bound.scissor
      /\ command'.vertex = command.vertex /\ bound'.vertex = bound.vertex
      /\ command'.index = command.index /\ bound'.index = bound.index
      /\ command'.clear = command.clear /\ bound'.clear = bound.clear
      /\ command'.sets = command.sets /\ bound'.sets = bound.sets
      /\ bound'.pipeline = bound.pipeline
  BY <1>1, Domains DEF BindingInv, Fields
<1>5. IsList(command'.constants) /\ Covers(command'.constants, bound'.constants)
  <2>1. word \in Nat \ {0}
    BY BindingAssumption
  <2>2. IsList(command.constants) /\ Covers(command.constants, bound.constants)
    BY DEF BindingInv, BoundAsAsked
  <2> QED BY <1>2, <2>1, <2>2, ConstantsGrow
<1>6. BoundAsAsked'
  BY <1>4, <1>5 DEF BindingInv, BoundAsAsked
<1>7. NotRead
  BY DEF PushConstant
<1> QED BY <1>1, <1>3, <1>4, <1>6, <1>7, BindingKept

\* Whatever a command adds to the lists, what the step leaves alone is kept.
LEMMA UseKept ==
  ASSUME BindingInv, DOMAIN command' = DOMAIN command, DOMAIN asked' = DOMAIN asked,
         BoundStay, NotRead
  PROVE  Fields' /\ BoundAsAsked' /\ SetsAsWritten'
<1>1. Fields'
  BY DEF BindingInv, Fields, BoundStay
<1> QED BY <1>1, BoundStayKept, SetsStayKept

LEMMA RaysPipeline == \A p \in Pipelines : PointOf[p] = "rays" => p = "trace"
BY DEF Pipelines, PointOf

LEMMA DispatchKept ==
  ASSUME BindingInv, Liberties = {}, Dispatch
  PROVE  BindingInv'
<1> DEFINE c == [pipeline |-> command.pipeline, sets |-> command.sets["compute"],
                 constants |-> command.constants, eligible |-> Len(command.constants) >= Words]
           a == [pipeline |-> bound.pipeline["compute"], sets |-> bound.sets["compute"],
                 constants |-> bound.constants]
<1>1. /\ DOMAIN command' = DOMAIN command /\ DOMAIN asked' = DOMAIN asked /\ bound' = bound
      /\ \A f \in DOMAIN command : f # "dispatches" => command'[f] = command[f]
      /\ \A f \in DOMAIN asked : f # "dispatches" => asked'[f] = asked[f]
  BY DEF Dispatch
<1>2. /\ command'.dispatches = Append(command.dispatches, c)
      /\ asked'.dispatches = Append(asked.dispatches, a)
  BY Domains DEF BindingInv, Fields, Dispatch
<1>3. SameDispatch(c, a)
  <2>1. /\ c.pipeline = a.pipeline /\ c.sets = a.sets /\ Covers(c.constants, a.constants)
        /\ a.sets \in [Slots -> Sets \cup {Unset}]
    BY DEF Dispatch, InUse, BindingInv, BoundAsAsked, Points
  <2>2. ASSUME 1 .. Words \subseteq DOMAIN a.constants PROVE c.eligible = TRUE
    <3>1. IsList(command.constants) /\ Covers(command.constants, bound.constants)
      BY DEF BindingInv, BoundAsAsked
    <3>2. Len(command.constants) \in Nat
      BY <3>1 DEF IsList
    <3>3. Words \in Nat
      BY BindingAssumption
    <3>4. 1 .. Words \subseteq DOMAIN bound.constants
      BY <2>2
    <3>5. Words # 0 => Words \in 1 .. Len(command.constants)
      BY <3>1, <3>3, <3>4 DEF Covers
    <3>6. Len(command.constants) >= Words
      BY <3>2, <3>3, <3>5
    <3> DEFINE enough == Len(command.constants) >= Words
    <3>7. enough = TRUE
      BY <3>6
    <3>8. c = [pipeline |-> command.pipeline, sets |-> command.sets["compute"],
               constants |-> command.constants, eligible |-> enough]
      OBVIOUS
    <3> HIDE DEF enough, c
    <3>9. c.eligible = enough
      BY <3>8
    <3> QED BY <3>7, <3>9
  <2>3. c.pipeline = "dispatch"
    <3>1. /\ bound.pipeline["compute"] \in Pipelines
          /\ PointOf[bound.pipeline["compute"]] = "compute"
      BY DEF Dispatch, InUse, BindingInv, BoundAsAsked, Points
    <3>2. bound.pipeline["compute"] = "dispatch"
      BY <3>1 DEF Pipelines, PointOf
    <3> QED BY <2>1, <3>2
  <2> QED BY <2>1, <2>2, <2>3 DEF SameDispatch
<1> HIDE DEF c, a
<1>4. /\ IsList(command'.dispatches) /\ IsList(asked'.dispatches)
      /\ Len(command'.dispatches) = Len(command.dispatches) + 1
      /\ Len(asked'.dispatches) = Len(asked.dispatches) + 1
      /\ \A n \in 1 .. Len(command.dispatches) : command'.dispatches[n] = command.dispatches[n]
      /\ \A n \in 1 .. Len(asked.dispatches) : asked'.dispatches[n] = asked.dispatches[n]
      /\ command'.dispatches[Len(command.dispatches) + 1] = c
      /\ asked'.dispatches[Len(asked.dispatches) + 1] = a
  <2>1. IsList(command.dispatches) /\ IsList(asked.dispatches)
    BY DEF BindingInv, RecordingLists
  <2>2. command'.dispatches = Append(command.dispatches, c)
    BY <1>2
  <2>3. asked'.dispatches = Append(asked.dispatches, a)
    BY <1>2
  <2>4. /\ IsList(command'.dispatches) /\ Len(command'.dispatches) = Len(command.dispatches) + 1
        /\ \A n \in 1 .. Len(command.dispatches) : command'.dispatches[n] = command.dispatches[n]
        /\ command'.dispatches[Len(command.dispatches) + 1] = c
    BY <2>1, <2>2, Appended
  <2>5. /\ IsList(asked'.dispatches) /\ Len(asked'.dispatches) = Len(asked.dispatches) + 1
        /\ \A n \in 1 .. Len(asked.dispatches) : asked'.dispatches[n] = asked.dispatches[n]
        /\ asked'.dispatches[Len(asked.dispatches) + 1] = a
    BY <2>1, <2>3, Appended
  <2> QED BY <2>4, <2>5
<1>5. /\ command'.traces = command.traces /\ command'.draws = command.draws
      /\ command'.drew = command.drew /\ BoundStay
  BY <1>1, Domains DEF BindingInv, Fields, BoundStay
<1>6. /\ asked'.traces = asked.traces /\ asked'.draws = asked.draws
      /\ asked'.triangles = asked.triangles
  BY <1>1, Domains DEF BindingInv, Fields
<1>7. RecordingLists'
  BY <1>4, <1>5, <1>6 DEF BindingInv, RecordingLists, IsList
<1>8. DispatchesKept'
  <2> SUFFICES ASSUME NEW n \in 1 .. Len(asked'.dispatches)
               PROVE  SameDispatch(command'.dispatches[n], asked'.dispatches[n])
    BY DEF DispatchesKept, SameDispatch, Covers
  <2>1. Len(command.dispatches) = Len(asked.dispatches) /\ Len(asked.dispatches) \in Nat
    BY DEF BindingInv, RecordingLists, IsList
  <2>2. CASE n \in 1 .. Len(asked.dispatches)
    BY <2>1, <2>2, <1>4 DEF BindingInv, DispatchesKept
  <2>3. CASE n = Len(asked.dispatches) + 1
    BY <2>1, <2>3, <1>3, <1>4
  <2> QED BY <2>1, <2>2, <2>3, <1>4
<1>9. TracesKept' /\ TrianglesKept'
  BY <1>5, <1>6 DEF BindingInv, TracesKept, TrianglesKept, BoundStay
<1>10. NotRead
  BY DEF Dispatch
<1>11. DrawsKept'
  BY <1>5, <1>6, <1>10 DEF BindingInv, DrawsKept, NotRead, BoundStay, SampledBy
<1> QED BY <1>1, <1>5, <1>7, <1>8, <1>9, <1>10, <1>11, UseKept DEF BindingInv

LEMMA TraceKept ==
  ASSUME BindingInv, Liberties = {}, TraceRays
  PROVE  BindingInv'
<1> DEFINE c == [pipeline |-> command.pipeline, sets |-> command.sets["rays"]]
           a == [pipeline |-> bound.pipeline["rays"], sets |-> bound.sets["rays"]]
<1>1. command.pipeline = bound.pipeline["rays"] /\ command.pipeline = "trace"
  <2>1. command.pipeline = bound.pipeline["rays"] /\ command.pipeline # Unset
    BY DEF TraceRays, InUse
  <2>2. command.pipeline \in Pipelines /\ PointOf[command.pipeline] = "rays"
    BY <2>1 DEF BindingInv, BoundAsAsked, Points
  <2> QED BY <2>1, <2>2, RaysPipeline
<1>2. /\ command' = [command EXCEPT !.traces = Append(@, c)]
      /\ asked' = [asked EXCEPT !.traces = Append(@, a)]
  BY <1>1 DEF TraceRays
<1>3. /\ c.pipeline = a.pipeline /\ c.sets = a.sets
      /\ a.sets \in [Slots -> Sets \cup {Unset}]
  BY <1>1 DEF BindingInv, BoundAsAsked, Points
<1> HIDE DEF c, a
<1>4. /\ DOMAIN command' = DOMAIN command /\ DOMAIN asked' = DOMAIN asked /\ bound' = bound
      /\ \A f \in DOMAIN command : f # "traces" => command'[f] = command[f]
      /\ \A f \in DOMAIN asked : f # "traces" => asked'[f] = asked[f]
  BY <1>2 DEF TraceRays
<1>5. command'.traces = Append(command.traces, c) /\ asked'.traces = Append(asked.traces, a)
  BY <1>2, Domains DEF BindingInv, Fields
<1>6. /\ IsList(command'.traces) /\ IsList(asked'.traces)
      /\ Len(command'.traces) = Len(command.traces) + 1
      /\ Len(asked'.traces) = Len(asked.traces) + 1
      /\ \A n \in 1 .. Len(command.traces) : command'.traces[n] = command.traces[n]
      /\ \A n \in 1 .. Len(asked.traces) : asked'.traces[n] = asked.traces[n]
      /\ command'.traces[Len(command.traces) + 1] = c
      /\ asked'.traces[Len(asked.traces) + 1] = a
  <2>1. IsList(command.traces) /\ IsList(asked.traces)
    BY DEF BindingInv, RecordingLists
  <2>2. command'.traces = Append(command.traces, c)
    BY <1>5
  <2>3. asked'.traces = Append(asked.traces, a)
    BY <1>5
  <2>4. /\ IsList(command'.traces) /\ Len(command'.traces) = Len(command.traces) + 1
        /\ \A n \in 1 .. Len(command.traces) : command'.traces[n] = command.traces[n]
        /\ command'.traces[Len(command.traces) + 1] = c
    BY <2>1, <2>2, Appended
  <2>5. /\ IsList(asked'.traces) /\ Len(asked'.traces) = Len(asked.traces) + 1
        /\ \A n \in 1 .. Len(asked.traces) : asked'.traces[n] = asked.traces[n]
        /\ asked'.traces[Len(asked.traces) + 1] = a
    BY <2>1, <2>3, Appended
  <2> QED BY <2>4, <2>5
<1>7. /\ command'.dispatches = command.dispatches /\ command'.draws = command.draws
      /\ command'.drew = command.drew /\ BoundStay
  BY <1>4, Domains DEF BindingInv, Fields, BoundStay
<1>8. /\ asked'.dispatches = asked.dispatches /\ asked'.draws = asked.draws
      /\ asked'.triangles = asked.triangles
  BY <1>4, Domains DEF BindingInv, Fields
<1>9. RecordingLists'
  BY <1>6, <1>7, <1>8 DEF BindingInv, RecordingLists, IsList
<1>10. TracesKept'
  <2> SUFFICES ASSUME NEW n \in 1 .. Len(asked'.traces)
               PROVE  /\ command'.traces[n].pipeline = asked'.traces[n].pipeline
                      /\ command'.traces[n].sets = asked'.traces[n].sets
                      /\ asked'.traces[n].sets \in [Slots -> Sets \cup {Unset}]
    BY DEF TracesKept
  <2>1. Len(command.traces) = Len(asked.traces) /\ Len(asked.traces) \in Nat
    BY DEF BindingInv, RecordingLists, IsList
  <2>2. CASE n \in 1 .. Len(asked.traces)
    BY <2>1, <2>2, <1>6 DEF BindingInv, TracesKept
  <2>3. CASE n = Len(asked.traces) + 1
    BY <2>1, <2>3, <1>3, <1>6
  <2> QED BY <2>1, <2>2, <2>3, <1>6
<1>11. DispatchesKept' /\ TrianglesKept'
  BY <1>7, <1>8 DEF BindingInv, DispatchesKept, TrianglesKept, BoundStay, Covers
<1>12. NotRead
  BY DEF TraceRays
<1>13. DrawsKept'
  BY <1>7, <1>8, <1>12 DEF BindingInv, DrawsKept, NotRead, BoundStay, SampledBy
<1> QED BY <1>4, <1>7, <1>9, <1>10, <1>11, <1>12, <1>13, UseKept DEF BindingInv

LEMMA DrawIndexedKept ==
  ASSUME BindingInv, Liberties = {}, DrawIndexed
  PROVE  BindingInv'
<1> DEFINE c == [texture |-> SampledBy(command.sets["graphics"][0], command.texture),
                 scissor |-> command.scissor]
           a == [set |-> bound.sets["graphics"][0], element |-> bound.texture,
                 scissor |-> bound.scissor, vertex |-> bound.vertex, index |-> bound.index,
                 clear |-> bound.clear]
<1>1. command.pipeline = "ui"
  BY DEF DrawIndexed, InUse
<1>2. /\ command' = [command EXCEPT !.draws = Append(@, c)]
      /\ asked' = [asked EXCEPT !.draws = Append(@, a)]
  BY <1>1 DEF DrawIndexed
<1>3. NotRead /\ bound' = bound
  BY DEF DrawIndexed
<1>4. /\ command.sets = bound.sets /\ command.texture = bound.texture
      /\ command.scissor = bound.scissor /\ command.vertex = bound.vertex
      /\ command.index = bound.index /\ command.clear = bound.clear
      /\ bound.sets["graphics"][0] \in Sets \cup {Unset}
  BY BindingAssumption DEF BindingInv, BoundAsAsked, Points
<1>5. /\ c.texture = SampledBy(a.set, a.element) /\ c.texture \in alive \cup {Unset}
      /\ a.set \in Sets \cup {Unset} /\ c.scissor = a.scissor
      /\ a.vertex = command.vertex /\ a.index = command.index /\ a.clear = command.clear
  BY <1>4 DEF DrawIndexed
<1> HIDE DEF c, a
<1>6. /\ DOMAIN command' = DOMAIN command /\ DOMAIN asked' = DOMAIN asked
      /\ \A f \in DOMAIN command : f # "draws" => command'[f] = command[f]
      /\ \A f \in DOMAIN asked : f # "draws" => asked'[f] = asked[f]
  BY <1>2
<1>7. command'.draws = Append(command.draws, c) /\ asked'.draws = Append(asked.draws, a)
  BY <1>2, Domains DEF BindingInv, Fields
<1>8. /\ IsList(command'.draws) /\ IsList(asked'.draws)
      /\ Len(command'.draws) = Len(command.draws) + 1
      /\ Len(asked'.draws) = Len(asked.draws) + 1
      /\ \A n \in 1 .. Len(command.draws) : command'.draws[n] = command.draws[n]
      /\ \A n \in 1 .. Len(asked.draws) : asked'.draws[n] = asked.draws[n]
      /\ command'.draws[Len(command.draws) + 1] = c
      /\ asked'.draws[Len(asked.draws) + 1] = a
  <2>1. IsList(command.draws) /\ IsList(asked.draws)
    BY DEF BindingInv, RecordingLists
  <2>2. command'.draws = Append(command.draws, c)
    BY <1>7
  <2>3. asked'.draws = Append(asked.draws, a)
    BY <1>7
  <2>4. /\ IsList(command'.draws) /\ Len(command'.draws) = Len(command.draws) + 1
        /\ \A n \in 1 .. Len(command.draws) : command'.draws[n] = command.draws[n]
        /\ command'.draws[Len(command.draws) + 1] = c
    BY <2>1, <2>2, Appended
  <2>5. /\ IsList(asked'.draws) /\ Len(asked'.draws) = Len(asked.draws) + 1
        /\ \A n \in 1 .. Len(asked.draws) : asked'.draws[n] = asked.draws[n]
        /\ asked'.draws[Len(asked.draws) + 1] = a
    BY <2>1, <2>3, Appended
  <2> QED BY <2>4, <2>5
<1>9. /\ command'.dispatches = command.dispatches /\ command'.traces = command.traces
      /\ command'.drew = command.drew /\ BoundStay
  BY <1>3, <1>6, Domains DEF BindingInv, Fields, BoundStay
<1>10. /\ asked'.dispatches = asked.dispatches /\ asked'.traces = asked.traces
       /\ asked'.triangles = asked.triangles
  BY <1>6, Domains DEF BindingInv, Fields
<1>11. RecordingLists'
  BY <1>8, <1>9, <1>10 DEF BindingInv, RecordingLists, IsList
<1>12. DispatchesKept' /\ TracesKept' /\ TrianglesKept'
  BY <1>9, <1>10 DEF BindingInv, DispatchesKept, TracesKept, TrianglesKept, BoundStay, Covers
<1>13. contents' = contents /\ alive' = alive
  BY <1>3 DEF NotRead
<1>14. ASSUME NEW n \in 1 .. Len(asked'.draws)
       PROVE  /\ command'.draws[n].texture = SampledBy(asked'.draws[n].set, asked'.draws[n].element)
              /\ command'.draws[n].texture \in alive \cup {Unset}
              /\ asked'.draws[n].set \in Sets \cup {Unset}
              /\ command'.draws[n].scissor = asked'.draws[n].scissor
              /\ asked'.draws[n].vertex = command.vertex
              /\ asked'.draws[n].index = command.index
              /\ asked'.draws[n].clear = command.clear
  <2>1. Len(command.draws) = Len(asked.draws) /\ Len(asked.draws) \in Nat
    BY DEF BindingInv, RecordingLists, IsList
  <2>2. CASE n \in 1 .. Len(asked.draws)
    BY <2>1, <2>2, <1>8 DEF BindingInv, DrawsKept
  <2>3. CASE n = Len(asked.draws) + 1
    BY <2>1, <2>3, <1>5, <1>8
  <2> QED BY <2>1, <2>2, <2>3, <1>8
<1>15. DrawsKept'
  BY <1>9, <1>13, <1>14 DEF DrawsKept, SampledBy, BoundStay
<1> QED BY <1>3, <1>6, <1>9, <1>11, <1>12, <1>15, UseKept DEF BindingInv

LEMMA DrawKept ==
  ASSUME BindingInv, Liberties = {}, Draw
  PROVE  BindingInv'
<1>1. command.pipeline = "triangle"
  BY DEF Draw, InUse
<1>2. /\ DOMAIN command' = DOMAIN command /\ DOMAIN asked' = DOMAIN asked /\ bound' = bound
      /\ \A f \in DOMAIN command : f # "drew" => command'[f] = command[f]
      /\ \A f \in DOMAIN asked : f # "triangles" => asked'[f] = asked[f]
      /\ NotRead
  BY DEF Draw
<1>3. command'.drew
  <2>1. command'.drew = (command.drew \/ command.pipeline = "triangle")
    BY Domains DEF BindingInv, Fields, Draw
  <2> QED BY <1>1, <2>1
<1>4. asked'.triangles = Append(asked.triangles, command.clear)
  <2>1. asked'.triangles = Append(asked.triangles, bound.clear)
    BY Domains DEF BindingInv, Fields, Draw
  <2> QED BY <2>1 DEF BindingInv, BoundAsAsked
<1>5. /\ IsList(asked'.triangles) /\ Len(asked'.triangles) = Len(asked.triangles) + 1
      /\ \A n \in 1 .. Len(asked.triangles) : asked'.triangles[n] = asked.triangles[n]
      /\ asked'.triangles[Len(asked.triangles) + 1] = command.clear
  <2>1. IsList(asked.triangles)
    BY DEF BindingInv, RecordingLists
  <2>2. asked'.triangles = Append(asked.triangles, command.clear)
    BY <1>4
  <2>3. IsList(asked'.triangles)
    <3>1. IsList(Append(asked.triangles, command.clear))
      BY <2>1, Appended
    <3> QED BY <2>2, <3>1
  <2>4. Len(asked'.triangles) = Len(asked.triangles) + 1
    BY <2>1, <2>2, Appended
  <2>5. \A n \in 1 .. Len(asked.triangles) : asked'.triangles[n] = asked.triangles[n]
    BY <2>1, <2>2, Appended
  <2>6. asked'.triangles[Len(asked.triangles) + 1] = command.clear
    BY <2>1, <2>2, Appended
  <2> QED BY <2>3, <2>4, <2>5, <2>6
<1>6. /\ command'.dispatches = command.dispatches /\ command'.traces = command.traces
      /\ command'.draws = command.draws /\ BoundStay
  BY <1>2, Domains DEF BindingInv, Fields, BoundStay
<1>7. /\ asked'.dispatches = asked.dispatches /\ asked'.traces = asked.traces
      /\ asked'.draws = asked.draws
  BY <1>2, Domains DEF BindingInv, Fields
<1>8. RecordingLists'
  BY <1>5, <1>6, <1>7 DEF BindingInv, RecordingLists, IsList
<1>9. DispatchesKept' /\ TracesKept'
  BY <1>6, <1>7 DEF BindingInv, DispatchesKept, TracesKept, BoundStay, Covers
<1>10. DrawsKept'
  BY <1>2, <1>6, <1>7 DEF BindingInv, DrawsKept, NotRead, BoundStay, SampledBy
<1>11. TrianglesKept'
  <2>1. Len(asked.triangles) \in Nat
    BY DEF BindingInv, RecordingLists, IsList
  <2>2. ASSUME NEW n \in 1 .. Len(asked'.triangles)
        PROVE  asked'.triangles[n] = command.clear
    BY <2>1, <1>5 DEF BindingInv, TrianglesKept
  <2> QED BY <2>2, <1>3, <1>6 DEF TrianglesKept, BoundStay
<1> QED BY <1>2, <1>6, <1>8, <1>9, <1>10, <1>11, UseKept DEF BindingInv

----------------------------------------------------------------------------
(* What sets hold, and what they name.                                     *)

Recorded == UNCHANGED command /\ UNCHANGED bound /\ UNCHANGED asked

LEMMA RecordedKept ==
  ASSUME BindingInv, Recorded
  PROVE  /\ Fields' /\ BoundAsAsked' /\ RecordingLists'
         /\ DispatchesKept' /\ TracesKept' /\ TrianglesKept'
BY DEF BindingInv, Recorded, Fields, BoundAsAsked, RecordingLists, DispatchesKept, TracesKept,
       TrianglesKept, IsList, Covers

LEMMA UpdateImageKept ==
  ASSUME BindingInv, Liberties = {}, Bindings = {0}, NEW d \in Sets, NEW kind,
         NEW binding \in Bindings, NEW e, NEW image,
         UpdateImageDescriptor(d, kind, binding, e, image)
  PROVE  BindingInv'
<1> DEFINE key == Key(kind, binding, e)
           sampled == IF kind = "sampled" THEN Put(contents[d].sampled, e, image)
                      ELSE contents[d].sampled
           bindings == Put(contents[d].bindings, key, image)
<1>1. /\ contents' = [contents EXCEPT ![d] =
                       [contents[d] EXCEPT !.sampled = sampled, !.bindings = bindings]]
      /\ written' = [written EXCEPT ![d] = Put(written[d], key, image)]
      /\ binding = 0 /\ Recorded /\ alive' = alive
  BY DEF UpdateImageDescriptor, Recorded
<1>2. /\ DOMAIN contents' = Sets /\ DOMAIN written' = Sets
      /\ \A x \in Sets : x # d => contents'[x] = contents[x] /\ written'[x] = written[x]
      /\ DOMAIN contents'[d] = {"sampled", "bindings"}
      /\ contents'[d].sampled = sampled /\ contents'[d].bindings = bindings
      /\ written'[d] = Put(written[d], key, image)
  BY <1>1 DEF BindingInv, SetsAsWritten
<1>3. bindings = Put(written[d], key, image)
  BY DEF BindingInv, SetsAsWritten
<1>4. ASSUME NEW x
      PROVE  At(sampled, x) = At(Put(written[d], key, image), Key("sampled", 0, x))
  <2>1. At(contents[d].sampled, x) = At(written[d], Key("sampled", 0, x))
    BY DEF BindingInv, SetsAsWritten
  <2>2. CASE kind = "sampled" /\ x = e
    BY <1>1, <2>2 DEF At, Put
  <2>3. CASE kind = "sampled" /\ x # e
    BY <1>1, <2>1, <2>3 DEF At, Put, Key
  <2>4. CASE kind # "sampled"
    BY <2>1, <2>4 DEF At, Put, Key
  <2> QED BY <2>2, <2>3, <2>4
<1> HIDE DEF key, sampled, bindings
<1>5. SetsAsWritten'
  BY <1>2, <1>3, <1>4 DEF BindingInv, SetsAsWritten
<1>6. \A n \in 1 .. Len(asked.draws) : asked.draws[n].set # d
  BY DEF UpdateImageDescriptor, ReadByDraw, BindingInv, RecordingLists, IsList
<1>7. DrawsKept'
  BY <1>1, <1>2, <1>6 DEF BindingInv, DrawsKept, Recorded, SampledBy
<1> QED BY <1>1, <1>5, <1>7, RecordedKept DEF BindingInv

LEMMA UpdateBufferKept ==
  ASSUME BindingInv, NEW d \in Sets, NEW e, NEW buffer, UpdateBufferDescriptor(d, e, buffer)
  PROVE  BindingInv'
<1> DEFINE key == Key("buffer", 0, e)
           bindings == Put(contents[d].bindings, key, buffer)
<1>1. /\ contents' = [contents EXCEPT ![d] = [contents[d] EXCEPT !.bindings = bindings]]
      /\ written' = [written EXCEPT ![d] = Put(written[d], key, buffer)]
      /\ Recorded /\ alive' = alive
  BY DEF UpdateBufferDescriptor, Recorded
<1>2. /\ DOMAIN contents' = Sets /\ DOMAIN written' = Sets
      /\ \A x \in Sets : x # d => contents'[x] = contents[x] /\ written'[x] = written[x]
      /\ DOMAIN contents'[d] = {"sampled", "bindings"}
      /\ contents'[d].sampled = contents[d].sampled /\ contents'[d].bindings = bindings
      /\ written'[d] = Put(written[d], key, buffer)
  BY <1>1 DEF BindingInv, SetsAsWritten
<1>3. bindings = Put(written[d], key, buffer)
  BY DEF BindingInv, SetsAsWritten
<1>4. ASSUME NEW x
      PROVE  At(contents[d].sampled, x) = At(Put(written[d], key, buffer), Key("sampled", 0, x))
  <2>1. At(contents[d].sampled, x) = At(written[d], Key("sampled", 0, x))
    BY DEF BindingInv, SetsAsWritten
  <2> QED BY <2>1 DEF At, Put, Key
<1> HIDE DEF key, bindings
<1>5. SetsAsWritten'
  BY <1>2, <1>3, <1>4 DEF BindingInv, SetsAsWritten
<1>6. \A x \in Sets : contents'[x].sampled = contents[x].sampled
  BY <1>2
<1>7. DrawsKept'
  BY <1>1, <1>6 DEF BindingInv, DrawsKept, Recorded, SampledBy
<1> QED BY <1>1, <1>5, <1>7, RecordedKept DEF BindingInv

LEMMA DestroyKept ==
  ASSUME BindingInv, NEW o, Destroy(o)
  PROVE  BindingInv'
<1>1. Recorded /\ alive' = alive \ {o} /\ contents' = contents /\ written' = written
  BY DEF Destroy, ghosts, Recorded
<1>2. \A n \in 1 .. Len(asked.draws) : command.draws[n].texture # o
  BY DEF Destroy, DrawnWith, BindingInv, RecordingLists, IsList
<1>3. DrawsKept'
  BY <1>1, <1>2 DEF BindingInv, DrawsKept, Recorded, SampledBy
<1>4. SetsAsWritten'
  BY <1>1 DEF BindingInv, SetsAsWritten
<1> QED BY <1>1, <1>3, <1>4, RecordedKept DEF BindingInv

LEMMA BindingInitially == BindingInit => BindingInv
<1> SUFFICES ASSUME BindingInit PROVE BindingInv
  OBVIOUS
<1>1. Fields
  BY DEF BindingInit, Fields
<1>2. BoundAsAsked
  BY EmptyIsList DEF BindingInit, BoundAsAsked, Cleared, Unbound, NoSets, Covers, EmptyTable, Points
<1>3. SetsAsWritten
  BY DEF BindingInit, SetsAsWritten, At, EmptyTable
<1>4. RecordingLists
  BY EmptyIsList DEF BindingInit, RecordingLists, Cleared, NothingAsked
<1>5. DispatchesKept /\ TracesKept /\ DrawsKept /\ TrianglesKept
  BY EmptyIsList DEF BindingInit, DispatchesKept, TracesKept, DrawsKept, TrianglesKept, NothingAsked
<1> QED BY <1>1, <1>2, <1>3, <1>4, <1>5 DEF BindingInv

----------------------------------------------------------------------------
(* What a submit runs.                                                     *)

\* A set of numbers below a bound has a last one.
LEMMA LastOf ==
  ASSUME NEW top \in Nat, NEW S, S \subseteq 0 .. top, S # {}
  PROVE  \E s \in S : \A t \in S : t <= s
<1> DEFINE Below == {top - s : s \in S}
<1>0. \A s \in S : s \in Nat /\ top - s \in Nat
  OBVIOUS
<1>1. Below \subseteq Nat /\ Below # {}
  BY <1>0
<1>2. PICK x \in Below : \A y \in Below : ~(<<y, x>> \in OpToRel(<, Nat))
  BY <1>1, NatLessThanWellFounded, WFMin
<1>3. \A y \in Below : ~(y < x)
  BY <1>1, <1>2 DEF OpToRel
<1>4. PICK s \in S : x = top - s
  OBVIOUS
<1>5. ASSUME NEW t \in S PROVE t <= s
  <2>1. ~(top - t < x)
    BY <1>3
  <2>2. t \in Nat /\ s \in Nat
    BY <1>0
  <2> QED BY <1>4, <2>1, <2>2
<1> QED BY <1>5

LEMMA TargetNamed ==
  ASSUME BindingInv, NEW n \in 1 .. Len(asked.traces), NEW target,
         target \in Targets(command.traces[n]),
         OutputsOf(asked.traces[n].sets) \cap alive # {}
  PROVE  target \in OutputsOf(asked.traces[n].sets)
<1> DEFINE sets == asked.traces[n].sets
           naming == {s \in Slots : LiveOutputs(sets[s]) # {}}
           chosen == CHOOSE s \in naming : \A t \in naming : t <= s
<1>1. command.traces[n].sets = sets /\ sets \in [Slots -> Sets \cup {Unset}]
  BY DEF BindingInv, TracesKept
<1>2. ASSUME NEW s \in Slots, sets[s] # Unset
      PROVE  LiveOutputs(sets[s]) = Stored(written[sets[s]]) \cap alive
  <2>1. contents[sets[s]].bindings = written[sets[s]]
    BY <1>1, <1>2 DEF BindingInv, SetsAsWritten
  <2> QED BY <1>2, <2>1 DEF LiveOutputs
<1>3. naming # {}
  <2>1. PICK o \in alive : o \in OutputsOf(sets)
    OBVIOUS
  <2>2. PICK s \in Slots : sets[s] # Unset /\ o \in Stored(written[sets[s]])
    BY <2>1 DEF OutputsOf
  <2>3. o \in LiveOutputs(sets[s])
    BY <1>2, <2>1, <2>2
  <2> QED BY <2>3
<1>4. \E s \in naming : \A t \in naming : t <= s
  <2>1. PICK last \in Nat \cap Slots : Slots \subseteq 0 .. last
    BY BindingAssumption
  <2>2. naming \subseteq 0 .. last
    BY <2>1
  <2> HIDE DEF naming
  <2> QED BY <1>3, <2>1, <2>2, LastOf
<1>5. chosen \in naming
  BY <1>4
<1>6. Targets(command.traces[n]) = LiveOutputs(sets[chosen])
  BY <1>1, <1>3 DEF Targets
<1> HIDE DEF chosen
<1>7. sets[chosen] # Unset
  BY <1>5 DEF LiveOutputs
<1>8. target \in Stored(written[sets[chosen]])
  BY <1>2, <1>5, <1>6, <1>7
<1> QED BY <1>5, <1>7, <1>8 DEF OutputsOf

\* A submit that succeeds is of the commands as they were bound.
LEMMA RunAsAsked ==
  ASSUME BindingInv, NEW targets,
         \A n \in DOMAIN command.traces : targets[n] \in Targets(command.traces[n]),
         frame' = RunOf(targets), UNCHANGED <<command, contents, alive, ghosts>>
  PROVE  RecordedAsBound'
<1>1. /\ DOMAIN command.dispatches = 1 .. Len(asked.dispatches)
      /\ DOMAIN asked.dispatches = 1 .. Len(asked.dispatches)
      /\ DOMAIN command.traces = 1 .. Len(asked.traces)
      /\ DOMAIN asked.traces = 1 .. Len(asked.traces)
      /\ DOMAIN command.draws = 1 .. Len(asked.draws)
      /\ DOMAIN asked.draws = 1 .. Len(asked.draws)
      /\ Len(asked.triangles) \in Nat
  BY DEF BindingInv, RecordingLists, IsList
<1>2. /\ frame'.dispatches = [n \in 1 .. Len(asked.dispatches) |->
            DispatchRun(command.dispatches[n])]
      /\ frame'.traces = [n \in 1 .. Len(asked.traces) |->
            [pipeline |-> command.traces[n].pipeline, target |-> targets[n]]]
      /\ frame'.ui = [n \in 1 .. Len(asked.draws) |->
            [texture |-> IF command.draws[n].texture \in alive THEN command.draws[n].texture
                         ELSE Unset,
             scissor |-> command.draws[n].scissor, vertex |-> command.vertex,
             index |-> command.index, clear |-> command.clear]]
      /\ frame'.triangle = IF command.drew THEN <<command.clear>> ELSE <<>>
  BY <1>1 DEF RunOf
<1>3. asked' = asked /\ written' = written /\ alive' = alive
  BY DEF ghosts
<1>4. ASSUME NEW n \in 1 .. Len(asked.dispatches)
      PROVE  DispatchAsAsked(frame'.dispatches[n], asked.dispatches[n])
  <2> DEFINE c == command.dispatches[n]
             a == asked.dispatches[n]
  <2>1. frame'.dispatches[n] = DispatchRun(c)
    BY <1>2
  <2>2. SameDispatch(c, a)
    BY DEF BindingInv, DispatchesKept
  <2>3. ASSUME NEW s \in Slots, a.sets[s] # Unset
        PROVE  contents[a.sets[s]].bindings = written[a.sets[s]]
    BY <2>2, <2>3 DEF SameDispatch, BindingInv, SetsAsWritten
  <2> HIDE DEF c, a
  <2>4. CASE Dispatched(c)
    <3>1. DispatchRun(c) = [pipeline |-> c.pipeline, bindings |-> Sent(c.sets),
                            constants |-> c.constants]
      BY <2>4 DEF DispatchRun
    <3>2. Sent(a.sets) = WrittenTo(a.sets)
      BY <2>3 DEF Sent, WrittenTo
    <3> QED BY <2>1, <2>2, <3>1, <3>2 DEF SameDispatch, DispatchAsAsked, Covers, a
  <2>5. CASE ~Dispatched(c)
    <3>1. DispatchRun(c) = Skipped
      BY <2>5 DEF DispatchRun
    <3>2. CASE ~c.eligible
      BY <2>1, <2>2, <3>1, <3>2 DEF SameDispatch, DispatchAsAsked, MaySkip, a
    <3>3. CASE c.eligible
      <4>1. PICK s \in Slots : c.sets[s] # Unset /\ ~(Described(c.sets[s]) \subseteq alive)
        BY <2>2, <2>5, <3>3 DEF SameDispatch, Dispatched
      <4>2. a.sets[s] # Unset /\ c.sets = a.sets
        BY <2>2, <4>1 DEF SameDispatch
      <4>3. \E key \in DOMAIN written[a.sets[s]] : written[a.sets[s]][key] \notin alive
        BY <2>3, <4>1, <4>2 DEF Described
      <4>4. MaySkip(a)
        BY <4>2, <4>3 DEF MaySkip
      <4> QED BY <2>1, <3>1, <4>4 DEF DispatchAsAsked, a
    <3> QED BY <3>2, <3>3
  <2> QED BY <2>4, <2>5
<1>5. ASSUME NEW n \in 1 .. Len(asked.traces)
      PROVE  TraceAsAsked(frame'.traces[n], asked.traces[n])
  <2>1. frame'.traces[n].pipeline = command.traces[n].pipeline /\ frame'.traces[n].target = targets[n]
    BY <1>2
  <2>2. command.traces[n].pipeline = asked.traces[n].pipeline
    BY DEF BindingInv, TracesKept
  <2>3. targets[n] \in Targets(command.traces[n])
    BY <1>1
  <2> QED BY <2>1, <2>2, <2>3, TargetNamed DEF TraceAsAsked
<1>6. ASSUME NEW n \in 1 .. Len(asked.draws)
      PROVE  DrawAsAsked(frame'.ui[n], asked.draws[n])
  <2>1. /\ frame'.ui[n].texture = IF command.draws[n].texture \in alive
                                  THEN command.draws[n].texture ELSE Unset
        /\ frame'.ui[n].scissor = command.draws[n].scissor
        /\ frame'.ui[n].vertex = command.vertex
        /\ frame'.ui[n].index = command.index
        /\ frame'.ui[n].clear = command.clear
    BY <1>2
  <2>2. /\ command.draws[n].texture = SampledBy(asked.draws[n].set, asked.draws[n].element)
        /\ command.draws[n].texture \in alive \cup {Unset}
        /\ asked.draws[n].set \in Sets \cup {Unset}
        /\ command.draws[n].scissor = asked.draws[n].scissor
        /\ asked.draws[n].vertex = command.vertex
        /\ asked.draws[n].index = command.index
        /\ asked.draws[n].clear = command.clear
    BY DEF BindingInv, DrawsKept
  <2>3. frame'.ui[n].texture = SampledBy(asked.draws[n].set, asked.draws[n].element)
    BY <2>1, <2>2
  <2>4. asked.draws[n].set # Unset =>
          SampledBy(asked.draws[n].set, asked.draws[n].element)
            = At(written[asked.draws[n].set], Key("sampled", 0, asked.draws[n].element))
    BY <2>2 DEF BindingInv, SetsAsWritten, SampledBy
  <2> QED BY <2>1, <2>2, <2>3, <2>4 DEF DrawAsAsked, SampledBy
<1>7. asked.triangles # <<>> => frame'.triangle = <<asked.triangles[Len(asked.triangles)]>>
  <2> SUFFICES ASSUME asked.triangles # <<>>
               PROVE  frame'.triangle = <<asked.triangles[Len(asked.triangles)]>>
    OBVIOUS
  <2>1. Len(asked.triangles) \in 1 .. Len(asked.triangles)
    BY <1>1 DEF BindingInv, RecordingLists, IsList
  <2>2. command.drew /\ asked.triangles[Len(asked.triangles)] = command.clear
    BY <2>1 DEF BindingInv, TrianglesKept
  <2> QED BY <1>2, <2>2
<1>8. /\ DOMAIN frame'.dispatches = DOMAIN asked.dispatches
      /\ DOMAIN frame'.traces = DOMAIN asked.traces
      /\ DOMAIN frame'.ui = DOMAIN asked.draws
  BY <1>1, <1>2
<1>9. \A n \in 1 .. Len(asked.dispatches) :
        DispatchAsAsked(frame.dispatches[n], asked.dispatches[n])'
  BY <1>3, <1>4 DEF DispatchAsAsked, WrittenTo, MaySkip
<1>10. \A n \in 1 .. Len(asked.traces) : TraceAsAsked(frame.traces[n], asked.traces[n])'
  BY <1>3, <1>5 DEF TraceAsAsked, OutputsOf
<1>11. \A n \in 1 .. Len(asked.draws) : DrawAsAsked(frame.ui[n], asked.draws[n])'
  BY <1>3, <1>6 DEF DrawAsAsked
<1> QED BY <1>1, <1>3, <1>7, <1>8, <1>9, <1>10, <1>11 DEF RecordedAsBound

LEMMA PresentKept ==
  ASSUME BindingInv, Present
  PROVE  BindingInv' /\ RecordedAsBound'
<1>1. UNCHANGED <<command, contents, alive, ghosts>>
  BY DEF Present
<1>2. BindingInv'
  <2>1. Recorded /\ contents' = contents /\ written' = written /\ alive' = alive
    BY <1>1 DEF Recorded, ghosts
  <2>2. SetsAsWritten'
    BY <2>1 DEF BindingInv, SetsAsWritten
  <2>3. DrawsKept'
    BY <2>1 DEF BindingInv, DrawsKept, Recorded, SampledBy
  <2> QED BY <2>1, <2>2, <2>3, RecordedKept DEF BindingInv
<1>3. CASE \E targets \in [DOMAIN command.traces -> Textures] :
             /\ \A n \in DOMAIN command.traces : targets[n] \in Targets(command.traces[n])
             /\ frame' = RunOf(targets)
  <2>1. PICK targets \in [DOMAIN command.traces -> Textures] :
          /\ \A n \in DOMAIN command.traces : targets[n] \in Targets(command.traces[n])
          /\ frame' = RunOf(targets)
    BY <1>3
  <2> QED BY <1>1, <1>2, <2>1, RunAsAsked
<1>4. CASE frame' = [NoFrame EXCEPT !.result = "failed"]
  <2>1. frame'.result = "failed"
    BY <1>4 DEF NoFrame
  <2> QED BY <1>2, <2>1 DEF RecordedAsBound
<1> QED BY <1>2, <1>3, <1>4 DEF Present

----------------------------------------------------------------------------

\* No step but a submit says what was run.
LEMMA NotRunHolds == ASSUME NotRun PROVE RecordedAsBound'
BY DEF NotRun, NoFrame, Unset, RecordedAsBound

LEMMA NextKept ==
  ASSUME BindingInv, Liberties = {}, Bindings = {0}, BindingNext
  PROVE  BindingInv' /\ RecordedAsBound'
<1>1. CASE Lifetime
  <2>1. NotRun
    BY <1>1 DEF Lifetime, Begin, End, Reset, NotRead
  <2> QED BY <1>1, <2>1, LifetimeKept, NotRunHolds
<1>2. CASE Present
  BY <1>2, PresentKept
<1>3. CASE Destroying
  <2>1. PICK o \in Textures \cup Buffers : Destroy(o)
    BY <1>3 DEF Destroying
  <2>2. NotRun
    BY <2>1 DEF Destroy
  <2> QED BY <2>1, <2>2, DestroyKept, NotRunHolds
<1>4. CASE ComputeUse
  <2>1. NotRun
    BY <1>4 DEF ComputeUse, Dispatch, PushConstant, NotRead
  <2>2. CASE Dispatch
    BY <2>1, <2>2, DispatchKept, NotRunHolds
  <2>3. CASE \E word \in 1 .. Words : PushConstant(word, 1)
    BY <2>1, <2>3, ConstantKept, NotRunHolds
  <2> QED BY <1>4, <2>2, <2>3 DEF ComputeUse
<1>5. CASE TraceRays
  <2>1. NotRun
    BY <1>5 DEF TraceRays, NotRead
  <2> QED BY <1>5, <2>1, TraceKept, NotRunHolds
<1>6. CASE GraphicsUse
  <2>1. NotRun
    BY <1>6 DEF GraphicsUse, PushTexture, BindVertexBuffer, BindIndexBuffer, SetScissor,
                EndRenderPass, DrawIndexed, Draw, BeginRenderPass, ClearAttachments, NotRead
  <2>2. BindingInv'
    BY <1>6, TextureKept, VertexKept, IndexKept, ScissorKept, EndPassKept, DrawIndexedKept,
       DrawKept, PassKept, ClearKept DEF GraphicsUse
  <2> QED BY <2>1, <2>2, NotRunHolds
<1>7. ASSUME NEW point \in Points, Binding(point)
      PROVE  BindingInv' /\ RecordedAsBound'
  <2>1. NotRun
    BY <1>7 DEF Binding, BindPipelineSlot, BindDescriptorSet, NotRead
  <2>2. BindingInv'
    BY <1>7, SlotKept, SetKept DEF Binding
  <2> QED BY <2>1, <2>2, NotRunHolds
<1>8. ASSUME NEW kind \in Kinds, Updating(kind)
      PROVE  BindingInv' /\ RecordedAsBound'
  <2>1. NotRun
    BY <1>8 DEF Updating, UpdateImageDescriptor, UpdateBufferDescriptor
  <2>2. BindingInv'
    BY <1>8, UpdateImageKept, UpdateBufferKept DEF Updating
  <2> QED BY <2>1, <2>2, NotRunHolds
<1> QED BY <1>1, <1>2, <1>3, <1>4, <1>5, <1>6, <1>7, <1>8 DEF BindingNext

\* An application that takes none of the liberties, and whose sets hold their
\* sampled images in binding 0: what a submit runs is what was recorded, with
\* what was bound when it was recorded, and what it skips are dispatches of
\* unset constants or of resources that are gone.
THEOREM RecordingsRunAsBound ==
  ASSUME Liberties = {}, Bindings = {0}
  PROVE  BindingSpec => []RecordedAsBound
<1> DEFINE Inv == BindingInv /\ RecordedAsBound
<1>1. BindingInit => Inv
  BY BindingInitially DEF BindingInit, NoFrame, Unset, RecordedAsBound
<1>2. Inv /\ [BindingNext]_bindingVars => Inv'
  <2> SUFFICES ASSUME Inv, [BindingNext]_bindingVars PROVE Inv'
    OBVIOUS
  <2>1. CASE BindingNext
    BY <2>1, NextKept
  <2>2. CASE UNCHANGED bindingVars
    <3>1. /\ Recorded /\ contents' = contents /\ written' = written /\ alive' = alive
          /\ frame' = frame
      BY <2>2 DEF bindingVars, Recorded
    <3>2. SetsAsWritten'
      BY <3>1 DEF BindingInv, SetsAsWritten
    <3>3. DrawsKept'
      BY <3>1 DEF BindingInv, DrawsKept, Recorded, SampledBy
    <3>4. RecordedAsBound'
      <4>1. ASSUME NEW n \in DOMAIN frame.dispatches,
                   DispatchAsAsked(frame.dispatches[n], asked.dispatches[n])
            PROVE  DispatchAsAsked(frame.dispatches[n], asked.dispatches[n])'
        BY <3>1, <4>1 DEF Recorded, DispatchAsAsked, WrittenTo, MaySkip
      <4>2. ASSUME NEW n \in DOMAIN frame.traces,
                   TraceAsAsked(frame.traces[n], asked.traces[n])
            PROVE  TraceAsAsked(frame.traces[n], asked.traces[n])'
        BY <3>1, <4>2 DEF Recorded, TraceAsAsked, OutputsOf
      <4>3. ASSUME NEW n \in DOMAIN frame.ui, DrawAsAsked(frame.ui[n], asked.draws[n])
            PROVE  DrawAsAsked(frame.ui[n], asked.draws[n])'
        BY <3>1, <4>3 DEF Recorded, DrawAsAsked
      <4> QED BY <3>1, <4>1, <4>2, <4>3 DEF Recorded, RecordedAsBound
    <3> QED BY <3>1, <3>2, <3>3, <3>4, RecordedKept DEF BindingInv
  <2> QED BY <2>1, <2>2
<1> QED BY <1>1, <1>2, PTL DEF BindingSpec

----------------------------------------------------------------------------
(* Images.                                                                 *)

\* What the driver's bytes, marks and read blocks say of the ideal ones.  The
\* driver takes only levels for unwritten that hold nothing.
PlaceAt(i, b) == Place(i, b[1], b[2], b[3])

ImageTypes ==
  /\ DOMAIN bytes = Images
  /\ \A i \in Images : bytes[i] = [n \in 0 .. ImageSize(i) - 1 |-> bytes[i][n]]
  /\ DOMAIN initialized = Images
  /\ DOMAIN readback = 0 .. BufferBlocks - 1
  /\ ideal = [images |-> ideal.images, readback |-> ideal.readback]
  /\ DOMAIN ideal.images = Images /\ \A i \in Images : DOMAIN ideal.images[i] = Blocks(i)
  /\ DOMAIN ideal.readback = 0 .. BufferBlocks - 1

ImagesExact ==
  \A i \in Images : \A b \in Blocks(i) :
    ideal.images[i][b] # Undefined => bytes[i][PlaceAt(i, b)] = ideal.images[i][b]

UnmarkedUnwritten ==
  \A i \in Images : ~Shape[i].sparse =>
    \A b \in Blocks(i) :
      b[1] > 0 /\ <<b[1], b[2]>> \notin initialized[i] => ideal.images[i][b] = Undefined

ImageInv == ImageTypes /\ ImagesExact /\ UnmarkedUnwritten /\ ReadbackExact

\* Foreign writers write no level the driver would make up.
ForeignWritersSparse == \A i \in ForeignWriters : Shape[i].sparse

\* Digits of a number in a mixed radix
LEMMA Digits ==
  ASSUME NEW n \in Nat, NEW a \in Nat, NEW c \in Nat, NEW b \in 0 .. n - 1, NEW d \in 0 .. n - 1,
         a * n + b = c * n + d
  PROVE  a = c /\ b = d
OBVIOUS

LEMMA DigitsBelow ==
  ASSUME NEW n \in Nat, NEW k \in Nat, NEW a \in 0 .. k - 1, NEW b \in 0 .. n - 1
  PROVE  a * n + b \in 0 .. k * n - 1
OBVIOUS

LEMMA HalvedPositive ==
  ASSUME NEW extent \in Nat \ {0}, NEW level \in Nat
  PROVE  Halved(extent, level) \in Nat \ {0}
<1> DEFINE D == Nat \ {0}
<1> DEFINE Is(f) == f = [m \in 0 .. level |-> IF m = 0 THEN extent
                           ELSE IF f[m - 1] = 1 THEN 1 ELSE f[m - 1] \div 2]
<1> DEFINE next == [p \in (1 .. level) \X D |-> IF p[2] = 1 THEN 1 ELSE p[2] \div 2]
<1>1. next \in [(1 .. level) \X D -> D]
  <2>1. \A w \in Nat \ {0} : (IF w = 1 THEN 1 ELSE w \div 2) \in Nat \ {0}
    OBVIOUS
  <2> QED BY <2>1
<1>2. \A m \in 1 .. level : \A w \in D : next[<<m, w>>] = IF w = 1 THEN 1 ELSE w \div 2
  OBVIOUS
<1> HIDE DEF next
<1>3. PICK f \in [0 .. level -> D] : Follows(f, level, extent, next)
  <2>1. extent \in D
    OBVIOUS
  <2> HIDE DEF D
  <2> QED BY <1>1, <2>1, Recursion
<1>4. Is(f)
  <2>1. ASSUME NEW m \in 0 .. level
        PROVE  f[m] = IF m = 0 THEN extent ELSE IF f[m - 1] = 1 THEN 1 ELSE f[m - 1] \div 2
    <3>1. CASE m = 0
      BY <1>3, <3>1 DEF Follows
    <3>2. CASE m # 0
      <4>1. m \in 1 .. level /\ f[m - 1] \in D
        BY <3>2
      <4>2. f[m] = next[<<m, f[m - 1]>>]
        BY <1>3, <3>2 DEF Follows
      <4> QED BY <1>2, <3>2, <4>1, <4>2
    <3> QED BY <3>1, <3>2
  <2> QED BY <2>1
<1> DEFINE at == CHOOSE g : Is(g)
<1>5. Is(at)
  BY <1>4
<1>6. Halved(extent, level) = at[level]
  BY DEF Halved
<1> HIDE DEF at
<1>7. \A m \in 1 .. level : at[m - 1] \in D => at[m] \in D
  <2>1. \A w \in Nat \ {0} : (IF w = 1 THEN 1 ELSE w \div 2) \in Nat \ {0}
    OBVIOUS
  <2>2. ASSUME NEW m \in 1 .. level, at[m - 1] \in D PROVE at[m] \in D
    <3>1. at[m] = IF at[m - 1] = 1 THEN 1 ELSE at[m - 1] \div 2
      BY <1>5
    <3> QED BY <2>1, <2>2, <3>1
  <2> QED BY <2>2
<1>8. at[0] \in D
  BY <1>5
<1> HIDE DEF D, Is
<1>9. \A m \in 0 .. level : at[m] \in D
  BY <1>7, <1>8, StepByStep
<1> QED BY <1>6, <1>9 DEF D

LEMMA DividedPositive ==
  ASSUME NEW n \in Nat \ {0}, NEW by \in Nat \ {0}
  PROVE  Divided(n, by) \in Nat \ {0}
BY DEF Divided

Levels(i) == 0 .. Shape[i].mips - 1
Layers(i) == 0 .. Shape[i].layers - 1

LEMMA LevelBlocksPositive ==
  ASSUME NEW i \in Images, NEW level \in Nat
  PROVE  LevelBlocks(i, level) \in [1 .. 3 -> Nat \ {0}]
<1>1. \A k \in 1 .. 3 : Halved(Shape[i].extent[k], level) \in Nat \ {0}
  BY HalvedPositive, ImageAssumption
<1>2. \A k \in 1 .. 3 : LevelExtent(i, level)[k] \in Nat \ {0}
  BY <1>1 DEF LevelExtent
<1>3. \A k \in 1 .. 3 : Divided(LevelExtent(i, level)[k], Shape[i].block[k]) \in Nat \ {0}
  BY <1>2, DividedPositive, ImageAssumption
<1> QED BY <1>3 DEF LevelBlocks, InBlocks

LEMMA MipByteSizeNatural ==
  ASSUME NEW i \in Images, NEW level \in Nat
  PROVE  MipByteSize(i, level) \in Nat
<1>1. \A a, b, c \in Nat : a * b * c \in Nat
  OBVIOUS
<1>2. \A k \in 1 .. 3 : LevelBlocks(i, level)[k] \in Nat
  BY LevelBlocksPositive
<1> QED BY <1>1, <1>2 DEF MipByteSize

\* The levels of a layer lie one after the other.
LEMMA LevelsByteSizes ==
  ASSUME NEW i \in Images
  PROVE  \A n \in Nat :
           /\ LevelsByteSize(i, n) \in Nat
           /\ LevelsByteSize(i, n) = IF n = 0 THEN 0
                                     ELSE LevelsByteSize(i, n - 1) + MipByteSize(i, n - 1)
<1> DEFINE next(n) == [p \in (1 .. n) \X Nat |-> p[2] + MipByteSize(i, p[1] - 1)]
<1> DEFINE Is(f, n) == f = [m \in 0 .. n |-> IF m = 0 THEN 0
                              ELSE f[m - 1] + MipByteSize(i, m - 1)]
<1> DEFINE size(n) == CHOOSE f : Is(f, n)
<1>1. ASSUME NEW n \in Nat PROVE Is(size(n), n)
  <2>1. next(n) \in [(1 .. n) \X Nat -> Nat]
    BY MipByteSizeNatural
  <2>2. \A m \in 1 .. n : \A w \in Nat : next(n)[<<m, w>>] = w + MipByteSize(i, m - 1)
    OBVIOUS
  <2> HIDE DEF next
  <2>3. PICK f \in [0 .. n -> Nat] : Follows(f, n, 0, next(n))
    BY <2>1, Recursion
  <2>4. ASSUME NEW m \in 0 .. n
        PROVE  f[m] = IF m = 0 THEN 0 ELSE f[m - 1] + MipByteSize(i, m - 1)
    <3>1. CASE m = 0
      BY <2>3, <3>1 DEF Follows
    <3>2. CASE m # 0
      <4>1. m \in 1 .. n /\ f[m - 1] \in Nat
        BY <3>2
      <4>2. f[m] = next(n)[<<m, f[m - 1]>>]
        BY <2>3, <3>2 DEF Follows
      <4> QED BY <2>2, <3>2, <4>1, <4>2
    <3> QED BY <3>1, <3>2
  <2>5. Is(f, n)
    BY <2>4
  <2> HIDE DEF Is
  <2> QED BY <2>5
<1>2. \A n : LevelsByteSize(i, n) = size(n)[n]
  BY DEF LevelsByteSize
<1> HIDE DEF size
<1>3. ASSUME NEW n \in Nat PROVE \A m \in 0 .. n : size(n)[m] \in Nat
  <2>1. size(n)[0] \in Nat
    BY <1>1
  <2>2. \A m \in 1 .. n : size(n)[m - 1] \in Nat => size(n)[m] \in Nat
    <3> TAKE m \in 1 .. n
    <3>1. size(n)[m] = size(n)[m - 1] + MipByteSize(i, m - 1)
      BY <1>1
    <3>2. MipByteSize(i, m - 1) \in Nat
      BY MipByteSizeNatural
    <3> QED BY <3>1, <3>2
  <2> DEFINE f == size(n)
  <2>3. f[0] \in Nat /\ \A m \in 1 .. n : f[m - 1] \in Nat => f[m] \in Nat
    BY <2>1, <2>2
  <2> HIDE DEF f
  <2>4. \A m \in 0 .. n : f[m] \in Nat
    BY <2>3, StepByStep
  <2> QED BY <2>4 DEF f
\* The sums of more levels begin with those of fewer.
<1>4. ASSUME NEW n \in Nat \ {0} PROVE \A m \in 0 .. n - 1 : size(n)[m] = size(n - 1)[m]
  <2> DEFINE f == [m \in 0 .. n - 1 |-> size(n)[m] - size(n - 1)[m]]
             Zeros == {0}
  <2>1. f[0] \in Zeros
    BY <1>1
  <2>2. ASSUME NEW m \in 1 .. n - 1, f[m - 1] \in Zeros PROVE f[m] \in Zeros
    <3>1. size(n)[m - 1] \in Nat /\ size(n - 1)[m - 1] \in Nat /\ MipByteSize(i, m - 1) \in Nat
      BY <1>3, MipByteSizeNatural
    <3>2. size(n)[m - 1] = size(n - 1)[m - 1]
      BY <2>2, <3>1
    <3>3. size(n)[m] = size(n)[m - 1] + MipByteSize(i, m - 1)
      BY <1>1
    <3>4. size(n - 1)[m] = size(n - 1)[m - 1] + MipByteSize(i, m - 1)
      BY <1>1
    <3> QED BY <3>1, <3>2, <3>3, <3>4
  <2> HIDE DEF f, Zeros
  <2>3. \A m \in 0 .. n - 1 : f[m] \in Zeros
    <3>1. n - 1 \in Nat
      OBVIOUS
    <3> QED BY <2>1, <2>2, <3>1, StepByStep
  <2> TAKE m \in 0 .. n - 1
  <2>4. size(n)[m] \in Nat /\ size(n - 1)[m] \in Nat
    BY <1>3
  <2>5. size(n)[m] - size(n - 1)[m] = 0
    BY <2>3 DEF f, Zeros
  <2> QED BY <2>4, <2>5
<1>5. ASSUME NEW n \in Nat
      PROVE  /\ size(n)[n] \in Nat
             /\ size(n)[n] = IF n = 0 THEN 0 ELSE size(n - 1)[n - 1] + MipByteSize(i, n - 1)
  <2>1. CASE n = 0
    BY <1>1, <1>3, <2>1
  <2>2. CASE n # 0
    <3>1. size(n)[n] = size(n)[n - 1] + MipByteSize(i, n - 1)
      BY <1>1, <2>2
    <3>2. size(n)[n - 1] = size(n - 1)[n - 1]
      BY <1>4, <2>2
    <3> QED BY <1>3, <2>2, <3>1, <3>2
  <2> QED BY <2>1, <2>2
<1> QED BY <1>2, <1>5

LEMMA LevelsInOrder ==
  ASSUME NEW i \in Images, NEW m \in Nat, NEW n \in Nat, m < n
  PROVE  LevelsByteSize(i, m) + MipByteSize(i, m) <= LevelsByteSize(i, n)
<1> DEFINE low == LevelsByteSize(i, m) + MipByteSize(i, m)
           After == {k \in Int : low <= k}
           f == [k \in 0 .. n - m - 1 |-> LevelsByteSize(i, m + 1 + k)]
<1>0. \A k \in 0 .. n - m - 1 :
        /\ f[k] = LevelsByteSize(i, m + k) + MipByteSize(i, m + k)
        /\ f[k] \in Nat /\ LevelsByteSize(i, m + k) \in Nat /\ MipByteSize(i, m + k) \in Nat
  <2> TAKE k \in 0 .. n - m - 1
  <2>1. f[k] = LevelsByteSize(i, m + 1 + k) /\ m + 1 + k \in Nat /\ m + 1 + k # 0
    OBVIOUS
  <2>2. m + 1 + k - 1 = m + k /\ m + k \in Nat
    OBVIOUS
  <2> HIDE DEF f
  <2>3. LevelsByteSize(i, m + 1 + k)
          = LevelsByteSize(i, m + 1 + k - 1) + MipByteSize(i, m + 1 + k - 1)
    BY <2>1, LevelsByteSizes
  <2>4. LevelsByteSize(i, m + k) \in Nat /\ MipByteSize(i, m + k) \in Nat
    BY <2>2, LevelsByteSizes, MipByteSizeNatural
  <2> QED BY <2>1, <2>2, <2>3, <2>4
<1>1. f[0] \in After
  <2>0. 0 \in 0 .. n - m - 1 /\ m + 0 = m
    OBVIOUS
  <2> HIDE DEF f
  <2>1. f[0] = LevelsByteSize(i, m + 0) + MipByteSize(i, m + 0) /\ f[0] \in Nat
    BY <1>0, <2>0
  <2> QED BY <2>0, <2>1
<1>2. ASSUME NEW k \in 1 .. n - m - 1, f[k - 1] \in After PROVE f[k] \in After
  <2>1. f[k] = f[k - 1] + MipByteSize(i, m + k) /\ f[k - 1] \in Nat
    <3>1. f[k - 1] = LevelsByteSize(i, m + k)
      <4>1. m + 1 + (k - 1) = m + k
        OBVIOUS
      <4> QED BY <4>1
    <3>2. k - 1 \in 0 .. n - m - 1 /\ k \in 0 .. n - m - 1
      OBVIOUS
    <3>3. f[k] = LevelsByteSize(i, m + k) + MipByteSize(i, m + k) /\ f[k - 1] \in Nat
      BY <1>0, <3>2
    <3> HIDE DEF f
    <3> QED BY <3>1, <3>3
  <2>2. MipByteSize(i, m + k) \in Nat /\ low \in Nat
    BY MipByteSizeNatural, LevelsByteSizes
  <2> HIDE DEF low, f
  <2> QED BY <1>2, <2>1, <2>2
<1>3. n - m - 1 \in Nat
  OBVIOUS
<1> HIDE DEF f, After
<1>4. \A k \in 0 .. n - m - 1 : f[k] \in After
  BY <1>1, <1>2, <1>3, StepByStep
<1>5. f[n - m - 1] \in After /\ f[n - m - 1] = LevelsByteSize(i, n)
  BY <1>3, <1>4 DEF f
<1> QED BY <1>5 DEF After

InCells(n, at) == \A k \in 1 .. 3 : at[k] \in 0 .. n[k] - 1
InLevel(n, at) == (at[3] * n[2] + at[2]) * n[1] + at[1]

LEMMA InCellsOf == ASSUME NEW n, NEW at \in Cells(n) PROVE InCells(n, at)
BY DEF Cells, InCells

\* A block has a place of its own among those of its level.
LEMMA LevelPlaces ==
  ASSUME NEW n \in [1 .. 3 -> Nat], NEW at, InCells(n, at)
  PROVE  /\ InLevel(n, at) \in 0 .. n[1] * n[2] * n[3] - 1
         /\ \A to : InCells(n, to) /\ InLevel(n, at) = InLevel(n, to) =>
              \A k \in 1 .. 3 : at[k] = to[k]
<1> DEFINE row(a) == a[3] * n[2] + a[2]
<1>1. ASSUME NEW a, InCells(n, a)
      PROVE  /\ a[1] \in 0 .. n[1] - 1 /\ a[2] \in 0 .. n[2] - 1 /\ a[3] \in 0 .. n[3] - 1
             /\ row(a) \in 0 .. n[3] * n[2] - 1 /\ row(a) \in Nat
             /\ InLevel(n, a) = row(a) * n[1] + a[1]
  <2>1. a[1] \in 0 .. n[1] - 1 /\ a[2] \in 0 .. n[2] - 1 /\ a[3] \in 0 .. n[3] - 1
    BY <1>1 DEF InCells
  <2>2. row(a) \in 0 .. n[3] * n[2] - 1
    BY <2>1, DigitsBelow
  <2>3. InLevel(n, a) = row(a) * n[1] + a[1]
    BY DEF InLevel
  <2> QED BY <2>1, <2>2, <2>3
<1>2. InLevel(n, at) \in 0 .. n[1] * n[2] * n[3] - 1
  <2>1. \A a, b, c \in Nat : (c * b) * a = a * b * c /\ c * b \in Nat
    OBVIOUS
  <2>2. InLevel(n, at) \in 0 .. (n[3] * n[2]) * n[1] - 1
    <3>1. n[3] * n[2] \in Nat /\ n[1] \in Nat
      BY <2>1
    <3> HIDE DEF row
    <3> QED BY <1>1, <3>1, DigitsBelow
  <2> QED BY <2>1, <2>2
<1>3. ASSUME NEW to, InCells(n, to), InLevel(n, at) = InLevel(n, to)
      PROVE  at[1] = to[1] /\ at[2] = to[2] /\ at[3] = to[3]
  <2>1. row(at) = row(to) /\ at[1] = to[1]
    <3>1. row(at) * n[1] + at[1] = row(to) * n[1] + to[1] /\ n[1] \in Nat
      BY <1>1, <1>3
    <3>2. row(at) \in Nat /\ row(to) \in Nat /\ at[1] \in 0 .. n[1] - 1 /\ to[1] \in 0 .. n[1] - 1
      BY <1>1, <1>3
    <3> HIDE DEF row
    <3> QED BY <3>1, <3>2, Digits
  <2>2. at[3] = to[3] /\ at[2] = to[2]
    <3> DEFINE rows == n[2]
               a == at[3]
               b == at[2]
               c == to[3]
               d == to[2]
    <3>1. a * rows + b = c * rows + d /\ rows \in Nat
      BY <2>1
    <3>2. a \in Nat /\ c \in Nat /\ b \in 0 .. rows - 1 /\ d \in 0 .. rows - 1
      BY <1>1, <1>3
    <3> HIDE DEF rows, a, b, c, d
    <3>3. a = c /\ b = d
      BY <3>1, <3>2, Digits
    <3> QED BY <3>3 DEF a, b, c, d
  <2> QED BY <2>1, <2>2
<1> QED BY <1>2, <1>3

\* A place in a layer is in one level.
LEMMA LayerPlaces ==
  ASSUME NEW i \in Images, NEW m \in Levels(i), NEW x \in 0 .. MipByteSize(i, m) - 1
  PROVE  /\ LevelsByteSize(i, m) + x \in 0 .. LayerByteSize(i) - 1
         /\ \A n \in Levels(i) : \A y \in 0 .. MipByteSize(i, n) - 1 :
              LevelsByteSize(i, m) + x = LevelsByteSize(i, n) + y => m = n /\ x = y
<1>1. Shape[i].mips \in Nat /\ m \in Nat /\ m < Shape[i].mips
  BY ImageAssumption DEF Levels
<1>2. LevelsByteSize(i, m) \in Nat /\ MipByteSize(i, m) \in Nat /\ LayerByteSize(i) \in Nat
  BY <1>1, LevelsByteSizes, MipByteSizeNatural DEF LayerByteSize
<1>3. LevelsByteSize(i, m) + MipByteSize(i, m) <= LayerByteSize(i)
  BY <1>1, LevelsInOrder DEF LayerByteSize
<1>4. LevelsByteSize(i, m) + x \in 0 .. LayerByteSize(i) - 1
  BY <1>2, <1>3
<1>5. ASSUME NEW n \in Levels(i), NEW y \in 0 .. MipByteSize(i, n) - 1,
             LevelsByteSize(i, m) + x = LevelsByteSize(i, n) + y
      PROVE  m = n /\ x = y
  <2>1. n \in Nat /\ LevelsByteSize(i, n) \in Nat /\ MipByteSize(i, n) \in Nat
    <3>1. n \in Nat
      BY DEF Levels
    <3> QED BY <3>1, LevelsByteSizes, MipByteSizeNatural
  <2>2. CASE m < n
    <3>1. LevelsByteSize(i, m) + MipByteSize(i, m) <= LevelsByteSize(i, n)
      BY <1>1, <2>1, <2>2, LevelsInOrder
    <3> QED BY <1>2, <1>5, <2>1, <3>1
  <2>3. CASE n < m
    <3>1. LevelsByteSize(i, n) + MipByteSize(i, n) <= LevelsByteSize(i, m)
      BY <1>1, <2>1, <2>3, LevelsInOrder
    <3> QED BY <1>2, <1>5, <2>1, <3>1
  <2>4. m = n
    BY <1>1, <2>1, <2>2, <2>3
  <2> QED BY <1>2, <1>5, <2>1, <2>4
<1> QED BY <1>4, <1>5

\* Every block of an image has a place of its own in the image's bytes.
LEMMA Places ==
  ASSUME NEW i \in Images, NEW m \in Levels(i), NEW l \in Layers(i),
         NEW at, InCells(LevelBlocks(i, m), at)
  PROVE  /\ Place(i, m, l, at) \in 0 .. ImageSize(i) - 1
         /\ \A n \in Levels(i) : \A h \in Layers(i) : \A to :
              InCells(LevelBlocks(i, n), to) /\ Place(i, m, l, at) = Place(i, n, h, to) =>
                m = n /\ l = h /\ \A k \in 1 .. 3 : at[k] = to[k]
<1> DEFINE inLayer(n, a) == LevelsByteSize(i, n) + InLevel(LevelBlocks(i, n), a)
<1>1. ASSUME NEW n \in Levels(i), NEW h \in Layers(i), NEW a, InCells(LevelBlocks(i, n), a)
      PROVE  /\ InLevel(LevelBlocks(i, n), a) \in 0 .. MipByteSize(i, n) - 1
             /\ inLayer(n, a) \in 0 .. LayerByteSize(i) - 1
             /\ Place(i, n, h, a) = h * LayerByteSize(i) + inLayer(n, a)
             /\ h \in Nat /\ LayerByteSize(i) \in Nat
             /\ LevelBlocks(i, n) \in [1 .. 3 -> Nat]
  <2>1. n \in Nat /\ h \in Nat /\ Shape[i].mips \in Nat
    BY ImageAssumption DEF Levels, Layers
  <2>2. LevelBlocks(i, n) \in [1 .. 3 -> Nat]
    BY <2>1, LevelBlocksPositive
  <2>3. InLevel(LevelBlocks(i, n), a) \in 0 .. MipByteSize(i, n) - 1
    BY <1>1, <2>2, LevelPlaces DEF MipByteSize
  <2>4. inLayer(n, a) \in 0 .. LayerByteSize(i) - 1
    BY <2>3, LayerPlaces
  <2>5. LayerByteSize(i) \in Nat /\ LevelsByteSize(i, n) \in Nat
    BY <2>1, LevelsByteSizes DEF LayerByteSize
  <2>6. Place(i, n, h, a)
          = LayerByteSize(i) * h + LevelsByteSize(i, n) + InLevel(LevelBlocks(i, n), a)
    <3> DEFINE b == LevelBlocks(i, n)
    <3>1. Place(i, n, h, a)
            = LayerByteSize(i) * h + LevelsByteSize(i, n) + (a[3] * b[2] + a[2]) * b[1] + a[1]
      BY DEF Place, SubresourceOffset
    <3>2. a[1] \in Nat /\ a[2] \in Nat /\ a[3] \in Nat /\ b[1] \in Nat /\ b[2] \in Nat
      BY <1>1, <2>2 DEF InCells
    <3>3. LayerByteSize(i) * h \in Nat /\ (a[3] * b[2] + a[2]) * b[1] \in Nat
      BY <2>1, <2>5, <3>2
    <3> HIDE DEF b
    <3> QED BY <2>5, <3>1, <3>2, <3>3 DEF InLevel, b
  <2> QED BY <1>1, <2>1, <2>2, <2>3, <2>4, <2>5, <2>6 DEF InCells
<1>2. Place(i, m, l, at) \in 0 .. ImageSize(i) - 1
  <2>1. Shape[i].layers \in Nat /\ l \in 0 .. Shape[i].layers - 1
    BY ImageAssumption DEF Layers
  <2> HIDE DEF inLayer
  <2>2. Place(i, m, l, at) \in 0 .. Shape[i].layers * LayerByteSize(i) - 1
    BY <1>1, <2>1, DigitsBelow
  <2>3. \A a, b \in Nat : a * b = b * a
    OBVIOUS
  <2> QED BY <1>1, <2>1, <2>2, <2>3 DEF ImageSize
<1>3. ASSUME NEW n \in Levels(i), NEW h \in Layers(i), NEW to,
             InCells(LevelBlocks(i, n), to), Place(i, m, l, at) = Place(i, n, h, to)
      PROVE  m = n /\ l = h /\ \A k \in 1 .. 3 : at[k] = to[k]
  <2>1. l = h /\ inLayer(m, at) = inLayer(n, to)
    <3> HIDE DEF inLayer
    <3> QED BY <1>1, <1>3, Digits
  <2>2. m = n /\ InLevel(LevelBlocks(i, m), at) = InLevel(LevelBlocks(i, n), to)
    BY <1>1, <1>3, <2>1, LayerPlaces
  <2> QED BY <1>1, <1>3, <2>1, <2>2, LevelPlaces
<1> QED BY <1>2, <1>3

LEMMA InBlocksOf ==
  ASSUME NEW i, NEW b \in Blocks(i)
  PROVE  /\ b[1] \in Levels(i) /\ b[2] \in Layers(i)
         /\ InCells(LevelBlocks(i, b[1]), b[3])
         /\ b = <<b[1], b[2], <<b[3][1], b[3][2], b[3][3]>>>>
<1>1. PICK m \in Levels(i), l \in Layers(i) :
        b \in {<<m, l, at>> : at \in Cells(LevelBlocks(i, m))}
  BY DEF Blocks, Levels, Layers
<1>2. PICK at \in Cells(LevelBlocks(i, m)) : b = <<m, l, at>>
  BY <1>1
<1>3. at = <<at[1], at[2], at[3]>>
  BY DEF Cells
<1>4. b[1] = m /\ b[2] = l /\ b[3] = at
  BY <1>2
<1> HIDE DEF Blocks
<1> QED BY <1>2, <1>3, <1>4, InCellsOf

LEMMA BlocksOf ==
  ASSUME NEW i, NEW m \in Levels(i), NEW l \in Layers(i),
         NEW at, InCells(LevelBlocks(i, m), at)
  PROVE  <<m, l, <<at[1], at[2], at[3]>>>> \in Blocks(i)
<1>1. <<at[1], at[2], at[3]>> \in Cells(LevelBlocks(i, m))
  BY DEF Cells, InCells
<1> DEFINE some == {<<m, l, to>> : to \in Cells(LevelBlocks(i, m))}
<1>2. <<m, l, <<at[1], at[2], at[3]>>>> \in some
  BY <1>1
<1>3. some \in {{<<n, h, to>> : to \in Cells(LevelBlocks(i, n))} :
                  n \in 0 .. Shape[i].mips - 1, h \in 0 .. Shape[i].layers - 1}
  BY DEF Levels, Layers
<1> HIDE DEF some
<1> QED BY <1>2, <1>3 DEF Blocks

LEMMA BlockPlaces ==
  ASSUME NEW i \in Images, NEW b \in Blocks(i)
  PROVE  /\ PlaceAt(i, b) \in 0 .. ImageSize(i) - 1
         /\ \A d \in Blocks(i) : PlaceAt(i, b) = PlaceAt(i, d) => b = d
<1>1. /\ b[1] \in Levels(i) /\ b[2] \in Layers(i) /\ InCells(LevelBlocks(i, b[1]), b[3])
      /\ b = <<b[1], b[2], <<b[3][1], b[3][2], b[3][3]>>>>
  BY InBlocksOf
<1>2. PlaceAt(i, b) \in 0 .. ImageSize(i) - 1
  BY <1>1, Places DEF PlaceAt
<1>3. ASSUME NEW d \in Blocks(i), PlaceAt(i, b) = PlaceAt(i, d) PROVE b = d
  <2>1. /\ d[1] \in Levels(i) /\ d[2] \in Layers(i) /\ InCells(LevelBlocks(i, d[1]), d[3])
        /\ d = <<d[1], d[2], <<d[3][1], d[3][2], d[3][3]>>>>
    BY InBlocksOf
  <2>2. b[1] = d[1] /\ b[2] = d[2] /\ \A k \in 1 .. 3 : b[3][k] = d[3][k]
    BY <1>1, <1>3, <2>1, Places DEF PlaceAt
  <2> QED BY <1>1, <2>1, <2>2
<1> QED BY <1>2, <1>3

AllRegions == [level : Nat, layer : Nat, layers : Nat,
               offset : [1 .. 3 -> Nat], extent : [1 .. 3 -> Nat]]
AllLayouts == [from : Nat, rowLength : Nat, imageHeight : Nat]

LEMMA DividedNatural ==
  ASSUME NEW n \in Nat, NEW by \in Nat \ {0}
  PROVE  Divided(n, by) \in Nat
BY DEF Divided

\* A region that begins at a block and ends inside a level lies in its blocks.
LEMMA Rounded ==
  ASSUME NEW by \in Nat \ {0}, NEW o \in Nat, NEW e \in Nat, NEW n \in Nat,
         o + e <= n, o % by = 0, NEW x \in 0 .. Divided(e, by) - 1
  PROVE  o \div by + x \in 0 .. Divided(n, by) - 1
<1>1. o = (o \div by) * by /\ o \div by \in Nat
  OBVIOUS
<1>2. \A q \in Nat : q * by + e <= n => q + x \in 0 .. (n + by - 1) \div by - 1
  BY DEF Divided
<1> QED BY <1>1, <1>2 DEF Divided

LEMMA CellsAre ==
  ASSUME NEW i, NEW r, NEW c \in CellsOf(i, r)
  PROVE  /\ c[1] \in 0 .. r.layers - 1 /\ InCells(InBlocks(i, r.extent), c[2])
         /\ c = <<c[1], <<c[2][1], c[2][2], c[2][3]>>>>
<1>1. c[1] \in 0 .. r.layers - 1 /\ c[2] \in Cells(InBlocks(i, r.extent)) /\ c = <<c[1], c[2]>>
  BY DEF CellsOf
<1>2. c[2] = <<c[2][1], c[2][2], c[2][3]>>
  BY <1>1 DEF Cells
<1> QED BY <1>1, <1>2, InCellsOf

\* The cells of a region of an image are blocks of the subresources it covers.
LEMMA CellBlocks ==
  ASSUME NEW i \in Images, NEW r \in AllRegions, InImage(i, r), NEW c \in CellsOf(i, r)
  PROVE  /\ BlockOf(i, r, c) \in Blocks(i)
         /\ PlaceAt(i, BlockOf(i, r, c)) = PlaceOf(i, r, c)
         /\ <<BlockOf(i, r, c)[1], BlockOf(i, r, c)[2]>> \in Subresources(r)
         /\ \A d \in CellsOf(i, r) : BlockOf(i, r, c) = BlockOf(i, r, d) => c = d
<1> DEFINE at(d) == InSubresource(i, r, d)
<1>1. ASSUME NEW d \in CellsOf(i, r)
      PROVE  /\ BlockOf(i, r, d) = <<r.level, r.layer + d[1], <<at(d)[1], at(d)[2], at(d)[3]>>>>
             /\ \A k \in 1 .. 3 : at(d)[k] = r.offset[k] \div Shape[i].block[k] + d[2][k]
             /\ d[1] \in 0 .. r.layers - 1
             /\ \A k \in 1 .. 3 : d[2][k] \in 0 .. InBlocks(i, r.extent)[k] - 1
             /\ d = <<d[1], <<d[2][1], d[2][2], d[2][3]>>>>
  BY CellsAre DEF BlockOf, InSubresource, OffsetBlocks, InCells
<1>2. r.level \in Levels(i) /\ r.layer + c[1] \in Layers(i)
  BY <1>1, ImageAssumption DEF AllRegions, InImage, Levels, Layers
<1>3. InCells(LevelBlocks(i, r.level), at(c))
  <2>1. ASSUME NEW k \in 1 .. 3 PROVE at(c)[k] \in 0 .. LevelBlocks(i, r.level)[k] - 1
    <3>1. /\ Shape[i].block[k] \in Nat \ {0} /\ Shape[i].extent[k] \in Nat \ {0}
          /\ r.offset[k] \in Nat /\ r.extent[k] \in Nat /\ r.level \in Nat
      BY ImageAssumption DEF AllRegions
    <3>2. LevelExtent(i, r.level)[k] \in Nat
      BY <3>1, HalvedPositive DEF LevelExtent
    <3>3. /\ r.offset[k] + r.extent[k] <= LevelExtent(i, r.level)[k]
          /\ r.offset[k] % Shape[i].block[k] = 0
      BY DEF InImage
    <3>4. c[2][k] \in 0 .. Divided(r.extent[k], Shape[i].block[k]) - 1
      BY <1>1 DEF InBlocks
    <3>5. r.offset[k] \div Shape[i].block[k] + c[2][k]
            \in 0 .. Divided(LevelExtent(i, r.level)[k], Shape[i].block[k]) - 1
      BY <3>1, <3>2, <3>3, <3>4, Rounded
    <3>6. at(c)[k] \in 0 .. Divided(LevelExtent(i, r.level)[k], Shape[i].block[k]) - 1
      BY <1>1, <3>5
    <3> QED BY <3>6 DEF LevelBlocks, InBlocks
  <2> QED BY <2>1 DEF InCells
<1>4. BlockOf(i, r, c) \in Blocks(i)
  BY <1>1, <1>2, <1>3, BlocksOf
<1>5. PlaceAt(i, BlockOf(i, r, c)) = PlaceOf(i, r, c)
  BY <1>1 DEF PlaceAt, PlaceOf, Place
<1>6. <<BlockOf(i, r, c)[1], BlockOf(i, r, c)[2]>> \in Subresources(r)
  BY <1>1 DEF Subresources
<1>7. ASSUME NEW d \in CellsOf(i, r), BlockOf(i, r, c) = BlockOf(i, r, d) PROVE c = d
  <2>1. r.layer + c[1] = r.layer + d[1] /\ \A k \in 1 .. 3 : at(c)[k] = at(d)[k]
    BY <1>1, <1>7
  <2>2. r.layer \in Nat /\ c[1] \in Nat /\ d[1] \in Nat
    BY <1>1 DEF AllRegions
  <2>3. c[1] = d[1]
    BY <2>1, <2>2
  <2>4. ASSUME NEW k \in 1 .. 3 PROVE c[2][k] = d[2][k]
    <3>1. r.offset[k] \div Shape[i].block[k] \in Nat
      <4>1. Shape[i].block[k] \in Nat \ {0} /\ r.offset[k] \in Nat
        BY ImageAssumption DEF AllRegions
      <4> QED BY <4>1
    <3>2. c[2][k] \in Nat /\ d[2][k] \in Nat
      BY <1>1
    <3>3. r.offset[k] \div Shape[i].block[k] + c[2][k] = r.offset[k] \div Shape[i].block[k] + d[2][k]
      BY <1>1, <2>1
    <3> QED BY <3>1, <3>2, <3>3
  <2> QED BY <1>1, <2>3, <2>4
<1> QED BY <1>4, <1>5, <1>6, <1>7

\* The cells of a region have blocks of their own in the buffer.
LEMMA BufferPlaces ==
  ASSUME NEW i \in Images, NEW r \in AllRegions, NEW layout \in AllLayouts, Fits(i, r, layout),
         NEW c \in CellsOf(i, r)
  PROVE  /\ BufferPlace(i, r, layout, c) \in 0 .. BufferBlocks - 1
         /\ \A d \in CellsOf(i, r) :
              BufferPlace(i, r, layout, c) = BufferPlace(i, r, layout, d) => c = d
<1> DEFINE n == InBlocks(i, r.extent)
           row == RowBlocks(i, r, layout)
           rows == ImageRows(i, r, layout)
           slice(d) == d[1] * n[3] + d[2][3]
<1>1. /\ \A k \in 1 .. 3 : n[k] \in Nat
      /\ row \in Nat /\ rows \in Nat /\ n[1] <= row /\ n[2] <= rows
  <2>1. \A k \in 1 .. 3 : Shape[i].block[k] \in Nat \ {0} /\ r.extent[k] \in Nat
    BY ImageAssumption DEF AllRegions
  <2>2. \A k \in 1 .. 3 : n[k] \in Nat
    BY <2>1, DividedNatural DEF InBlocks
  <2>3. layout.rowLength \in Nat /\ layout.imageHeight \in Nat
    BY DEF AllLayouts
  <2>4. row \in Nat /\ rows \in Nat
    <3>1. /\ Divided(layout.rowLength, Shape[i].block[1]) \in Nat
          /\ Divided(layout.imageHeight, Shape[i].block[2]) \in Nat
      <4>1. Shape[i].block[1] \in Nat \ {0} /\ Shape[i].block[2] \in Nat \ {0}
        BY <2>1
      <4> QED BY <2>3, <4>1, DividedNatural
    <3> QED BY <2>2, <3>1 DEF RowBlocks, ImageRows
  <2>5. n[1] <= row /\ n[2] <= rows
    BY DEF Fits
  <2> QED BY <2>2, <2>4, <2>5
<1>2. ASSUME NEW d \in CellsOf(i, r)
      PROVE  /\ d = <<d[1], <<d[2][1], d[2][2], d[2][3]>>>>
             /\ d[1] \in Nat /\ d[2][3] \in 0 .. n[3] - 1
             /\ d[2][2] \in 0 .. rows - 1 /\ d[2][1] \in 0 .. row - 1
             /\ slice(d) \in Nat
             /\ BufferPlace(i, r, layout, d)
                  = layout.from + ((slice(d) * rows + d[2][2]) * row + d[2][1])
             /\ BufferPlace(i, r, layout, d) \in 0 .. BufferBlocks - 1
  <2>1. /\ d[1] \in Nat /\ d = <<d[1], <<d[2][1], d[2][2], d[2][3]>>>>
        /\ \A k \in 1 .. 3 : d[2][k] \in 0 .. n[k] - 1
    BY CellsAre DEF InCells
  <2>2. d[2][3] \in 0 .. n[3] - 1 /\ d[2][2] \in 0 .. rows - 1 /\ d[2][1] \in 0 .. row - 1
    BY <1>1, <2>1
  <2>3. slice(d) \in Nat
    BY <1>1, <2>1
  <2>4. layout.from \in Nat /\ BufferBlocks \in Nat
    BY ImageAssumption DEF AllLayouts
  <2>5. BufferPlace(i, r, layout, d)
          = layout.from + slice(d) * row * rows + d[2][2] * row + d[2][1]
    BY DEF BufferPlace
  <2>6. \A a, b, x, y, R, S \in Nat :
          a + b * R * S + y * R + x = a + ((b * S + y) * R + x) /\ a + ((b * S + y) * R + x) \in Nat
    OBVIOUS
  <2>7. BufferPlace(i, r, layout, d)
          = layout.from + ((slice(d) * rows + d[2][2]) * row + d[2][1])
        /\ BufferPlace(i, r, layout, d) \in Nat
    <3> HIDE DEF slice, row, rows, n
    <3> QED BY <1>1, <2>2, <2>3, <2>4, <2>5, <2>6
  <2>8. BufferPlace(i, r, layout, d) < BufferBlocks
    BY DEF Fits
  <2> QED BY <2>1, <2>2, <2>3, <2>4, <2>7, <2>8
<1>3. ASSUME NEW d \in CellsOf(i, r), BufferPlace(i, r, layout, c) = BufferPlace(i, r, layout, d)
      PROVE  c = d
  <2> DEFINE line(e) == slice(e) * rows + e[2][2]
             x(e) == e[2][1]
             y(e) == e[2][2]
             z(e) == e[2][3]
             l(e) == e[1]
  <2>1. /\ line(c) \in Nat /\ line(d) \in Nat
        /\ x(c) \in 0 .. row - 1 /\ x(d) \in 0 .. row - 1
        /\ y(c) \in 0 .. rows - 1 /\ y(d) \in 0 .. rows - 1
        /\ z(c) \in 0 .. n[3] - 1 /\ z(d) \in 0 .. n[3] - 1
        /\ l(c) \in Nat /\ l(d) \in Nat
        /\ slice(c) \in Nat /\ slice(d) \in Nat
        /\ row \in Nat /\ rows \in Nat /\ n[3] \in Nat
    <3> HIDE DEF slice, row, rows
    <3> QED BY <1>1, <1>2
  <2>2. line(c) * row + x(c) = line(d) * row + x(d)
    <3>1. layout.from + (line(c) * row + x(c)) = layout.from + (line(d) * row + x(d))
      BY <1>2, <1>3
    <3>2. layout.from \in Nat
      BY DEF AllLayouts
    <3>3. line(c) * row + x(c) \in Nat /\ line(d) * row + x(d) \in Nat
      <4> HIDE DEF line, row, x
      <4> QED BY <2>1
    <3> HIDE DEF line, row, x
    <3> QED BY <3>1, <3>2, <3>3
  <2>3. line(c) = line(d) /\ x(c) = x(d)
    <3>1. /\ line(c) \in Nat /\ line(d) \in Nat /\ row \in Nat
          /\ x(c) \in 0 .. row - 1 /\ x(d) \in 0 .. row - 1
      BY <2>1
    <3> HIDE DEF line, row, x
    <3> QED BY <2>2, <3>1, Digits
  <2>4. slice(c) * rows + y(c) = slice(d) * rows + y(d)
    BY <2>3
  <2>5. slice(c) = slice(d) /\ y(c) = y(d)
    <3> HIDE DEF slice, rows, row, y
    <3> QED BY <2>1, <2>4, Digits
  <2>6. l(c) * n[3] + z(c) = l(d) * n[3] + z(d)
    BY <2>5
  <2>7. l(c) = l(d) /\ z(c) = z(d)
    <3> DEFINE deep == n[3]
    <3>1. l(c) * deep + z(c) = l(d) * deep + z(d) /\ deep \in Nat
      BY <2>1, <2>6
    <3>2. /\ l(c) \in Nat /\ l(d) \in Nat
          /\ z(c) \in 0 .. deep - 1 /\ z(d) \in 0 .. deep - 1
      BY <2>1
    <3> HIDE DEF l, z, n, deep
    <3> QED BY <3>1, <3>2, Digits
  <2> QED BY <1>2, <2>3, <2>5, <2>7
<1> QED BY <1>2, <1>3

----------------------------------------------------------------------------

LEMMA OverlaidAt ==
  ASSUME NEW f, NEW writes
  PROVE  /\ DOMAIN Overlaid(f, writes) = DOMAIN f
         /\ \A n \in DOMAIN f :
              /\ (\A w \in writes : w[1] # n) => Overlaid(f, writes)[n] = f[n]
              /\ (\E w \in writes : w[1] = n) =>
                   \E w \in writes : w[1] = n /\ Overlaid(f, writes)[n] = w[2]
<1>1. DOMAIN Overlaid(f, writes) = DOMAIN f
  BY DEF Overlaid
<1>2. ASSUME NEW n \in DOMAIN f, \A w \in writes : w[1] # n
      PROVE  Overlaid(f, writes)[n] = f[n]
  BY <1>2 DEF Overlaid
<1>3. ASSUME NEW n \in DOMAIN f, \E w \in writes : w[1] = n
      PROVE  \E w \in writes : w[1] = n /\ Overlaid(f, writes)[n] = w[2]
  <2> DEFINE w == CHOOSE w \in writes : w[1] = n
  <2>1. w \in writes /\ w[1] = n
    BY <1>3
  <2>2. Overlaid(f, writes)[n] = w[2]
    BY <1>3 DEF Overlaid
  <2> HIDE DEF w
  <2> QED BY <2>1, <2>2
<1> QED BY <1>1, <1>2, <1>3

LEMMA OverlaidIn ==
  ASSUME NEW S, NEW V, NEW f \in [S -> V], NEW writes, \A w \in writes : w[2] \in V
  PROVE  Overlaid(f, writes) \in [S -> V]
<1> DEFINE g == Overlaid(f, writes)
<1>1. g = [n \in S |-> g[n]]
  BY DEF Overlaid
<1>2. ASSUME NEW n \in S PROVE g[n] \in V
  <2>1. n \in DOMAIN f /\ f[n] \in V
    OBVIOUS
  <2>2. CASE \A w \in writes : w[1] # n
    <3>1. g[n] = f[n]
      BY <2>1, <2>2, OverlaidAt
    <3> QED BY <2>1, <3>1
  <2>3. CASE \E w \in writes : w[1] = n
    <3>1. \E w \in writes : g[n] = w[2]
      BY <2>1, <2>3, OverlaidAt
    <3> HIDE DEF g
    <3> QED BY <3>1
  <2> QED BY <2>2, <2>3
<1> HIDE DEF g
<1>3. g \in [S -> V]
  BY <1>1, <1>2
<1> QED BY <1>3 DEF g

\* Every cell of C writes its value in V to its place in P.
Writes(C, P, V) == {<<P[c], V[c]>> : c \in C}

\* What is written to g and to f at the places g's points have in f is alike
\* before and after.
LEMMA WrittenAlike ==
  ASSUME NEW f, NEW g, NEW place, NEW C, NEW P, NEW B, NEW V, NEW U,
         \A b \in DOMAIN g : place[b] \in DOMAIN f,
         \A b, d \in DOMAIN g : place[b] = place[d] => b = d,
         \A c \in C : B[c] \in DOMAIN g /\ place[B[c]] = P[c],
         \A c, d \in C : B[c] = B[d] => c = d,
         \A c \in C : U[c] # Undefined => V[c] = U[c],
         \A b \in DOMAIN g : g[b] # Undefined => f[place[b]] = g[b],
         NEW F, F = Overlaid(f, Writes(C, P, V)),
         NEW G, G = Overlaid(g, Writes(C, B, U))
  PROVE  \A b \in DOMAIN g :
           /\ G[b] # Undefined => F[place[b]] = G[b]
           /\ (\A c \in C : B[c] # b) => G[b] = g[b]
<1> DEFINE ofF == {<<P[c], V[c]>> : c \in C}
           ofG == {<<B[c], U[c]>> : c \in C}
<1> SUFFICES ASSUME NEW b \in DOMAIN g
             PROVE  /\ G[b] # Undefined => F[place[b]] = G[b]
                    /\ (\A c \in C : B[c] # b) => G[b] = g[b]
  OBVIOUS
<1>0. F = Overlaid(f, ofF) /\ G = Overlaid(g, ofG) /\ place[b] \in DOMAIN f
  BY DEF Writes
<1>1. CASE \E c \in C : B[c] = b
  <2>1. PICK c \in C : B[c] = b
    BY <1>1
  <2>2. \A d \in C : P[d] = place[b] => d = c
    BY <2>1
  <2>3. <<P[c], V[c]>> \in ofF /\ <<P[c], V[c]>>[1] = place[b]
    BY <2>1
  <2>4. <<B[c], U[c]>> \in ofG /\ <<B[c], U[c]>>[1] = b
    BY <2>1
  <2>5. \A w \in ofF : w[1] = place[b] => w[2] = V[c]
    BY <2>2
  <2>6. \A w \in ofG : w[1] = b => w[2] = U[c]
    BY <2>1
  <2> HIDE DEF ofF, ofG
  <2>7. F[place[b]] = V[c]
    BY <2>3, <2>5, OverlaidAt, <1>0
  <2>8. G[b] = U[c]
    BY <2>4, <2>6, OverlaidAt, <1>0
  <2> QED BY <2>1, <2>7, <2>8
<1>2. CASE \A c \in C : B[c] # b
  <2>1. \A w \in ofF : w[1] # place[b]
    BY <1>2
  <2>2. \A w \in ofG : w[1] # b
    BY <1>2
  <2> HIDE DEF ofF, ofG
  <2>3. F[place[b]] = f[place[b]]
    BY <2>1, OverlaidAt, <1>0
  <2>4. G[b] = g[b]
    BY <2>2, OverlaidAt, <1>0
  <2> QED BY <2>3, <2>4
<1> QED BY <1>1, <1>2

----------------------------------------------------------------------------

\* Cells written to image j, whose places are P and whose blocks are B: V to the
\* driver's bytes, U to what Vulkan says.
ImageTakes(j, S, C, P, B, V, U) ==
  /\ bytes' = [bytes EXCEPT ![j] = Overlaid(@, Writes(C, P, V))]
  /\ ideal' = [ideal EXCEPT !.images[j] = Overlaid(@, Writes(C, B, U))]
  /\ initialized' = [initialized EXCEPT ![j] = @ \cup S]
  /\ readback' = readback

\* An image written alike in the driver's bytes and in Vulkan's view of it.
LEMMA ImageWritten ==
  ASSUME ImageInv, NEW j \in Images, NEW S, NEW C, NEW P, NEW B, NEW V, NEW U,
         \A c \in C : /\ B[c] \in Blocks(j) /\ PlaceAt(j, B[c]) = P[c]
                      /\ <<B[c][1], B[c][2]>> \in S,
         \A c, d \in C : B[c] = B[d] => c = d,
         \A c \in C : U[c] # Undefined => V[c] = U[c],
         ImageTakes(j, S, C, P, B, V, U)
  PROVE  ImageInv'
<1> DEFINE f == bytes[j]
           g == ideal.images[j]
           place == [b \in Blocks(j) |-> PlaceAt(j, b)]
           F == Overlaid(f, Writes(C, P, V))
           G == Overlaid(g, Writes(C, B, U))
<1>1. /\ DOMAIN bytes' = Images /\ bytes'[j] = F
      /\ \A i \in Images \ {j} : bytes'[i] = bytes[i]
  BY DEF ImageInv, ImageTypes, ImageTakes
<1>2. /\ ideal' = [images |-> ideal'.images, readback |-> ideal'.readback]
      /\ ideal'.readback = ideal.readback /\ DOMAIN ideal'.images = Images
      /\ ideal'.images[j] = G
      /\ \A i \in Images \ {j} : ideal'.images[i] = ideal.images[i]
  BY DEF ImageInv, ImageTypes, ImageTakes
<1>3. /\ DOMAIN initialized' = Images /\ initialized'[j] = initialized[j] \cup S
      /\ \A i \in Images \ {j} : initialized'[i] = initialized[i]
  BY DEF ImageInv, ImageTypes, ImageTakes
<1>4. DOMAIN f = 0 .. ImageSize(j) - 1 /\ DOMAIN g = Blocks(j)
  BY DEF ImageInv, ImageTypes
<1>5. F = [n \in DOMAIN f |-> F[n]] /\ DOMAIN G = DOMAIN g
  <2> HIDE DEF f, g
  <2> QED BY OverlaidAt DEF Overlaid
<1>6. \A b \in Blocks(j) :
        /\ G[b] # Undefined => F[PlaceAt(j, b)] = G[b]
        /\ (\A c \in C : B[c] # b) => G[b] = g[b]
  <2>1. \A b \in DOMAIN g : place[b] \in DOMAIN f
    BY <1>4, BlockPlaces
  <2>2. \A b, d \in DOMAIN g : place[b] = place[d] => b = d
    BY <1>4, BlockPlaces
  <2>3. \A c \in C : B[c] \in DOMAIN g /\ place[B[c]] = P[c]
    BY <1>4
  <2>4. \A b \in DOMAIN g : g[b] # Undefined => f[place[b]] = g[b]
    BY <1>4 DEF ImageInv, ImagesExact
  <2>5. \A b \in DOMAIN g : place[b] = PlaceAt(j, b)
    BY <1>4
  <2> HIDE DEF f, g, place
  <2>6. \A b \in DOMAIN g :
          /\ G[b] # Undefined => F[place[b]] = G[b]
          /\ (\A c \in C : B[c] # b) => G[b] = g[b]
    <3>1. F = Overlaid(f, Writes(C, P, V)) /\ G = Overlaid(g, Writes(C, B, U))
      OBVIOUS
    <3>2. /\ \A c, d \in C : B[c] = B[d] => c = d
          /\ \A c \in C : U[c] # Undefined => V[c] = U[c]
      OBVIOUS
    <3> HIDE DEF F, G
    <3> QED BY ONLY <2>1, <2>2, <2>3, <2>4, <3>1, <3>2, WrittenAlike
  <2> HIDE DEF F, G
  <2> QED BY <1>4, <2>5, <2>6
<1> HIDE DEF f, g, F, G
<1>7. ImageTypes'
  <2>1. ASSUME NEW i \in Images PROVE bytes'[i] = [n \in 0 .. ImageSize(i) - 1 |-> bytes'[i][n]]
    BY <1>1, <1>4, <1>5 DEF ImageInv, ImageTypes
  <2>2. ASSUME NEW i \in Images PROVE DOMAIN ideal'.images[i] = Blocks(i)
    BY <1>2, <1>4, <1>5 DEF ImageInv, ImageTypes
  <2> QED BY <1>1, <1>2, <1>3, <2>1, <2>2 DEF ImageInv, ImageTypes, ImageTakes
<1>8. ImagesExact'
  BY <1>1, <1>2, <1>6 DEF ImageInv, ImagesExact
<1>9. UnmarkedUnwritten'
  <2> SUFFICES ASSUME NEW i \in Images, ~Shape[i].sparse, NEW b \in Blocks(i), b[1] > 0,
                      <<b[1], b[2]>> \notin initialized'[i]
               PROVE  ideal'.images[i][b] = Undefined
    BY DEF UnmarkedUnwritten
  <2>1. CASE i # j
    BY <1>2, <1>3, <2>1 DEF ImageInv, UnmarkedUnwritten
  <2>2. CASE i = j
    <3>1. <<b[1], b[2]>> \notin initialized[j] /\ <<b[1], b[2]>> \notin S
      BY <1>3, <2>2
    <3>2. \A c \in C : B[c] # b
      BY <3>1
    <3>3. g[b] = Undefined
      BY <2>2, <3>1 DEF ImageInv, UnmarkedUnwritten, g
    <3> QED BY <1>2, <1>6, <2>2, <3>2, <3>3
  <2> QED BY <2>1, <2>2
<1>10. ReadbackExact'
  BY <1>2 DEF ImageInv, ReadbackExact, ImageTakes
<1> QED BY <1>7, <1>8, <1>9, <1>10 DEF ImageInv

LEMMA Given ==
  /\ \A r \in Regions : r \in AllRegions
  /\ \A layout \in Layouts : layout \in AllLayouts
BY ImageAssumption DEF AllRegions, AllLayouts

LEMMA UploadKeeps ==
  ASSUME ImageInv, NEW i \in Images, NEW r \in Regions, NEW layout \in Layouts,
         CopyBufferToImage(i, r, layout)
  PROVE  ImageInv'
<1> DEFINE C == CellsOf(i, r)
           P == [c \in C |-> PlaceOf(i, r, c)]
           B == [c \in C |-> BlockOf(i, r, c)]
           V == [c \in C |-> Source[BufferPlace(i, r, layout, c)]]
<1>1. r \in AllRegions /\ InImage(i, r)
  BY Given DEF CopyBufferToImage
<1>2. \A c \in C : B[c] \in Blocks(i) /\ PlaceAt(i, B[c]) = P[c]
                   /\ <<B[c][1], B[c][2]>> \in Subresources(r)
  BY <1>1, CellBlocks
<1>3. \A c, d \in C : B[c] = B[d] => c = d
  BY <1>1, CellBlocks
<1>4. /\ Writes(C, P, V)
           = {<<PlaceOf(i, r, c), Source[BufferPlace(i, r, layout, c)]>> : c \in CellsOf(i, r)}
      /\ Writes(C, B, V)
           = {<<BlockOf(i, r, c), Source[BufferPlace(i, r, layout, c)]>> : c \in CellsOf(i, r)}
  BY DEF Writes
<1>5. ImageTakes(i, Subresources(r), C, P, B, V, V)
  <2> HIDE DEF P, B, V, C
  <2> QED BY <1>4 DEF CopyBufferToImage, Uploaded, Mark, ImageTakes
<1> HIDE DEF C, P, B, V
<1> QED BY <1>2, <1>3, <1>5, ImageWritten

LEMMA ClearKeeps ==
  ASSUME ImageInv, NEW i \in Images, NEW levels, NEW layers, NEW value,
         ClearColorImage(i, levels, layers, value)
  PROVE  ImageInv'
<1> DEFINE C == {b \in Blocks(i) : b[1] \in levels /\ b[2] \in layers}
           P == [b \in C |-> PlaceAt(i, b)]
           B == [b \in C |-> b]
           V == [b \in C |-> value]
<1>1. \A b \in C : B[b] \in Blocks(i) /\ PlaceAt(i, B[b]) = P[b]
                   /\ <<B[b][1], B[b][2]>> \in levels \X layers
  OBVIOUS
<1>2. \A b, d \in C : B[b] = B[d] => b = d
  OBVIOUS
<1>3. Writes(C, P, V) = {<<Place(i, b[1], b[2], b[3]), value>> : b \in C}
  BY DEF Writes, PlaceAt
<1>4. Writes(C, B, V) = {<<b, value>> : b \in C}
  BY DEF Writes
<1>5. ImageTakes(i, levels \X layers, C, P, B, V, V)
  <2> HIDE DEF P, B, V
  <2> QED BY <1>3, <1>4 DEF ClearColorImage, ClearedTo, Mark, ImageTakes
<1> HIDE DEF C, P, B, V
<1> QED BY <1>1, <1>2, <1>5, ImageWritten

LEMMA CopyKeeps ==
  ASSUME ImageInv, NEW i \in Images, NEW j \in Images, NEW r \in Regions, NEW to \in Corners,
         CopyImage(i, j, r, to)
  PROVE  ImageInv'
<1> DEFINE target == [r EXCEPT !.level = to.level, !.layer = to.layer, !.offset = to.offset]
           C == CellsOf(i, r)
           P == [c \in C |-> PlaceOf(j, target, c)]
           B == [c \in C |-> BlockOf(j, target, c)]
           V == [c \in C |-> bytes[i][PlaceOf(i, r, c)]]
           U == [c \in C |-> ideal.images[i][BlockOf(i, r, c)]]
<1>1. r \in AllRegions /\ InImage(i, r) /\ InImage(j, target) /\ Shape[i].block = Shape[j].block
  BY Given DEF CopyImage
<1>2. /\ target \in AllRegions /\ target.layers = r.layers /\ target.extent = r.extent
  <2>1. PICK q \in Regions : to = [level |-> q.level, layer |-> q.layer, offset |-> q.offset]
    BY DEF Corners
  <2>2. q \in AllRegions
    BY Given
  <2> QED BY <1>1, <2>1, <2>2 DEF AllRegions
<1>3. C = CellsOf(j, target)
  BY <1>1, <1>2 DEF CellsOf, InBlocks
<1>4. /\ \A c \in C : B[c] \in Blocks(j) /\ PlaceAt(j, B[c]) = P[c]
                      /\ <<B[c][1], B[c][2]>> \in Subresources(target)
      /\ \A c, d \in C : B[c] = B[d] => c = d
  <2> HIDE DEF target
  <2>1. \A c \in C : /\ BlockOf(j, target, c) \in Blocks(j)
                     /\ PlaceAt(j, BlockOf(j, target, c)) = PlaceOf(j, target, c)
                     /\ <<BlockOf(j, target, c)[1], BlockOf(j, target, c)[2]>> \in Subresources(target)
                     /\ \A d \in C : BlockOf(j, target, c) = BlockOf(j, target, d) => c = d
    BY <1>1, <1>2, <1>3, CellBlocks
  <2> HIDE DEF C
  <2> QED BY <2>1
<1>5. \A c \in C : U[c] # Undefined => V[c] = U[c]
  <2>1. \A c \in C : BlockOf(i, r, c) \in Blocks(i)
                     /\ PlaceAt(i, BlockOf(i, r, c)) = PlaceOf(i, r, c)
    BY <1>1, CellBlocks
  <2> HIDE DEF C
  <2> QED BY <2>1 DEF ImageInv, ImagesExact
<1>6. Writes(C, P, V) = {<<PlaceOf(j, target, c), bytes[i][PlaceOf(i, r, c)]>> : c \in CellsOf(i, r)}
  BY DEF Writes
<1>7. Writes(C, B, U)
        = {<<BlockOf(j, target, c), ideal.images[i][BlockOf(i, r, c)]>> : c \in CellsOf(i, r)}
  BY DEF Writes
<1>8. ImageTakes(j, Subresources(target), C, P, B, V, U)
  <2>1. /\ bytes' = [bytes EXCEPT ![j] = Copied(i, r, j, target, @)]
        /\ initialized' = [initialized EXCEPT ![j] = @ \cup Subresources(target)]
        /\ ideal' = [ideal EXCEPT !.images[j] =
             Overlaid(@, {<<BlockOf(j, target, c), ideal.images[i][BlockOf(i, r, c)]>> :
                            c \in CellsOf(i, r)})]
        /\ readback' = readback
    BY DEF CopyImage, Mark
  <2> HIDE DEF P, B, V, U, C, target
  <2> QED BY <1>6, <1>7, <2>1 DEF Copied, ImageTakes
<1> HIDE DEF C, P, B, V, U, target
<1> QED BY <1>4, <1>5, <1>8, ImageWritten

LEMMA ForeignKeeps ==
  ASSUME ForeignWritersSparse, ImageInv, NEW i \in Images, NEW level \in Levels(i),
         ForeignWrite(i, level, 0)
  PROVE  ImageInv'
<1> DEFINE b == <<level, 0, <<0, 0, 0>>>>
           value == BufferBlocks + 1
           at == Place(i, level, 0, <<0, 0, 0>>)
<1>1. b \in Blocks(i) /\ PlaceAt(i, b) = at
  <2>1. 0 \in Layers(i) /\ level \in Nat
    BY ImageAssumption DEF Layers, Levels
  <2>2. InCells(LevelBlocks(i, level), <<0, 0, 0>>)
    <3>1. \A k \in 1 .. 3 : 0 \in 0 .. LevelBlocks(i, level)[k] - 1
      <4>1. \A k \in 1 .. 3 : LevelBlocks(i, level)[k] \in Nat \ {0}
        BY <2>1, LevelBlocksPositive
      <4> QED BY <4>1
    <3>2. \A k \in 1 .. 3 : <<0, 0, 0>>[k] = 0
      OBVIOUS
    <3> QED BY <3>1, <3>2 DEF InCells
  <2>3. <<level, 0, <<<<0, 0, 0>>[1], <<0, 0, 0>>[2], <<0, 0, 0>>[3]>>>> \in Blocks(i)
    BY <2>1, <2>2, BlocksOf
  <2> QED BY <2>3 DEF PlaceAt
<1>2. at \in 0 .. ImageSize(i) - 1
  BY <1>1, BlockPlaces
<1> HIDE DEF at
<1>3. /\ bytes' = [bytes EXCEPT ![i][at] = value]
      /\ ideal' = [ideal EXCEPT !.images[i][b] = value]
      /\ initialized' = initialized /\ readback' = readback
      /\ level = 0 \/ <<level, 0>> \in initialized[i] \/ Shape[i].sparse
  BY DEF ForeignWrite, ForeignWritersSparse, at
<1>4. /\ DOMAIN bytes' = Images /\ bytes'[i] = [bytes[i] EXCEPT ![at] = value]
      /\ \A j \in Images \ {i} : bytes'[j] = bytes[j]
  BY <1>3 DEF ImageInv, ImageTypes
<1>5. /\ ideal' = [images |-> ideal'.images, readback |-> ideal'.readback]
      /\ ideal'.readback = ideal.readback /\ DOMAIN ideal'.images = Images
      /\ ideal'.images[i] = [ideal.images[i] EXCEPT ![b] = value]
      /\ \A j \in Images \ {i} : ideal'.images[j] = ideal.images[j]
  BY <1>3 DEF ImageInv, ImageTypes
<1> HIDE DEF b, value
<1>6. ImageTypes'
  <2>1. ASSUME NEW j \in Images PROVE bytes'[j] = [n \in 0 .. ImageSize(j) - 1 |-> bytes'[j][n]]
    <3>1. CASE j # i
      BY <1>4, <3>1 DEF ImageInv, ImageTypes
    <3>2. CASE j = i
      <4>1. bytes[i] = [n \in 0 .. ImageSize(i) - 1 |-> bytes[i][n]]
        BY DEF ImageInv, ImageTypes
      <4> DEFINE was == bytes[i]
                 is == [was EXCEPT ![at] = value]
      <4>2. is = [n \in 0 .. ImageSize(i) - 1 |-> is[n]]
        BY <4>1
      <4> HIDE DEF is
      <4> QED BY <1>4, <3>2, <4>2 DEF is
    <3> QED BY <3>1, <3>2
  <2>2. ASSUME NEW j \in Images PROVE DOMAIN ideal'.images[j] = Blocks(j)
    BY <1>5 DEF ImageInv, ImageTypes
  <2> QED BY <1>3, <1>4, <1>5, <2>1, <2>2 DEF ImageInv, ImageTypes
<1>7. ImagesExact'
  <2> SUFFICES ASSUME NEW j \in Images, NEW d \in Blocks(j), ideal'.images[j][d] # Undefined
               PROVE  bytes'[j][PlaceAt(j, d)] = ideal'.images[j][d]
    BY DEF ImagesExact
  <2>1. CASE j # i
    BY <1>4, <1>5, <2>1 DEF ImageInv, ImagesExact
  <2>2. CASE j = i /\ d = b
    <3>1. at \in DOMAIN bytes[i] /\ b \in DOMAIN ideal.images[i]
      BY <1>1, <1>2 DEF ImageInv, ImageTypes
    <3>2. bytes'[i][at] = value /\ ideal'.images[i][b] = value
      BY <1>4, <1>5, <3>1
    <3> QED BY <1>1, <2>2, <3>2
  <2>3. CASE j = i /\ d # b
    <3>1. PlaceAt(i, d) # at /\ PlaceAt(i, d) \in 0 .. ImageSize(i) - 1
      BY <1>1, <2>3, BlockPlaces
    <3>2. ideal'.images[i][d] = ideal.images[i][d]
      BY <1>5, <2>3 DEF ImageInv, ImageTypes
    <3>3. bytes'[i][PlaceAt(i, d)] = bytes[i][PlaceAt(i, d)]
      <4>1. DOMAIN bytes[i] = 0 .. ImageSize(i) - 1
        BY DEF ImageInv, ImageTypes
      <4> QED BY <1>4, <3>1, <4>1
    <3> QED BY <2>3, <3>2, <3>3 DEF ImageInv, ImagesExact
  <2> QED BY <2>1, <2>2, <2>3
<1>8. UnmarkedUnwritten'
  <2> SUFFICES ASSUME NEW j \in Images, ~Shape[j].sparse, NEW d \in Blocks(j), d[1] > 0,
                      <<d[1], d[2]>> \notin initialized[j]
               PROVE  ideal'.images[j][d] = Undefined
    BY <1>3 DEF UnmarkedUnwritten
  <2>1. ideal.images[j][d] = Undefined
    BY DEF ImageInv, UnmarkedUnwritten
  <2>2. j # i \/ d # b
    BY <1>3 DEF b
  <2> QED BY <1>5, <2>1, <2>2 DEF ImageInv, ImageTypes
<1>9. ReadbackExact'
  BY <1>3, <1>5 DEF ImageInv, ReadbackExact
<1> QED BY <1>6, <1>7, <1>8, <1>9 DEF ImageInv

\* The contents image i may have, of values in V.
Contents(i, V) == [0 .. ImageSize(i) - 1 -> V]

\* Making a level writes places of that level alone.
LEMMA GeneratedApart ==
  ASSUME NEW i \in Images, NEW m \in Levels(i) \ {0}, NEW l \in Layers(i), NEW V,
         NEW content \in Contents(i, V)
  PROVE  /\ Generated(i, content, m, l) \in Contents(i, V)
         /\ \A b \in Blocks(i) : <<b[1], b[2]>> # <<m, l>> =>
              Generated(i, content, m, l)[PlaceAt(i, b)] = content[PlaceAt(i, b)]
<1> DEFINE cells == Cells(LevelBlocks(i, m))
           from(at) == Place(i, m - 1, l, Sampled(i, m, at))
           writes == {<<Place(i, m, l, at), content[from(at)]>> : at \in cells}
           made == Overlaid(content, writes)
<1>1. Generated(i, content, m, l) = made
  BY DEF Generated
<1>2. ASSUME NEW at \in cells PROVE content[from(at)] \in V
  <2>1. m - 1 \in Levels(i) /\ m \in Nat /\ m - 1 \in Nat
    BY ImageAssumption DEF Levels
  <2>2. InCells(LevelBlocks(i, m - 1), Sampled(i, m, at))
    <3>1. ASSUME NEW k \in 1 .. 3
          PROVE  Sampled(i, m, at)[k] \in 0 .. LevelBlocks(i, m - 1)[k] - 1
      <4>1. LevelBlocks(i, m - 1)[k] \in Nat \ {0} /\ LevelBlocks(i, m)[k] \in Nat \ {0}
        BY <2>1, LevelBlocksPositive
      <4>2. at[k] \in Nat
        BY <4>1, InCellsOf DEF InCells
      <4> QED BY <4>1, <4>2 DEF Sampled
    <3> QED BY <3>1 DEF InCells
  <2>3. from(at) \in 0 .. ImageSize(i) - 1
    BY <2>1, <2>2, Places
  <2> QED BY <2>3 DEF Contents
<1>3. \A w \in writes : w[2] \in V
  BY <1>2
<1> HIDE DEF writes
<1>4. made \in [0 .. ImageSize(i) - 1 -> V]
  BY <1>3, OverlaidIn DEF Contents
<1>5. ASSUME NEW b \in Blocks(i), <<b[1], b[2]>> # <<m, l>>
      PROVE  made[PlaceAt(i, b)] = content[PlaceAt(i, b)]
  <2>1. \A w \in writes : w[1] # PlaceAt(i, b)
    <3> SUFFICES ASSUME NEW at \in cells, Place(i, m, l, at) = PlaceAt(i, b) PROVE FALSE
      BY DEF writes
    <3>1. InCells(LevelBlocks(i, m), at) /\ m \in Levels(i)
      BY InCellsOf
    <3>2. /\ b[1] \in Levels(i) /\ b[2] \in Layers(i)
          /\ InCells(LevelBlocks(i, b[1]), b[3])
      BY InBlocksOf
    <3>3. m = b[1] /\ l = b[2]
      BY <3>1, <3>2, Places DEF PlaceAt
    <3> QED BY <1>5, <3>3
  <2>2. PlaceAt(i, b) \in DOMAIN content
    BY BlockPlaces DEF Contents
  <2> QED BY <2>1, <2>2, OverlaidAt
<1> QED BY <1>1, <1>4, <1>5 DEF Contents

\* Preparing a level writes no level that was written, and no base level.
LEMMA PreparedApart ==
  ASSUME ImageTypes, NEW i \in Images, NEW level \in Levels(i), NEW l \in Layers(i)
  PROVE  /\ Prepared(i, level, l)
              = [n \in 0 .. ImageSize(i) - 1 |-> Prepared(i, level, l)[n]]
         /\ \A b \in Blocks(i) : b[1] = 0 \/ <<b[1], b[2]>> \in initialized[i] =>
              Prepared(i, level, l)[PlaceAt(i, b)] = bytes[i][PlaceAt(i, b)]
<1> DEFINE V == {bytes[i][n] : n \in 0 .. ImageSize(i) - 1}
           D == Contents(i, V)
           taken(m) == <<m, l>> \in initialized[i]
           next == [p \in (1 .. level) \X D |->
                      IF taken(p[1]) THEN bytes[i] ELSE Generated(i, p[2], p[1], l)]
           Is(f) == f = [m \in 0 .. level |-> IF <<m, l>> \in initialized[i] \/ m = 0 THEN bytes[i]
                                              ELSE Generated(i, f[m - 1], m, l)]
           made == CHOOSE f : Is(f)
           Same == {content \in D : \A b \in Blocks(i) : b[1] = 0 \/ <<b[1], b[2]>> \in initialized[i] =>
                      content[PlaceAt(i, b)] = bytes[i][PlaceAt(i, b)]}
<1>1. level \in Nat
  BY DEF Levels
<1>2. \A m \in 1 .. level : m \in Levels(i) \ {0}
  BY ImageAssumption DEF Levels
<1>3. bytes[i] \in D
  <2>1. bytes[i] = [n \in 0 .. ImageSize(i) - 1 |-> bytes[i][n]]
    BY DEF ImageTypes
  <2>2. \A n \in 0 .. ImageSize(i) - 1 : bytes[i][n] \in V
    OBVIOUS
  <2> HIDE DEF V
  <2> QED BY <2>1, <2>2 DEF Contents
<1> HIDE DEF V
<1>4. \A m \in 1 .. level : \A content \in D :
        /\ Generated(i, content, m, l) \in D
        /\ \A b \in Blocks(i) : <<b[1], b[2]>> # <<m, l>> =>
             Generated(i, content, m, l)[PlaceAt(i, b)] = content[PlaceAt(i, b)]
  <2> SUFFICES ASSUME NEW m \in 1 .. level, NEW content \in D
               PROVE  /\ Generated(i, content, m, l) \in D
                      /\ \A b \in Blocks(i) : <<b[1], b[2]>> # <<m, l>> =>
                           Generated(i, content, m, l)[PlaceAt(i, b)] = content[PlaceAt(i, b)]
    OBVIOUS
  <2>1. m \in Levels(i) \ {0}
    BY <1>2
  <2> QED BY <2>1, GeneratedApart
<1>5. next \in [(1 .. level) \X D -> D]
  BY <1>3, <1>4
<1>6. \A m \in 1 .. level : \A content \in D :
        next[<<m, content>>] = IF taken(m) THEN bytes[i] ELSE Generated(i, content, m, l)
  OBVIOUS
<1>7. \E f : Is(f)
  <2> HIDE DEF D, next
  <2>1. PICK f \in [0 .. level -> D] : Follows(f, level, bytes[i], next)
    BY <1>1, <1>3, <1>5, Recursion
  <2>2. ASSUME NEW m \in 0 .. level
        PROVE  f[m] = IF <<m, l>> \in initialized[i] \/ m = 0 THEN bytes[i]
                      ELSE Generated(i, f[m - 1], m, l)
    <3>1. CASE m = 0
      BY <2>1, <3>1 DEF Follows
    <3>2. CASE m # 0
      <4>1. m \in 1 .. level /\ f[m - 1] \in D
        BY <1>1, <3>2
      <4>2. f[m] = next[<<m, f[m - 1]>>]
        BY <2>1, <3>2 DEF Follows
      <4> QED BY <1>6, <3>2, <4>1, <4>2
    <3> QED BY <3>1, <3>2
  <2>3. Is(f)
    BY <2>2
  <2> HIDE DEF Is
  <2> QED BY <2>3
<1>8. Is(made)
  BY <1>7
<1>9. Prepared(i, level, l) = made[level]
  BY DEF Prepared
<1> HIDE DEF made
<1>10. bytes[i] \in Same
  BY <1>3
<1>11. ASSUME NEW m \in 1 .. level, made[m - 1] \in Same PROVE made[m] \in Same
  <2>1. CASE taken(m)
    <3>1. made[m] = bytes[i]
      BY <1>1, <1>8, <2>1
    <3> QED BY <1>10, <3>1
  <2>2. CASE ~taken(m)
    <3>1. made[m] = Generated(i, made[m - 1], m, l)
      BY <1>1, <1>8, <2>2
    <3> DEFINE content == made[m - 1]
    <3>2. content \in D
      BY <1>11
    <3> HIDE DEF content
    <3>3. /\ Generated(i, content, m, l) \in D
          /\ \A b \in Blocks(i) : <<b[1], b[2]>> # <<m, l>> =>
               Generated(i, content, m, l)[PlaceAt(i, b)] = content[PlaceAt(i, b)]
      <4> HIDE DEF D
      <4> QED BY <1>4, <3>2
    <3>4. \A b \in Blocks(i) : b[1] = 0 \/ <<b[1], b[2]>> \in initialized[i] =>
            <<b[1], b[2]>> # <<m, l>> /\ content[PlaceAt(i, b)] = bytes[i][PlaceAt(i, b)]
      BY <1>11, <2>2 DEF content
    <3> HIDE DEF D
    <3> QED BY <3>1, <3>3, <3>4 DEF content
  <2> QED BY <2>1, <2>2
<1>12. made[0] \in Same
  BY <1>1, <1>8, <1>10
<1> HIDE DEF Same, Is
<1>13. made[level] \in Same
  BY <1>1, <1>11, <1>12, StepByStep
<1> QED BY <1>9, <1>13 DEF Same, Contents

LEMMA ReadKeeps ==
  ASSUME ImageInv, NEW i \in Images, NEW r \in Regions, NEW layout \in Layouts,
         CopyImageToBuffer(i, r, layout)
  PROVE  ImageInv'
<1> DEFINE prepares == ~Shape[i].sparse /\ <<r.level, r.layer>> \notin initialized[i]
           S == IF prepares THEN Made(i, r.level, r.layer) ELSE {}
           content == IF prepares THEN Prepared(i, r.level, r.layer) ELSE bytes[i]
           C == CellsOf(i, r)
           P == [c \in C |-> BufferPlace(i, r, layout, c)]
           V == [c \in C |-> bytes'[i][PlaceOf(i, r, c)]]
           U == [c \in C |-> ideal.images[i][BlockOf(i, r, c)]]
           place == [n \in 0 .. BufferBlocks - 1 |-> n]
<1>1. /\ r \in AllRegions /\ layout \in AllLayouts
      /\ InImage(i, r) /\ Fits(i, r, layout) /\ r.layers = 1
  BY Given DEF CopyImageToBuffer
<1>2. CASE UNCHANGED <<bytes, initialized, readback, ideal>>
  BY <1>2 DEF ImageInv, ImageTypes, ImagesExact, UnmarkedUnwritten, ReadbackExact
<1>3. CASE /\ bytes' = [bytes EXCEPT ![i] = content]
           /\ initialized' = [initialized EXCEPT ![i] = @ \cup S]
           /\ readback' = ReadBackFrom(i, r, layout, bytes'[i])
           /\ ideal' = [ideal EXCEPT !.readback =
                Overlaid(@, {<<BufferPlace(i, r, layout, c), ideal.images[i][BlockOf(i, r, c)]>> :
                               c \in CellsOf(i, r)})]
  <2>1. r.level \in Levels(i) /\ r.layer \in Layers(i)
    BY <1>1, ImageAssumption DEF InImage, AllRegions, Levels, Layers
  <2>2. /\ content = [n \in 0 .. ImageSize(i) - 1 |-> content[n]]
        /\ \A b \in Blocks(i) : b[1] = 0 \/ <<b[1], b[2]>> \in initialized[i] \/ Shape[i].sparse =>
             content[PlaceAt(i, b)] = bytes[i][PlaceAt(i, b)]
    <3>1. CASE prepares
      BY <2>1, <3>1, PreparedApart DEF ImageInv
    <3>2. CASE ~prepares
      BY <3>2 DEF ImageInv, ImageTypes
    <3> QED BY <3>1, <3>2
  <2> HIDE DEF content, S
  <2>3. /\ DOMAIN bytes' = Images /\ bytes'[i] = content
        /\ \A j \in Images \ {i} : bytes'[j] = bytes[j]
    BY <1>3 DEF ImageInv, ImageTypes
  <2>4. /\ ideal' = [images |-> ideal'.images, readback |-> ideal'.readback]
        /\ ideal'.images = ideal.images
        /\ ideal'.readback = Overlaid(ideal.readback, Writes(C, P, U))
        /\ readback' = Overlaid(readback, Writes(C, P, V))
    <3>1. Writes(C, P, U)
            = {<<BufferPlace(i, r, layout, c), ideal.images[i][BlockOf(i, r, c)]>> :
                 c \in CellsOf(i, r)}
      BY DEF Writes
    <3>2. Writes(C, P, V)
            = {<<BufferPlace(i, r, layout, c), bytes'[i][PlaceOf(i, r, c)]>> : c \in CellsOf(i, r)}
      BY DEF Writes
    <3> HIDE DEF C, P, U, V
    <3> QED BY <1>3, <3>1, <3>2 DEF ReadBackFrom, ImageInv, ImageTypes
  <2>5. /\ DOMAIN initialized' = Images /\ \A j \in Images : initialized[j] \subseteq initialized'[j]
    BY <1>3 DEF ImageInv, ImageTypes
  <2>6. ImagesExact'
    <3> SUFFICES ASSUME NEW j \in Images, NEW b \in Blocks(j), ideal.images[j][b] # Undefined
                 PROVE  bytes'[j][PlaceAt(j, b)] = ideal.images[j][b]
      BY <2>4 DEF ImagesExact
    <3>1. bytes[j][PlaceAt(j, b)] = ideal.images[j][b]
      BY DEF ImageInv, ImagesExact
    <3>2. Shape[j].sparse \/ b[1] = 0 \/ <<b[1], b[2]>> \in initialized[j]
      <4>1. b[1] \in Nat
        BY InBlocksOf DEF Levels
      <4> QED BY <4>1 DEF ImageInv, UnmarkedUnwritten
    <3> QED BY <2>2, <2>3, <3>1, <3>2
  <2>7. UnmarkedUnwritten'
    BY <2>4, <2>5 DEF ImageInv, UnmarkedUnwritten
  <2>8. DOMAIN readback' = 0 .. BufferBlocks - 1 /\ DOMAIN ideal'.readback = 0 .. BufferBlocks - 1
    BY <2>4, OverlaidAt DEF ImageInv, ImageTypes
  <2>9. ImageTypes'
    <3>1. \A j \in Images : bytes'[j] = [n \in 0 .. ImageSize(j) - 1 |-> bytes'[j][n]]
      BY <2>2, <2>3 DEF ImageInv, ImageTypes
    <3> QED BY <2>3, <2>4, <2>5, <2>8, <3>1 DEF ImageInv, ImageTypes
  <2>10. ReadbackExact'
    <3>1. DOMAIN readback = 0 .. BufferBlocks - 1 /\ DOMAIN ideal.readback = 0 .. BufferBlocks - 1
      BY DEF ImageInv, ImageTypes
    <3>2. \A n \in DOMAIN ideal.readback : place[n] = n /\ place[n] \in DOMAIN readback
      BY <3>1
    <3>3. \A n, m \in DOMAIN ideal.readback : place[n] = place[m] => n = m
      BY <3>2
    <3>4. \A c \in C : P[c] \in DOMAIN ideal.readback /\ place[P[c]] = P[c]
      BY <1>1, <3>1, <3>2, BufferPlaces
    <3>5. \A c, d \in C : P[c] = P[d] => c = d
      BY <1>1, BufferPlaces
    <3>6. \A c \in C : U[c] # Undefined => V[c] = U[c]
      <4>1. \A c \in C : BlockOf(i, r, c) \in Blocks(i)
                         /\ PlaceAt(i, BlockOf(i, r, c)) = PlaceOf(i, r, c)
        BY <1>1, CellBlocks
      <4> HIDE DEF C
      <4> QED BY <2>4, <2>6, <4>1 DEF ImagesExact
    <3>7. \A n \in DOMAIN ideal.readback :
            ideal.readback[n] # Undefined => readback[place[n]] = ideal.readback[n]
      BY <3>1, <3>2 DEF ImageInv, ReadbackExact
    <3> DEFINE F == readback'
               G == ideal'.readback
               g == ideal.readback
    <3>8. F = Overlaid(readback, Writes(C, P, V)) /\ G = Overlaid(g, Writes(C, P, U))
      BY <2>4
    <3> HIDE DEF C, P, V, U, place, F, G, g
    <3>9. \A n \in DOMAIN g : G[n] # Undefined => F[n] = G[n]
      <4>1. \A n \in DOMAIN g : G[n] # Undefined => F[place[n]] = G[n]
        BY <3>2, <3>3, <3>4, <3>5, <3>6, <3>7, <3>8, WrittenAlike DEF g
      <4> QED BY <3>2, <4>1 DEF g
    <3> QED BY <2>8, <3>1, <3>9 DEF ReadbackExact, F, G, g
  <2> QED BY <2>6, <2>7, <2>9, <2>10 DEF ImageInv
<1>4. QED
  BY <1>2, <1>3 DEF CopyImageToBuffer, Mark

LEMMA ImagesInitially == ImageInit => ImageInv
<1> SUFFICES ASSUME ImageInit PROVE ImageInv
  OBVIOUS
<1>1. ImageTypes
  BY DEF ImageInit, ImageTypes
<1>2. \A i \in Images : \A b \in Blocks(i) : ideal.images[i][b] = Undefined
  BY DEF ImageInit
<1>3. ReadbackExact
  BY DEF ImageInit, ReadbackExact
<1> QED BY <1>1, <1>2, <1>3 DEF ImageInv, ImagesExact, UnmarkedUnwritten

LEMMA ImageStep ==
  ASSUME ForeignWritersSparse, ImageInv, [ImageNext]_imageVars
  PROVE  ImageInv'
<1>1. ASSUME NEW i \in Images, NEW r \in Regions, NEW layout \in Layouts,
             CopyBufferToImage(i, r, layout)
      PROVE  ImageInv'
  BY <1>1, UploadKeeps
<1>2. ASSUME NEW i \in Images, NEW r \in Regions, NEW layout \in Layouts,
             CopyImageToBuffer(i, r, layout)
      PROVE  ImageInv'
  BY <1>2, ReadKeeps
<1>3. ASSUME NEW i \in Images, NEW j \in Images, NEW r \in Regions, NEW to \in Corners,
             CopyImage(i, j, r, to)
      PROVE  ImageInv'
  BY <1>3, CopyKeeps
<1>4. ASSUME NEW i \in Images, NEW levels, NEW layers,
             ClearColorImage(i, levels, layers, BufferBlocks + 2)
      PROVE  ImageInv'
  BY <1>4, ClearKeeps
<1>5. ASSUME NEW i \in Images, NEW level \in 0 .. Shape[i].mips - 1, ForeignWrite(i, level, 0)
      PROVE  ImageInv'
  BY <1>5, ForeignKeeps DEF Levels
<1>6. CASE UNCHANGED imageVars
  BY <1>6 DEF imageVars, ImageInv, ImageTypes, ImagesExact, UnmarkedUnwritten, ReadbackExact
<1> QED BY <1>1, <1>2, <1>3, <1>4, <1>5, <1>6 DEF ImageNext

\* What a copy out of an image brings to the buffer is what Vulkan says the
\* image holds, for every shape, region, layout and number of transfers.
THEOREM ImagesReadBack ==
  ASSUME ForeignWritersSparse
  PROVE  ImageSpec => []ReadbackExact
<1>1. ImageInit => ImageInv
  BY ImagesInitially
<1>2. ImageInv /\ [ImageNext]_imageVars => ImageInv'
  BY ImageStep
<1>3. ImageInv => ReadbackExact
  BY DEF ImageInv
<1> QED BY <1>1, <1>2, <1>3, PTL DEF ImageSpec

=============================================================================
