------------------------- MODULE ConfigStoreProofs -------------------------
(***************************************************************************)
(* The configuration file is a register, for every set of documents, and   *)
(* loading it keeps what it refers to, for every document.                 *)
(***************************************************************************)
EXTENDS ConfigMigration, SequenceTheorems, FiniteSetTheorems, WellFoundedInduction, TLAPS

LEMMA LoadedType ==
  ASSUME NEW d \in Docs
  PROVE  /\ Loaded(d) \in Docs
         /\ MigrateIds[Loaded(d)] = Loaded(d)
         /\ Loaded(Loaded(d)) = Loaded(d)
BY MigrateIdsAssumption, FixBackendsAssumption, LoadingTwiceChangesNothing DEF Loaded

LEMMA InitInvariant == Init => IInv
BY MarkersAreNoDocs DEF Init, IInv, TypeOK, ServedIsCanonical, AnsweredIsDurable

LEMMA StepInvariant ==
  ASSUME IInv, [Next]_vars
  PROVE  IInv'
<1> USE MarkersAreNoDocs DEF IInv, TypeOK, ServedIsCanonical, AnsweredIsDurable
<1>1. CASE Start
  <2>1. CASE file = NoFile
    <3>1. saving' = DefaultDoc /\ step' = "write" /\ UNCHANGED <<file, tmp, memory, answered>>
      BY <1>1, <2>1 DEF Start, Save
    <3>2. answered = None
      <4> SUFFICES ASSUME answered # None PROVE FALSE
        OBVIOUS
      <4>1. answered \in Docs /\ file \in {answered, Loaded(answered)}
        BY <1>1 DEF Start
      <4>2. QED
        BY <2>1, <4>1, LoadedType
    <3>3. QED
      BY <1>1, <3>1, <3>2, DocsAssumption, MigrateIdsAssumption DEF Start
  <2>2. CASE file # NoFile
    <3>1. /\ file \in Docs /\ memory = None /\ saving = None
          /\ UNCHANGED <<file, tmp, answered>>
          /\ \/ /\ Loaded(file) # file
                /\ saving' = Loaded(file) /\ step' = "write" /\ memory' = memory
             \/ Loaded(file) = file /\ memory' = file /\ UNCHANGED <<saving, step>>
      BY <1>1, <2>2 DEF Start, Save
    <3>2. /\ Loaded(file) \in Docs /\ MigrateIds[Loaded(file)] = Loaded(file)
          /\ Loaded(Loaded(file)) = Loaded(file)
      BY <3>1, LoadedType
    <3>3. answered # None => file \in {answered, Loaded(answered)}
      BY <3>1
    <3>4. answered # None => Loaded(file) = Loaded(answered)
      BY <3>3, LoadedType
    <3>5. CASE Loaded(file) # file
      BY <3>1, <3>2, <3>3, <3>4, <3>5
    <3>6. CASE Loaded(file) = file
      BY <3>1, <3>2, <3>3, <3>6
    <3>7. QED
      BY <3>5, <3>6
  <2>3. QED
    BY <2>1, <2>2
<1>2. CASE \E doc \in Docs : Post(doc)
  <2>1. PICK doc \in Docs : Post(doc)
    BY <1>2
  <2>2. MigrateIds[doc] \in Docs /\ MigrateIds[MigrateIds[doc]] = MigrateIds[doc]
    BY MigrateIdsAssumption
  <2>3. QED
    BY <2>1, <2>2 DEF Post, Save
<1>3. CASE WriteTmp
  BY <1>3 DEF WriteTmp
<1>4. CASE Replace
  BY <1>4 DEF Replace
<1>5. CASE Fail
  <2>1. /\ saving # None /\ step # "done" /\ tmp' \in {tmp, Torn}
        /\ saving' = None /\ step' = "done" /\ UNCHANGED <<file, memory, answered>>
    BY <1>5 DEF Fail
  <2>2. QED
    BY <2>1
<1>6. CASE Install
  <2>1. CASE memory = None
    BY <1>6, <2>1 DEF Install
  <2>2. CASE memory # None
    BY <1>6, <2>2 DEF Install
  <2>3. QED
    BY <2>1, <2>2
<1>7. CASE Stop
  <2>1. /\ tmp' \in {tmp, Torn} /\ memory' = None /\ saving' = None /\ step' = "done"
        /\ UNCHANGED file
        /\ answered' = IF saving # None /\ step = "done" THEN None ELSE answered
    BY <1>7 DEF Stop
  <2>2. QED
    BY <2>1
<1>8. CASE EditFile
  BY <1>8 DEF EditFile
<1>9. CASE UNCHANGED vars
  BY <1>9 DEF vars
<1>10. QED
  BY <1>1, <1>2, <1>3, <1>4, <1>5, <1>6, <1>7, <1>8, <1>9 DEF Next

(* Every step changes the register as the register may change. *)
LEMMA StepRegister ==
  ASSUME IInv, [Next]_vars
  PROVE  [Register!Next]_Register!vars
<1> USE MarkersAreNoDocs DEF IInv, TypeOK, Register!vars
<1>1. CASE Start
  BY <1>1 DEF Start, Register!Next, Register!Use
<1>2. CASE Replace
  <2>1. Register!Store
    BY <1>2 DEF Replace, Register!Store
  <2>2. QED
    BY <2>1 DEF Register!Next
<1>3. CASE Install
  <2>1. Register!Use
    BY <1>3 DEF Install, Register!Use
  <2>2. QED
    BY <2>1 DEF Register!Next
<1>4. CASE Stop
  BY <1>4 DEF Stop, Register!Next, Register!Stop
<1>5. CASE EditFile
  <2>1. Register!Edit
    BY <1>5 DEF EditFile, Register!Edit
  <2>2. QED
    BY <2>1 DEF Register!Next
<1>6. CASE WriteTmp \/ Fail \/ \E doc \in Docs : Post(doc)
  BY <1>6 DEF WriteTmp, Fail, Post
<1>7. CASE UNCHANGED vars
  BY <1>7 DEF vars
<1>8. QED
  BY <1>1, <1>2, <1>3, <1>4, <1>5, <1>6, <1>7 DEF Next

(* The inductive invariant holds in every reachable state. *)
THEOREM StoreInvariant == Spec => []IInv
<1>1. IInv /\ [Next]_vars => IInv'
  BY StepInvariant
<1>2. QED
  BY <1>1, InitInvariant, PTL DEF Spec

(* A document answered with ok is what a later start reads or upgrades. *)
THEOREM DurableTheorem == Spec => []AnsweredIsDurable
<1>1. IInv => AnsweredIsDurable
  BY DEF IInv
<1>2. QED
  BY <1>1, StoreInvariant, PTL

(* Identifiers in use are canonical. *)
THEOREM CanonicalTheorem == Spec => []ServedIsCanonical
<1>1. IInv => ServedIsCanonical
  BY DEF IInv
<1>2. QED
  BY <1>1, StoreInvariant, PTL

(* File and memory implement a register that is written in one step. *)
THEOREM RegisterRefinement == Spec => ImplementsRegister
<1>1. Init => Register!Init
  BY DEF Init, Register!Init
<1>2. IInv /\ [Next]_vars => [Register!Next]_Register!vars
  BY StepRegister
<1>3. QED
  BY <1>1, <1>2, StoreInvariant, PTL DEF Spec, ImplementsRegister, Register!Spec

----------------------------------------------------------------------------
(* Lists at chosen indices.                                                *)

(* Every non-empty set of natural numbers has a least element. *)
LEMMA LeastNatural ==
  ASSUME NEW S \in SUBSET Nat, S # {}
  PROVE  \E m \in S : \A n \in S : m <= n
<1>1. PICK m \in S : \A n \in S : ~ (<<n, m>> \in OpToRel(<, Nat))
  BY NatLessThanWellFounded, WFMin, Zenon
<1>2. ASSUME NEW n \in S, n < m PROVE FALSE
  <2>1. <<n, m>> \in OpToRel(<, Nat)
    BY <1>2, SMT DEF OpToRel
  <2>2. QED
    BY <1>1, <2>1
<1>3. QED
  BY <1>2

(* Every non-empty set of indices has a greatest element. *)
LEMMA LargestIndex ==
  ASSUME NEW n \in Nat, NEW s \in SUBSET (1 .. n), s # {}
  PROVE  Max(s) \in s /\ \A i \in s : i <= Max(s)
<1>1. PICK above : above = { k \in Nat : \A i \in s : i <= k }
  OBVIOUS
<1>2. n \in above /\ above \in SUBSET Nat
  BY <1>1
<1>3. PICK m \in above : \A k \in above : m <= k
  BY <1>2, LeastNatural
<1>4. m \in Nat /\ \A i \in s : i <= m
  BY <1>1, <1>3
<1>5. m \in s
  <2>1. SUFFICES ASSUME m \notin s PROVE FALSE
    OBVIOUS
  <2>2. \A i \in s : i \in Nat /\ i > 0 /\ i < m
    BY <1>4, <2>1
  <2>3. m - 1 \in above
    <3>1. m \in Nat /\ m > 0
      <4>1. PICK i \in s : TRUE
        OBVIOUS
      <4>2. QED
        BY <1>4, <2>2, <4>1
    <3>2. m - 1 \in Nat /\ \A i \in s : i <= m - 1
      BY <3>1, <2>2
    <3>3. QED
      BY <1>1, <3>2
  <2>4. QED
    BY <1>3, <1>4, <2>3
<1>6. \E x \in s : \A y \in s : x >= y
  BY <1>4, <1>5
<1>7. QED
  BY <1>6 DEF Max

LEMMA ListFacts ==
  ASSUME NEW S, NEW s \in Seq(S)
  PROVE  Len(s) \in Nat /\ DOMAIN s = 1 .. Len(s) /\ \A i \in DOMAIN s : s[i] \in S
  BY LenProperties

LEMMA Appended ==
  ASSUME NEW S, NEW s \in Seq(S), NEW e \in S
  PROVE  /\ Append(s, e) \in Seq(S)
         /\ DOMAIN Append(s, e) = DOMAIN s \cup {Len(s) + 1}
         /\ Len(s) + 1 \notin DOMAIN s
         /\ Append(s, e)[Len(s) + 1] = e
         /\ \A i \in DOMAIN s : Append(s, e)[i] = s[i]
<1>1. Len(s) \in Nat /\ DOMAIN s = 1 .. Len(s)
  BY ListFacts
<1>2. /\ Append(s, e) \in Seq(S) /\ Len(Append(s, e)) = Len(s) + 1
      /\ \A i \in 1 .. Len(s) : Append(s, e)[i] = s[i]
      /\ Append(s, e)[Len(s) + 1] = e
  BY AppendProperties
<1>3. DOMAIN Append(s, e) = 1 .. Len(s) + 1
  BY <1>2, LenProperties
<1>4. QED
  BY <1>1, <1>2, <1>3

RankIn(indices, i) == Cardinality({ j \in indices : j <= i })

(* The k-th index exists, and every index is the k-th for some k. *)
LEMMA PlaceOfRank ==
  ASSUME NEW n \in Nat, NEW S \in SUBSET (1 .. n)
  PROVE  /\ Cardinality(S) \in Nat
         /\ \A i \in S : RankIn(S, i) \in 1 .. Cardinality(S) /\ Place(S, RankIn(S, i)) = i
         /\ \A k \in 1 .. Cardinality(S) : Place(S, k) \in S /\ RankIn(S, Place(S, k)) = k
<1> DEFINE Below(i) == { j \in S : j <= i }
<1>1. IsFiniteSet(S) /\ Cardinality(S) \in Nat
  <2>1. IsFiniteSet(1 .. n)
    BY FS_Interval
  <2>2. IsFiniteSet(S)
    BY <2>1, FS_Subset
  <2>3. QED
    BY <2>2, FS_CardinalityType
<1>0. \A i \in S : i \in Nat
  OBVIOUS
<1>2. ASSUME NEW i \in S PROVE IsFiniteSet(Below(i)) /\ RankIn(S, i) \in 1 .. Cardinality(S)
  <2>1. Below(i) \in SUBSET S /\ i \in Below(i)
    OBVIOUS
  <2>2. IsFiniteSet(Below(i)) /\ Cardinality(Below(i)) <= Cardinality(S)
    BY <1>1, <2>1, FS_Subset
  <2>3. Cardinality(Below(i)) \in Nat /\ Cardinality(Below(i)) # 0
    BY <2>1, <2>2, FS_CardinalityType, FS_EmptySet
  <2>4. QED
    BY <1>1, <2>2, <2>3 DEF RankIn
<1>3. ASSUME NEW i \in S, NEW j \in S, i < j PROVE RankIn(S, i) < RankIn(S, j)
  <2>1. Below(i) \in SUBSET Below(j) /\ j \in Below(j) /\ j \notin Below(i)
    <3>1. \A x \in S : x <= i => x <= j
      BY <1>0, <1>3
    <3>2. j <= j /\ ~(j <= i)
      BY <1>0, <1>3
    <3>3. QED
      BY <3>1, <3>2
  <2>2. Cardinality(Below(i)) <= Cardinality(Below(j)) /\ Cardinality(Below(i)) # Cardinality(Below(j))
    BY <1>2, <2>1, FS_Subset
  <2>3. Cardinality(Below(i)) \in Nat /\ Cardinality(Below(j)) \in Nat
    BY <1>2, FS_CardinalityType
  <2>4. QED
    BY <2>2, <2>3 DEF RankIn
<1>4. \A i, j \in S : RankIn(S, i) = RankIn(S, j) => i = j
  <2>1. SUFFICES ASSUME NEW i \in S, NEW j \in S, i # j PROVE RankIn(S, i) # RankIn(S, j)
    OBVIOUS
  <2>2. i < j \/ j < i
    BY <1>0, <2>1
  <2>3. RankIn(S, i) < RankIn(S, j) \/ RankIn(S, j) < RankIn(S, i)
    BY <1>3, <2>2
  <2>4. RankIn(S, i) \in 1 .. Cardinality(S) /\ RankIn(S, j) \in 1 .. Cardinality(S)
    BY <1>2
  <2>5. QED
    BY <1>1, <2>3, <2>4
<1>5. PICK f : f = [i \in S |-> RankIn(S, i)]
  OBVIOUS
<1>6. f \in Injection(S, 1 .. Cardinality(S))
  BY <1>2, <1>4, <1>5 DEF Injection, IsInjective
<1>7. f \in Surjection(S, 1 .. Cardinality(S))
  <2>1. IsFiniteSet(1 .. Cardinality(S)) /\ Cardinality(1 .. Cardinality(S)) = Cardinality(S)
    BY <1>1, FS_Interval
  <2>2. QED
    BY <1>6, <2>1, FS_Injection
<1>8. ASSUME NEW k \in 1 .. Cardinality(S)
      PROVE  Place(S, k) \in S /\ RankIn(S, Place(S, k)) = k
  <2>1. \E i \in S : RankIn(S, i) = k
    BY <1>5, <1>7 DEF Surjection
  <2>2. QED
    BY <2>1 DEF Place, RankIn
<1>9. ASSUME NEW i \in S PROVE Place(S, RankIn(S, i)) = i
  BY <1>2, <1>4, <1>8
<1>10. QED
  BY <1>1, <1>2, <1>8, <1>9

----------------------------------------------------------------------------
(* The migration of a list.                                                *)

(* One step of the fold over sets of indices, on the results g of smaller ones. *)
MentionStep(list, g) ==
  [ s \in SUBSET DOMAIN list |->
      IF s = {} THEN <<>> ELSE Mentioned(g[s \ {Max(s)}], list[Max(s)]) ]

(* The recursion of FoldLeft has a solution: by least counterexample, one  *)
(* index after the other.                                                  *)
LEMMA MentionExists ==
  ASSUME NEW list \in Seq(SensorId)
  PROVE  \E g : g = MentionStep(list, g)
<1> DEFINE Solved(n) == \E g : /\ g = [s \in SUBSET DOMAIN list |-> g[s]]
                               /\ \A s \in SUBSET DOMAIN list :
                                    s \subseteq 1 .. n => g[s] = MentionStep(list, g)[s]
<1>0. PICK D : D = DOMAIN list
  OBVIOUS
<1>1. Solved(0)
  <2>1. PICK g : g = [s \in SUBSET D |-> <<>>]
    OBVIOUS
  <2>2. \A s \in SUBSET D : s \subseteq 1 .. 0 => s = {}
    OBVIOUS
  <2>3. g = [s \in SUBSET D |-> g[s]]
    BY <2>1
  <2>4. QED
    BY <1>0, <2>1, <2>2, <2>3 DEF MentionStep
<1>2. ASSUME NEW n \in Nat, Solved(n) PROVE Solved(n + 1)
  <2>1. PICK g : /\ g = [s \in SUBSET D |-> g[s]]
                 /\ \A s \in SUBSET D : s \subseteq 1 .. n => g[s] = MentionStep(list, g)[s]
    BY <1>0, <1>2
  <2>2. PICK h : h = MentionStep(list, g)
    OBVIOUS
  <2>3. h = [s \in SUBSET D |-> h[s]]
    BY <1>0, <2>2 DEF MentionStep
  <2>4. ASSUME NEW s \in SUBSET D, s \subseteq 1 .. n + 1
        PROVE  h[s] = MentionStep(list, h)[s]
    <3>1. CASE s = {}
      BY <1>0, <2>2, <3>1 DEF MentionStep
    <3>2. CASE s # {}
      <4>1. PICK u : u = s \ {Max(s)}
        OBVIOUS
      <4>2. u \in SUBSET D /\ u \subseteq 1 .. n
        <5>1. Max(s) \in s /\ \A i \in s : i <= Max(s)
          BY <1>2, <2>4, <3>2, LargestIndex
        <5>2. QED
          BY <1>2, <2>4, <4>1, <5>1
      <4>3. h[u] = g[u]
        BY <2>1, <2>2, <4>2
      <4>4. h[s] = Mentioned(g[u], list[Max(s)]) /\ MentionStep(list, h)[s] = Mentioned(h[u], list[Max(s)])
        BY <1>0, <2>2, <3>2, <4>1 DEF MentionStep
      <4>5. QED
        BY <4>3, <4>4
    <3>3. QED
      BY <3>1, <3>2
  <2>5. QED
    BY <1>0, <2>3, <2>4
<1> HIDE DEF Solved
<1>3. ASSUME NEW n \in Nat PROVE Solved(n)
  <2>1. SUFFICES ASSUME ~Solved(n) PROVE FALSE
    OBVIOUS
  <2>2. PICK bad : bad = { k \in Nat : ~Solved(k) }
    OBVIOUS
  <2>3. bad \in SUBSET Nat /\ bad # {}
    BY <2>1, <2>2
  <2>4. PICK m \in bad : \A k \in bad : m <= k
    BY <2>3, LeastNatural
  <2>5. m # 0 /\ m \in Nat /\ ~Solved(m)
    BY <1>1, <2>2, <2>4
  <2>6. m - 1 \in Nat /\ m - 1 \notin bad /\ (m - 1) + 1 = m
    BY <2>3, <2>4, <2>5
  <2>7. QED
    BY <1>2, <2>2, <2>5, <2>6
<1>4. Len(list) \in Nat /\ D = 1 .. Len(list)
  BY <1>0, LenProperties
<1>5. PICK g : /\ g = [s \in SUBSET D |-> g[s]]
               /\ \A s \in SUBSET D : g[s] = MentionStep(list, g)[s]
  <2>1. Solved(Len(list))
    BY <1>3, <1>4
  <2>2. PICK g : /\ g = [s \in SUBSET DOMAIN list |-> g[s]]
                 /\ \A s \in SUBSET DOMAIN list :
                      s \subseteq 1 .. Len(list) => g[s] = MentionStep(list, g)[s]
    BY <2>1 DEF Solved
  <2>3. \A s \in SUBSET D : s \subseteq 1 .. Len(list)
    BY <1>4
  <2>4. QED
    BY <1>0, <2>2, <2>3
<1>6. g = MentionStep(list, g)
  <2>1. MentionStep(list, g) = [s \in SUBSET D |-> MentionStep(list, g)[s]]
    BY <1>0 DEF MentionStep
  <2>2. QED
    BY <1>5, <2>1
<1>7. QED
  BY <1>6

(* So the new list comes from one identifier after the other. *)
LEMMA MentionedStepwise ==
  ASSUME NEW list \in Seq(SensorId)
  PROVE  \E R : /\ R[0] = <<>>
                /\ R[Len(list)] = MigratedList(list)
                /\ \A k \in 1 .. Len(list) : R[k] = Mentioned(R[k - 1], list[k])
<1>1. PICK g : g = CHOOSE h : h = MentionStep(list, h)
  OBVIOUS
<1>2. g = MentionStep(list, g)
  BY <1>1, MentionExists
<1>3. MigratedList(list) = g[DOMAIN list]
  BY <1>1 DEF MigratedList, FoldLeft, MapThenFoldSet, MentionStep
<1>4. Len(list) \in Nat /\ DOMAIN list = 1 .. Len(list)
  BY LenProperties
<1>5. PICK R : R = [k \in 0 .. Len(list) |-> g[1 .. k]]
  OBVIOUS
<1>6. R[0] = <<>>
  <2>1. R[0] = g[1 .. 0] /\ 1 .. 0 = {}
    BY <1>4, <1>5
  <2>2. g[{}] = <<>>
    BY <1>2 DEF MentionStep
  <2>3. QED
    BY <2>1, <2>2
<1>7. ASSUME NEW k \in 1 .. Len(list) PROVE R[k] = Mentioned(R[k - 1], list[k])
  <2>1. R[k] = g[1 .. k] /\ R[k - 1] = g[1 .. k - 1]
    BY <1>4, <1>5
  <2>2. 1 .. k \in SUBSET DOMAIN list /\ 1 .. k # {}
    <3>1. k \in 1 .. k /\ \A i \in 1 .. k : i \in 1 .. Len(list)
      BY <1>4
    <3>2. QED
      BY <1>4, <3>1, Zenon
  <2>3. Max(1 .. k) = k
    <3>1. Max(1 .. k) \in 1 .. k /\ \A i \in 1 .. k : i <= Max(1 .. k)
      BY <1>4, <2>2, LargestIndex
    <3>2. QED
      BY <1>4, <3>1
  <2>4. (1 .. k) \ {k} = 1 .. k - 1
    BY <1>4
  <2>5. g[1 .. k] = Mentioned(g[(1 .. k) \ {Max(1 .. k)}], list[Max(1 .. k)])
    BY <1>2, <2>2 DEF MentionStep
  <2>6. QED
    BY <2>1, <2>3, <2>4, <2>5
<1>8. R[Len(list)] = MigratedList(list)
  BY <1>3, <1>4, <1>5
<1>9. QED
  BY <1>6, <1>7, <1>8, Zenon

----------------------------------------------------------------------------
(* What identifiers mean.                                                  *)

(* Migrating keeps the meaning, leaves nothing clear to migrate, and tells *)
(* apart what has different meanings, and nothing else.                    *)
LEMMA MigratedMeans ==
  ASSUME NEW id \in SensorId
  PROVE  /\ Migrated(id) \in SensorId
         /\ Meaning(Migrated(id)) = Meaning(id)
         /\ Migrated(Migrated(id)) = Migrated(id)
         /\ ~IsClear(Migrated(id))
<1>1. CASE IsClear(id)
  <2>1. id.kind \in {"wwid", "serial"} /\ id.text \in Text /\ id.form # "drive"
    BY <1>1 DEF SensorId, IsClear, IsLegacy
  <2>2. PICK text \in Text : text = Normal(id.kind, id.text)
    BY <2>1 DEF Normal, Text
  <2>3. Migrated(id) = [form |-> "drive", kind |-> id.kind, text |-> text]
    BY <1>1, <2>2 DEF Migrated, DriveId
  <2>4. Migrated(id) \in SensorId /\ ~IsClear(Migrated(id))
    BY <2>1, <2>3 DEF SensorId, IsClear, IsLegacy
  <2>5. Migrated(Migrated(id)) = Migrated(id)
    BY <2>4 DEF Migrated
  <2>6. Meaning(id) = <<id.kind, text>>
    BY <1>1, <2>1, <2>2 DEF Meaning
  <2>7. Meaning(Migrated(id)) = <<id.kind, text>>
    BY <2>3, <2>4 DEF Meaning
  <2>8. QED
    BY <2>4, <2>5, <2>6, <2>7
<1>2. CASE ~IsClear(id)
  BY <1>2 DEF Migrated
<1>3. QED
  BY <1>1, <1>2

LEMMA MeaningIsMigrated ==
  ASSUME NEW x \in SensorId, NEW y \in SensorId
  PROVE  Meaning(x) = Meaning(y) <=> Migrated(x) = Migrated(y)
<1>1. ASSUME Migrated(x) = Migrated(y) PROVE Meaning(x) = Meaning(y)
  BY <1>1, MigratedMeans
<1>2. ASSUME Meaning(x) = Meaning(y) PROVE Migrated(x) = Migrated(y)
  <2>1. PICK a \in SensorId : a = Migrated(x)
    BY MigratedMeans
  <2>2. PICK b \in SensorId : b = Migrated(y)
    BY MigratedMeans
  <2>3. Meaning(a) = Meaning(b) /\ ~IsClear(a) /\ ~IsClear(b)
    BY <1>2, <2>1, <2>2, MigratedMeans
  <2>4. ASSUME NEW c \in SensorId, c.form = "drive"
        PROVE  /\ Meaning(c) = <<c.kind, c.text>> /\ c.kind \in {"wwid", "serial"}
               /\ c = [form |-> "drive", kind |-> c.kind, text |-> c.text]
    BY <2>4 DEF SensorId, Meaning, IsClear, IsLegacy
  <2>5. ASSUME NEW c \in SensorId, c.form # "drive", ~IsClear(c) PROVE Meaning(c) = <<"other", c>>
    BY <2>5 DEF Meaning
  <2>6. CASE a.form = "drive" /\ b.form = "drive"
    <3>1. a.kind = b.kind /\ a.text = b.text
      BY <2>3, <2>4, <2>6
    <3>2. QED
      BY <2>1, <2>2, <2>4, <2>6, <3>1
  <2>7. CASE a.form = "drive" /\ b.form # "drive"
    <3>1. <<a.kind, a.text>> = <<"other", b>>
      BY <2>3, <2>4, <2>5, <2>7
    <3>2. QED
      BY <2>4, <2>7, <3>1
  <2>8. CASE a.form # "drive" /\ b.form = "drive"
    <3>1. <<b.kind, b.text>> = <<"other", a>>
      BY <2>3, <2>4, <2>5, <2>8
    <3>2. QED
      BY <2>4, <2>8, <3>1
  <2>9. CASE a.form # "drive" /\ b.form # "drive"
    BY <2>1, <2>2, <2>3, <2>5, <2>9
  <2>10. QED
    BY <2>6, <2>7, <2>8, <2>9
<1>3. QED
  BY <1>1, <1>2

(* The first mentions among the first k places. *)
Upto(first, k) == { j \in first : j <= k }

(* What the first k identifiers of a list have become. *)
ListHolds(new, list, k) ==
  LET first == FirstMentions(list)
  IN  /\ new \in Seq(SensorId)
      /\ Len(new) = Cardinality(Upto(first, k))
      /\ \A i \in Upto(first, k) : /\ RankIn(first, i) \in DOMAIN new
                                   /\ new[RankIn(first, i)] = Migrated(list[i])
      /\ Range(new) = { Migrated(list[i]) : i \in 1 .. k }

(* One more identifier is put into the new list, or was mentioned before. *)
LEMMA MentionedHolds ==
  ASSUME NEW list \in Seq(SensorId), NEW k \in 1 .. Len(list), NEW new,
         ListHolds(new, list, k - 1)
  PROVE  ListHolds(Mentioned(new, list[k]), list, k)
<1>1. PICK first : first = FirstMentions(list)
  OBVIOUS
<1>2. PICK id \in SensorId : id = list[k]
  BY ListFacts
<1>3. PICK m \in SensorId : m = Migrated(id)
  BY MigratedMeans
<1>4. Len(list) \in Nat /\ DOMAIN list = 1 .. Len(list) /\ \A i \in 1 .. Len(list) : list[i] \in SensorId
  BY ListFacts
<1>5. /\ new \in Seq(SensorId)
      /\ Len(new) = Cardinality(Upto(first, k - 1))
      /\ \A i \in Upto(first, k - 1) : /\ RankIn(first, i) \in DOMAIN new
                                       /\ new[RankIn(first, i)] = Migrated(list[i])
      /\ Range(new) = { Migrated(list[i]) : i \in 1 .. k - 1 }
  BY <1>1 DEF ListHolds
<1>6. first \in SUBSET (1 .. Len(list))
  BY <1>1, <1>4 DEF FirstMentions
<1>7. 1 .. k = (1 .. k - 1) \cup {k}
  BY <1>4
<1>u. k \notin Upto(first, k - 1) /\ \A j \in first : j <= k <=> j <= k - 1 \/ j = k
  <2>1. k \in Nat /\ \A j \in first : j \in Nat
    BY <1>4, <1>6
  <2>2. QED
    BY <2>1 DEF Upto
<1>8. m \in Range(new) <=> k \notin first
  <2>1. m \in Range(new) <=> \E j \in 1 .. k - 1 : Migrated(list[j]) = m
    BY <1>5
  <2>2. \A j \in 1 .. k - 1 : Migrated(list[j]) = m <=> Meaning(list[j]) = Meaning(list[k])
    BY <1>2, <1>3, <1>4, MeaningIsMigrated
  <2>3. k \in first <=> \A j \in 1 .. k - 1 : Meaning(list[j]) # Meaning(list[k])
    BY <1>1, <1>4 DEF FirstMentions
  <2>4. QED
    BY <2>1, <2>2, <2>3
<1>9. CASE k \notin first
  <2>1. Mentioned(new, list[k]) = new
    BY <1>2, <1>3, <1>8, <1>9 DEF Mentioned
  <2>2. Upto(first, k) = Upto(first, k - 1)
    BY <1>9, <1>u DEF Upto
  <2>3. { Migrated(list[i]) : i \in 1 .. k } = { Migrated(list[i]) : i \in 1 .. k - 1 }
    <3>1. m \in { Migrated(list[i]) : i \in 1 .. k - 1 } /\ m = Migrated(list[k])
      BY <1>2, <1>3, <1>5, <1>8, <1>9
    <3>2. QED
      BY <1>7, <3>1
  <2>4. QED
    BY <1>1, <1>5, <2>1, <2>2, <2>3 DEF ListHolds
<1>10. CASE k \in first
  <2>1. PICK longer : longer = Append(new, m)
    OBVIOUS
  <2>2. Mentioned(new, list[k]) = longer
    BY <1>2, <1>3, <1>8, <1>10, <2>1 DEF Mentioned
  <2>3. /\ longer \in Seq(SensorId) /\ DOMAIN longer = DOMAIN new \cup {Len(new) + 1}
        /\ Len(new) + 1 \notin DOMAIN new /\ longer[Len(new) + 1] = m
        /\ \A i \in DOMAIN new : longer[i] = new[i]
    BY <1>5, <2>1, Appended
  <2>4. Len(longer) = Len(new) + 1 /\ Len(new) \in Nat
    BY <1>5, <2>1, AppendProperties, ListFacts
  <2>5. Upto(first, k) = Upto(first, k - 1) \cup {k} /\ k \notin Upto(first, k - 1)
    BY <1>10, <1>u DEF Upto
  <2>6. Cardinality(Upto(first, k)) = Cardinality(Upto(first, k - 1)) + 1
    <3>1. IsFiniteSet(1 .. Len(list))
      BY <1>4, FS_Interval
    <3>2. Upto(first, k - 1) \in SUBSET (1 .. Len(list))
      BY <1>6 DEF Upto
    <3>3. IsFiniteSet(Upto(first, k - 1))
      BY <3>1, <3>2, FS_Subset
    <3>4. QED
      BY <2>5, <3>3, FS_AddElement
  <2>7. RankIn(first, k) = Len(new) + 1
    BY <1>5, <2>6 DEF RankIn, Upto
  <2>8. \A i \in Upto(first, k) : /\ RankIn(first, i) \in DOMAIN longer
                                  /\ longer[RankIn(first, i)] = Migrated(list[i])
    BY <1>2, <1>3, <1>5, <2>3, <2>5, <2>7
  <2>9. Range(longer) = { Migrated(list[i]) : i \in 1 .. k }
    <3>1. Range(longer) = Range(new) \cup {m}
      BY <2>3 DEF Range
    <3>2. QED
      BY <1>2, <1>3, <1>5, <1>7, <3>1
  <2>10. QED
    BY <1>1, <1>5, <2>2, <2>3, <2>4, <2>6, <2>8, <2>9 DEF ListHolds
<1>11. QED
  BY <1>9, <1>10

LEMMA MigratedListHolds ==
  ASSUME NEW list \in Seq(SensorId)
  PROVE  ListHolds(MigratedList(list), list, Len(list))
<1>1. PICK R : /\ R[0] = <<>>
               /\ R[Len(list)] = MigratedList(list)
               /\ \A k \in 1 .. Len(list) : R[k] = Mentioned(R[k - 1], list[k])
  BY MentionedStepwise
<1>2. Len(list) \in Nat
  BY ListFacts
<1>3. ListHolds(R[0], list, 0)
  <2>1. <<>> \in Seq(SensorId) /\ Len(<<>>) = 0 /\ Range(<<>>) = {}
    BY EmptySeq DEF Range
  <2>2. Upto(FirstMentions(list), 0) = {}
    BY <1>2, ListFacts DEF Upto, FirstMentions
  <2>3. Cardinality({}) = 0
    BY FS_EmptySet
  <2>4. { Migrated(list[i]) : i \in 1 .. 0 } = {}
    OBVIOUS
  <2>5. QED
    BY <1>1, <2>1, <2>2, <2>3, <2>4 DEF ListHolds
<1>4. PICK bad : bad = { k \in 0 .. Len(list) : ~ListHolds(R[k], list, k) }
  OBVIOUS
<1>5. bad = {}
  <2>1. SUFFICES ASSUME bad # {} PROVE FALSE
    OBVIOUS
  <2>2. bad \in SUBSET Nat
    BY <1>2, <1>4
  <2>3. PICK k \in bad : \A n \in bad : k <= n
    BY <2>1, <2>2, LeastNatural
  <2>4. k \in 1 .. Len(list) /\ ~ListHolds(R[k], list, k)
    BY <1>2, <1>3, <1>4, <2>3
  <2>5. k - 1 \in 0 .. Len(list) /\ k - 1 \notin bad
    BY <1>2, <2>2, <2>3, <2>4
  <2>6. ListHolds(R[k - 1], list, k - 1)
    BY <1>4, <2>5
  <2>7. ListHolds(Mentioned(R[k - 1], list[k]), list, k)
    BY <2>4, <2>6, MentionedHolds
  <2>8. QED
    BY <1>1, <2>4, <2>7
<1>6. Len(list) \in 0 .. Len(list)
  BY <1>2
<1>7. QED
  BY <1>1, <1>4, <1>5, <1>6

(* A migrated list mentions the same things in the same order, and every   *)
(* one of its identifiers is canonical.                                    *)
LEMMA ListIsKept ==
  ASSUME NEW list \in Seq(SensorId)
  PROVE  /\ SameMentions(list, MigratedList(list))
         /\ \A id \in Range(MigratedList(list)) : ~IsClear(id)
<1>1. PICK first : first = FirstMentions(list)
  OBVIOUS
<1>2. PICK new : new = MigratedList(list)
  OBVIOUS
<1>3. Len(list) \in Nat /\ DOMAIN list = 1 .. Len(list) /\ \A i \in 1 .. Len(list) : list[i] \in SensorId
  BY ListFacts
<1>4. first \in SUBSET (1 .. Len(list))
  BY <1>1, <1>3 DEF FirstMentions
<1>5. Upto(first, Len(list)) = first
  <2>1. \A j \in first : j <= Len(list)
    BY <1>3, <1>4
  <2>2. QED
    BY <2>1 DEF Upto
<1>6. /\ new \in Seq(SensorId) /\ Len(new) = Cardinality(first)
      /\ \A i \in first : new[RankIn(first, i)] = Migrated(list[i])
      /\ Range(new) = { Migrated(list[i]) : i \in 1 .. Len(list) }
  BY <1>1, <1>2, <1>5, MigratedListHolds DEF ListHolds
<1>7. /\ Cardinality(first) \in Nat
      /\ \A n \in 1 .. Cardinality(first) : Place(first, n) \in first /\ RankIn(first, Place(first, n)) = n
  BY <1>3, <1>4, PlaceOfRank
<1>8. DOMAIN new = 1 .. Cardinality(first)
  BY <1>6, ListFacts
<1>9. PICK old : old = [n \in 1 .. Cardinality(first) |-> list[Place(first, n)]]
  OBVIOUS
<1>10. \A n \in 1 .. Cardinality(first) : Meaning(new[n]) = Meaning(old[n])
  <2> TAKE n \in 1 .. Cardinality(first)
  <2>1. PICK i \in first : i = Place(first, n) /\ RankIn(first, i) = n
    BY <1>7
  <2>2. new[n] = Migrated(list[i]) /\ old[n] = list[i] /\ list[i] \in SensorId
    BY <1>3, <1>4, <1>6, <1>9, <2>1
  <2>3. QED
    BY <2>2, MigratedMeans
<1>11. Meanings(new) = Meanings(old)
  BY <1>8, <1>9, <1>10 DEF Meanings
<1>12. SameMentions(list, new)
  BY <1>1, <1>9, <1>11 DEF SameMentions
<1>13. \A id \in Range(new) : ~IsClear(id)
  BY <1>3, <1>6, MigratedMeans
<1>14. QED
  BY <1>2, <1>12, <1>13

(* The entry that survives is one of those with the new identifier, and     *)
(* the canonical one if it is among them.                                  *)
LEMMA WinnerIs ==
  ASSUME NEW aliases, DOMAIN aliases \subseteq SensorId,
         NEW new \in { Migrated(id) : id \in DOMAIN aliases }
  PROVE  /\ Winner(aliases, new) \in DOMAIN aliases
         /\ Migrated(Winner(aliases, new)) = new
         /\ new \in DOMAIN aliases => Winner(aliases, new) = new
<1>1. PICK old : old = { id \in DOMAIN aliases : Migrated(id) = new }
  OBVIOUS
<1>2. old # {}
  BY <1>1
<1>3. CASE new \in old
  BY <1>1, <1>3 DEF Winner
<1>4. CASE new \notin old
  <2>1. new \notin DOMAIN aliases
    <3>1. PICK id \in SensorId : new = Migrated(id)
      OBVIOUS
    <3>2. Migrated(new) = new
      BY <3>1, MigratedMeans
    <3>3. QED
      BY <1>1, <1>4, <3>2
  <2>2. ASSUME NEW id \in old PROVE Rank(id) \in Nat
    <3>1. IsClear(id)
      BY <1>1, <1>4 DEF Migrated
    <3>2. QED
      BY <3>1 DEF Rank
  <2>3. PICK ranks : ranks = { Rank(id) : id \in old }
    OBVIOUS
  <2>4. ranks \in SUBSET Nat /\ ranks # {}
    BY <1>2, <2>2, <2>3
  <2>5. PICK r \in ranks : \A other \in ranks : r <= other
    BY <2>4, LeastNatural
  <2>6. PICK id \in old : Rank(id) = r
    BY <2>3, <2>5
  <2>7. \E i \in old : \A other \in old : Rank(i) <= Rank(other)
    BY <2>3, <2>5, <2>6
  <2>8. Winner(aliases, new) \in old
    BY <1>1, <1>4, <2>7 DEF Winner
  <2>9. QED
    BY <1>1, <2>1, <2>8
<1>5. QED
  BY <1>3, <1>4

(* Migrating a document keeps what it refers to. *)
LEMMA DocumentIsKept ==
  ASSUME NEW doc, IsDocument(doc)
  PROVE  LET new == MigratedDoc(BackendFixed(doc))
         IN  /\ SameReferences(doc, new)
             /\ \A id \in Range(new.sources) \cup Range(new.items) \cup {new.fan.sensor} : ~IsClear(id)
<1>1. PICK fixed : fixed = BackendFixed(doc)
  OBVIOUS
<1>2. /\ fixed.aliases = doc.aliases /\ fixed.sources = doc.sources /\ fixed.items = doc.items
      /\ fixed.fan.sensor = doc.fan.sensor
      /\ fixed.fan \in [id : {"hwmon-pwm", "liquidctl"}, backend : {"hwmon-pwm", "liquidctl"}, sensor : SensorId]
  BY <1>1 DEF BackendFixed, IsDocument
<1>3. PICK new : new = MigratedDoc(fixed)
  OBVIOUS
<1>4. /\ new.sources = MigratedList(doc.sources) /\ new.items = MigratedList(doc.items)
      /\ new.fan.sensor = Migrated(doc.fan.sensor)
      /\ new.aliases = MigratedMapping(doc.aliases)
  BY <1>2, <1>3 DEF MigratedDoc
<1>5. /\ doc.sources \in Seq(SensorId) /\ doc.items \in Seq(SensorId) /\ doc.fan.sensor \in SensorId
      /\ DOMAIN doc.aliases \subseteq SensorId
  BY DEF IsDocument
<1>6. /\ SameMentions(doc.sources, new.sources) /\ SameMentions(doc.items, new.items)
      /\ \A id \in Range(new.sources) \cup Range(new.items) : ~IsClear(id)
  BY <1>4, <1>5, ListIsKept
<1>7. Meaning(doc.fan.sensor) = Meaning(new.fan.sensor) /\ ~IsClear(new.fan.sensor)
  BY <1>4, <1>5, MigratedMeans
<1>8. PICK aliases : aliases = doc.aliases
  OBVIOUS
<1>9. /\ DOMAIN new.aliases = { Migrated(id) : id \in DOMAIN aliases }
      /\ \A id \in DOMAIN new.aliases : new.aliases[id] = aliases[Winner(aliases, id)]
  BY <1>4, <1>8 DEF MigratedMapping
<1>10. { Meaning(id) : id \in DOMAIN aliases } = { Meaning(id) : id \in DOMAIN new.aliases }
  <2>1. \A id \in DOMAIN aliases : Meaning(Migrated(id)) = Meaning(id)
    BY <1>5, <1>8, MigratedMeans
  <2>2. QED
    BY <1>9, <2>1
<1>11. ASSUME NEW id \in DOMAIN new.aliases
       PROVE  /\ \E was \in DOMAIN aliases : Meaning(was) = Meaning(id) /\ aliases[was] = new.aliases[id]
              /\ id \in DOMAIN aliases => new.aliases[id] = aliases[id]
              /\ \A twin \in DOMAIN new.aliases : Meaning(id) = Meaning(twin) => id = twin
  <2>1. PICK was \in DOMAIN aliases : was = Winner(aliases, id) /\ Migrated(was) = id
    BY <1>5, <1>8, <1>9, WinnerIs
  <2>2. Meaning(was) = Meaning(id) /\ aliases[was] = new.aliases[id]
    BY <1>5, <1>8, <1>9, <2>1, MigratedMeans
  <2>3. id \in DOMAIN aliases => new.aliases[id] = aliases[id]
    BY <1>5, <1>8, <1>9, WinnerIs
  <2>4. ASSUME NEW twin \in DOMAIN new.aliases, Meaning(id) = Meaning(twin) PROVE id = twin
    <3>1. PICK x \in SensorId, y \in SensorId : id = Migrated(x) /\ twin = Migrated(y)
      BY <1>5, <1>8, <1>9
    <3>2. Meaning(x) = Meaning(y)
      BY <2>4, <3>1, MigratedMeans
    <3>3. QED
      BY <3>1, <3>2, MeaningIsMigrated
  <2>5. QED
    BY <2>2, <2>3, <2>4
<1>12. SameReferences(doc, new)
  BY <1>6, <1>7, <1>8, <1>10, <1>11 DEF SameReferences
<1>13. QED
  BY <1>1, <1>3, <1>6, <1>7, <1>12

(* A start gives each reference of the file the identifier of the drive it  *)
(* means (load_config, migrate_sensor_ids).                                *)
THEOREM ReferencesTheorem == Spec => StartKeepsReferences
<1> DEFINE Kept ==
      (Start /\ file \in Docs) =>
        LET loaded == IF saving' # None THEN saving' ELSE memory' IN
          /\ SameReferences(file, loaded)
          /\ \A id \in Range(loaded.sources) \cup Range(loaded.items) \cup {loaded.fan.sensor} :
               ~IsClear(id)
<1>1. Next => Kept
  <2> SUFFICES ASSUME Start, file \in Docs PROVE Kept
    OBVIOUS
  <2>1. FixBackends[file] \in Docs
    BY FixBackendsAssumption
  <2>2. Loaded(file) = MigratedDoc(BackendFixed(file)) /\ IsDocument(file)
    BY <2>1, MigrationAssumption DEF Loaded
  <2>3. Loaded(file) \in Docs /\ Loaded(file) # None
    BY <2>1, MigrateIdsAssumption, MarkersAreNoDocs DEF Loaded
  <2>4. (IF saving' # None THEN saving' ELSE memory') = Loaded(file)
    BY <2>3, MarkersAreNoDocs DEF Start, Save
  <2> HIDE DEF Loaded
  <2>5. QED
    BY <2>2, <2>4, DocumentIsKept
<1>2. UNCHANGED vars => [Kept]_vars
  OBVIOUS
<1>3. [Next]_vars => [Kept]_vars
  BY <1>1
<1>4. QED
  BY <1>3, PTL DEF Spec, StartKeepsReferences
=============================================================================
