----------------------------- MODULE ContentProofs -----------------------------
(***************************************************************************)
(* Proofs about the operations that rewrite stored content: the two        *)
(* replacements of a domain, DomainReplacement for any collections,        *)
(* documents, edits and runs, and SqlReplacement for any primary keys and  *)
(* any page size; and FileStore, for any requests, files, contents and     *)
(* objects.                                                                *)
(***************************************************************************)
EXTENDS SqlReplacement, DomainReplacement, FileStore, FiniteSetTheorems, WellFoundedInduction, TLAPS

\* The least-number principle.
LEMMA LeastNatural ==
    ASSUME NEW S \in SUBSET Nat, S # {}
    PROVE  \E least \in S : \A n \in S : least <= n
<1> DEFINE less == {ss \in Nat \X Nat : ss[1] < ss[2]}
<1>1. IsWellFoundedOn(less, Nat)
  BY NatLessThanWellFounded DEF OpToRel
<1>2. PICK least \in S : \A n \in S : <<n, least>> \notin less
  BY <1>1, WFMin
<1>3. \A n \in S : ~ (n < least)
  BY <1>2
<1> QED BY <1>3

\* Pages follow the rank of a row among the rows that are there.
Finite == IsFiniteSet(Present)
Upto(n) == {k \in Present : Rank(k) <= n}
Below(k) == {j \in Present : j <= k}

LEMMA RankIsNat ==
    ASSUME Finite, NEW k \in Pk
    PROVE  IsFiniteSet(Below(k)) /\ Rank(k) = Cardinality(Below(k)) /\ Rank(k) \in Nat
<1>1. IsFiniteSet(Below(k))
  BY FS_Subset DEF Finite, Below
<1> QED BY <1>1, FS_CardinalityType DEF Rank, Below

LEMMA UptoFinite ==
    ASSUME Finite, NEW n \in Nat
    PROVE  IsFiniteSet(Upto(n)) /\ Cardinality(Upto(n)) \in Nat
<1>1. IsFiniteSet(Upto(n))
  BY FS_Subset DEF Finite, Upto
<1> QED BY <1>1, FS_CardinalityType

\* Ranks are in the order of the keys.
LEMMA RankOrder ==
    ASSUME Finite, NEW j \in Present, NEW k \in Present, j <= k
    PROVE  Rank(j) <= Rank(k)
<1>1. j \in Pk /\ k \in Pk /\ j \in Nat /\ k \in Nat /\ Present \subseteq Nat
  BY PkAssumption DEF Present
<1>2. Below(j) \in SUBSET Below(k)
  <2> SUFFICES ASSUME NEW i \in Present, i <= j PROVE i <= k
    BY DEF Below
  <2>1. i \in Nat
    BY <1>1
  <2> QED BY <2>1, <1>1
<1> QED BY <1>1, <1>2, RankIsNat, FS_Subset

\* At most n rows have a rank up to n: the last of them has them all below it.
LEMMA FewUpto ==
    ASSUME Finite, NEW n \in Nat
    PROVE  Cardinality(Upto(n)) <= n
<1>1. CASE Upto(n) = {}
  BY <1>1, FS_EmptySet
<1>2. CASE Upto(n) # {}
  <2>1. PICK top \in Upto(n) : TRUE
    BY <1>2
  <2>2. Upto(n) \subseteq Nat /\ Upto(n) \subseteq Present
    BY PkAssumption DEF Upto, Present
  \* The greatest of them: the one that the fewest of them are above.
  <2> DEFINE Above(k) == {j \in Upto(n) : k <= j}
             Sizes == {Cardinality(Above(k)) : k \in Upto(n)}
  <2>3. \A k \in Upto(n) : IsFiniteSet(Above(k)) /\ Cardinality(Above(k)) \in Nat
    <3> TAKE k \in Upto(n)
    <3>1. IsFiniteSet(Above(k))
      BY UptoFinite, FS_Subset
    <3> QED BY <3>1, FS_CardinalityType
  <2>4. Sizes \in SUBSET Nat /\ Sizes # {}
    BY <2>1, <2>3
  <2>5. PICK least \in Sizes : \A size \in Sizes : least <= size
    BY <2>4, LeastNatural
  <2>6. PICK greatest \in Upto(n) : least = Cardinality(Above(greatest))
    BY <2>5
  <2>7. \A j \in Upto(n) : j <= greatest
    <3> SUFFICES ASSUME NEW j \in Upto(n), ~ (j <= greatest) PROVE FALSE
      OBVIOUS
    <3>1. Above(j) \in SUBSET Above(greatest) /\ greatest \in Above(greatest) /\ greatest \notin Above(j)
      BY <2>2
    <3>2. Cardinality(Above(j)) <= Cardinality(Above(greatest)) /\ Cardinality(Above(j)) # Cardinality(Above(greatest))
      BY <3>1, <2>3, FS_Subset
    <3>3. Cardinality(Above(greatest)) <= Cardinality(Above(j))
      BY <2>5, <2>6
    <3>4. Cardinality(Above(j)) \in Nat /\ Cardinality(Above(greatest)) \in Nat
      BY <2>3
    <3> HIDE DEF Above
    <3> QED BY <3>2, <3>3, <3>4
  <2>8. Upto(n) \in SUBSET Below(greatest) /\ greatest \in Pk
    BY <2>2, <2>7 DEF Below, Present
  <2>9. Cardinality(Upto(n)) <= Rank(greatest)
    BY <2>8, RankIsNat, FS_Subset
  <2>10. Rank(greatest) <= n /\ Rank(greatest) \in Nat
    BY <2>8, RankIsNat DEF Upto
  <2> QED BY <2>9, <2>10, UptoFinite
<1> QED BY <1>1, <1>2

\* And if there is a row past n, at least n: those before the first row past n.
LEMMA ManyUpto ==
    ASSUME Finite, NEW n \in Nat, NEW k \in Present, Rank(k) > n
    PROVE  Cardinality(Upto(n)) >= n
<1> DEFINE Past == {j \in Present : Rank(j) > n}
<1>1. Past \in SUBSET Nat /\ Past # {}
  BY PkAssumption DEF Present
<1>2. PICK first \in Past : \A j \in Past : first <= j
  BY <1>1, LeastNatural
<1>3. Below(first) \ {first} \in SUBSET Upto(n)
  <2> SUFFICES ASSUME NEW j \in Present, j <= first, j # first PROVE Rank(j) <= n
    BY DEF Below, Upto
  <2>1. j \notin Past
    BY <1>1, <1>2, PkAssumption DEF Present
  <2>2. Rank(j) \in Nat
    BY RankIsNat DEF Present
  <2> QED BY <2>1, <2>2
<1>4. first \in Below(first) /\ IsFiniteSet(Below(first)) /\ Cardinality(Below(first)) \in Nat
      /\ Cardinality(Below(first)) > n
  <2>1. first \in Present /\ first \in Pk /\ first \in Nat /\ Rank(first) > n
    BY <1>1 DEF Present
  <2> QED BY <2>1, RankIsNat DEF Below
<1>5. Cardinality(Below(first) \ {first}) = Cardinality(Below(first)) - 1
  BY <1>4, FS_RemoveElement
<1>6. Cardinality(Below(first) \ {first}) <= Cardinality(Upto(n))
  BY <1>3, UptoFinite, FS_Subset
<1> QED BY <1>4, <1>5, <1>6, UptoFinite

\* A page never has more rows than were asked for, and it is full if a row lies behind it.
LEMMA PageSizes ==
    ASSUME Finite, offset \in Nat
    PROVE  /\ IsFiniteSet(Selected) /\ Cardinality(Selected) <= PageSize
           /\ \A k \in Present : Rank(k) > offset + PageSize => Full(Selected)
<1> DEFINE a == Upto(offset)
           b == Upto(offset + PageSize)
<1>1. PageSize \in Nat /\ offset + PageSize \in Nat
  BY PageSizeAssumption
<1>2. \A k \in Present : Rank(k) \in Nat
  BY RankIsNat DEF Present
<1>3. IsFiniteSet(Selected)
  BY FS_Subset DEF Finite, Selected
<1>4. a \cup Selected = b /\ a \cap Selected = {}
  BY <1>1, <1>2 DEF Upto, Selected
<1>5. IsFiniteSet(a) /\ Cardinality(a) \in Nat /\ Cardinality(b) \in Nat
  BY <1>1, UptoFinite
<1>6. Cardinality(Selected) \in Nat
  BY <1>3, FS_CardinalityType
<1>7. Cardinality(b) = Cardinality(a) + Cardinality(Selected)
  <2>1. Cardinality(a \cup Selected) = Cardinality(a) + Cardinality(Selected) - Cardinality(a \cap Selected)
    BY <1>3, <1>5, FS_Union
  <2>2. Cardinality({}) = 0
    BY FS_EmptySet
  <2>3. Cardinality(b) = Cardinality(a) + Cardinality(Selected) - Cardinality({})
    BY <2>1, <1>4
  <2> HIDE DEF a, b
  <2> QED BY <2>2, <2>3, <1>5, <1>6
<1>8. Cardinality(a) <= offset /\ Cardinality(b) <= offset + PageSize
  BY <1>1, FewUpto
<1>9. Cardinality(Selected) <= PageSize
  <2>1. CASE Selected = {}
    BY <2>1, <1>1, FS_EmptySet
  <2>2. CASE Selected # {}
    <3>1. PICK k \in Present : Rank(k) > offset
      BY <2>2 DEF Selected
    <3>2. Cardinality(a) >= offset
      BY <3>1, ManyUpto
    <3> HIDE DEF a, b
    <3> QED BY <3>2, <1>1, <1>5, <1>6, <1>7, <1>8
  <2> QED BY <2>1, <2>2
<1>10. ASSUME NEW k \in Present, Rank(k) > offset + PageSize PROVE Full(Selected)
  <2>1. Cardinality(b) >= offset + PageSize
    BY <1>10, <1>1, ManyUpto
  <2> HIDE DEF a, b
  <2> QED BY <2>1, <1>1, <1>5, <1>6, <1>7, <1>8, <1>9 DEF Full
<1> QED BY <1>3, <1>9, <1>10

-----------------------------------------------------------------------------
\* A row that was there at the start, was left alone and is still old, is yet to be
\* selected, or is on the page.
Ahead(k) ==
    \/ sqlPc = "select" /\ Rank(k) > offset
    \/ sqlPc = "update" /\ [key |-> k, old |-> TRUE] \in page
    \/ sqlPc = "update" /\ hasMore /\ Rank(k) > offset + PageSize
AheadInv == Replacing /\ ~ shrunk => \A k \in untouched : Seen(k) = "old" => Ahead(k)

SqlInv == SqlTypeOK /\ Finite /\ IsFiniteSet(page) /\ AheadInv /\ NoRowSkipped

\* The rows that are there, and so the ranks, only change with rows.
LEMMA SameRows ==
    ASSUME rows' = rows
    PROVE  /\ Present' = Present /\ (Finite => Finite')
           /\ \A k \in Pk : Rank(k)' = Rank(k)
BY DEF Present, Finite, Rank

LEMMA SqlInitial == SqlInit => SqlInv
<1> SUFFICES ASSUME SqlInit PROVE SqlInv
  OBVIOUS
<1>1. Present = {} /\ IsFiniteSet({}) /\ Cardinality({}) = 0 /\ PageSize \in Nat
  BY FS_EmptySet, PageSizeAssumption DEF SqlInit, Present
<1>2. SqlTypeOK
  <2>1. page = {} /\ Cardinality(page) <= PageSize
    BY <1>1 DEF SqlInit
  <2>2. rows \in [Pk -> State] /\ mine = {} /\ untouched = {} /\ hasMore = FALSE /\ shrunk = FALSE
    BY DEF SqlInit, State
  <2> QED BY <2>1, <2>2 DEF SqlInit, SqlTypeOK
<1> QED BY <1>1, <1>2 DEF SqlInit, SqlInv, Finite, AheadInv, Replacing, NoRowSkipped

LEMMA ReplaceInTableStep == ASSUME SqlInv, ReplaceInTable PROVE SqlInv'
<1>1. SqlTypeOK /\ Finite /\ rows' = rows /\ Present' = Present /\ Finite'
  BY SameRows DEF SqlInv, ReplaceInTable
<1>2. IsFiniteSet({}) /\ Cardinality({}) = 0 /\ PageSize \in Nat
  BY FS_EmptySet, PageSizeAssumption
<1>3. SqlTypeOK'
  <2>1. page' = {} /\ Cardinality(page') <= PageSize
    BY <1>2 DEF ReplaceInTable
  <2>2. untouched' \in SUBSET Present'
    BY <1>1 DEF ReplaceInTable
  <2> QED BY <1>1, <2>1, <2>2 DEF SqlTypeOK, ReplaceInTable
<1>4. ASSUME NEW k \in Present PROVE Rank(k)' > 0
  <2>1. k \in Pk /\ k \in Below(k) /\ Rank(k)' = Rank(k)
    BY <1>1, <1>4, PkAssumption, SameRows DEF Present, Below
  <2>2. Rank(k) \in Nat /\ Rank(k) # 0
    BY <2>1, <1>1, RankIsNat, FS_EmptySet
  <2> QED BY <2>1, <2>2
<1>5. AheadInv'
  BY <1>1, <1>4 DEF AheadInv, Ahead, ReplaceInTable
<1> QED BY <1>1, <1>2, <1>3, <1>5 DEF SqlInv, NoRowSkipped, ReplaceInTable

LEMMA SelectPageStep == ASSUME SqlInv, SelectPage PROVE SqlInv'
<1> DEFINE Shown(k) == [key |-> k, old |-> Seen(k) = "old"]
           show == [k \in Selected |-> Shown(k)]
<1>1. SqlTypeOK /\ Finite /\ rows' = rows /\ Present' = Present /\ Finite' /\ Selected \subseteq Pk
  BY SameRows DEF SqlInv, SelectPage, Selected, Present
<1>2. IsFiniteSet(Selected) /\ Cardinality(Selected) <= PageSize /\ Cardinality(Selected) \in Nat
  BY <1>1, PageSizes, FS_CardinalityType DEF SqlTypeOK
<1>3. page' = {Shown(k) : k \in Selected}
  BY DEF SelectPage
<1>4. show \in Surjection(Selected, page')
  BY <1>3 DEF Surjection
<1>5. IsFiniteSet(page') /\ Cardinality(page') <= PageSize
  <2>1. IsFiniteSet(page') /\ Cardinality(page') <= Cardinality(Selected)
    BY <1>2, <1>4, FS_Surjection
  <2> QED BY <2>1, <1>2, PageSizeAssumption, FS_CardinalityType
<1>6. SqlTypeOK'
  <2>1. \A k \in Selected : Shown(k) \in [key : Pk, old : BOOLEAN]
    BY <1>1
  <2>2. page' \in SUBSET [key : Pk, old : BOOLEAN]
    BY <2>1, <1>3
  <2> QED BY <2>2, <1>1, <1>5 DEF SqlTypeOK, SelectPage, Full
<1>7. ASSUME ~ shrunk, NEW k \in untouched, Seen(k) = "old" PROVE Ahead(k)'
  <2>1. k \in Present /\ k \in Pk /\ Rank(k) > offset /\ Rank(k)' = Rank(k)
    BY <1>1, <1>7, SameRows DEF SqlInv, AheadInv, Ahead, SelectPage, Replacing, SqlTypeOK, Present
  <2>2. CASE Rank(k) > offset + PageSize
    <3>1. Full(Selected)
      BY <2>1, <2>2, <1>1, PageSizes DEF SqlTypeOK
    <3> QED BY <2>1, <2>2, <3>1 DEF Ahead, SelectPage
  <2>3. CASE ~ (Rank(k) > offset + PageSize)
    <3>1. k \in Selected
      BY <2>1, <2>3, <1>1, RankIsNat, PageSizeAssumption DEF Selected, SqlTypeOK
    <3>2. [key |-> k, old |-> TRUE] \in page'
      BY <3>1, <1>3, <1>7
    <3> QED BY <3>2 DEF Ahead, SelectPage
  <2> QED BY <2>2, <2>3
<1>8. AheadInv'
  BY <1>1, <1>7 DEF AheadInv, Seen, SelectPage
<1> QED BY <1>1, <1>5, <1>6, <1>8 DEF SqlInv, NoRowSkipped, SelectPage

LEMMA DoRowStep == ASSUME SqlInv, DoRow PROVE SqlInv'
<1>1. SqlTypeOK /\ Finite /\ rows' = rows /\ Present' = Present /\ Finite'
  BY SameRows DEF SqlInv, DoRow
<1>2. PICK r \in page :
        /\ page' = page \ {r}
        /\ mine' = IF r.old /\ r.key \in Present THEN mine \cup {r.key} ELSE mine
  BY DEF DoRow
<1>3. IsFiniteSet(page') /\ Cardinality(page') <= PageSize
  <2>1. IsFiniteSet(page) /\ Cardinality(page) \in Nat /\ Cardinality(page) <= PageSize
    BY <1>1, FS_CardinalityType DEF SqlInv, SqlTypeOK
  <2>2. IsFiniteSet(page') /\ Cardinality(page') = Cardinality(page) - 1
    BY <1>2, <2>1, FS_RemoveElement
  <2> QED BY <2>1, <2>2, PageSizeAssumption
<1>4. SqlTypeOK'
  <2>1. mine' \in SUBSET {k \in Pk : rows'[k] # "none"}
    BY <1>1, <1>2 DEF SqlTypeOK, Present
  <2>2. page' \in SUBSET [key : Pk, old : BOOLEAN]
    BY <1>1, <1>2 DEF SqlTypeOK
  <2> QED BY <2>1, <2>2, <1>1, <1>3 DEF SqlTypeOK, DoRow
<1>5. ASSUME ~ shrunk, NEW k \in untouched, Seen(k)' = "old" PROVE Ahead(k)'
  <2>1. k \in Present /\ k \in Pk /\ Rank(k)' = Rank(k)
    BY <1>1, <1>5, SameRows DEF SqlTypeOK, Present
  <2>2. Seen(k) = "old" /\ k \notin mine'
    BY <1>1, <1>2, <1>5 DEF Seen
  <2>3. Ahead(k)
    BY <1>5, <2>2 DEF SqlInv, AheadInv, Replacing, DoRow
  <2>4. r # [key |-> k, old |-> TRUE]
    BY <1>2, <2>1, <2>2
  <2> QED BY <2>1, <2>3, <2>4, <1>2 DEF Ahead, DoRow
<1>6. AheadInv'
  BY <1>5 DEF AheadInv, DoRow
<1> QED BY <1>1, <1>3, <1>4, <1>6 DEF SqlInv, NoRowSkipped, DoRow

LEMMA NextPageStep == ASSUME SqlInv, NextPage PROVE SqlInv'
<1>1. SqlTypeOK /\ Finite /\ rows' = rows /\ Present' = Present /\ Finite'
  BY SameRows DEF SqlInv, NextPage
<1>2. SqlTypeOK'
  BY <1>1, PageSizeAssumption DEF SqlTypeOK, NextPage
<1>3. ASSUME ~ shrunk, NEW k \in untouched, Seen(k) = "old" PROVE Ahead(k)'
  <2>1. k \in Pk /\ Rank(k)' = Rank(k)
    BY <1>1, <1>3, SameRows DEF SqlTypeOK, Present
  <2>2. Ahead(k)
    BY <1>3 DEF SqlInv, AheadInv, Replacing, NextPage
  <2> QED BY <2>1, <2>2 DEF Ahead, NextPage
<1>4. AheadInv'
  BY <1>3 DEF AheadInv, Seen, NextPage
<1> QED BY <1>1, <1>2, <1>4 DEF SqlInv, NoRowSkipped, NextPage

LEMMA CommitTableStep == ASSUME SqlInv, CommitTable PROVE SqlInv'
<1>1. SqlTypeOK /\ Finite
  BY DEF SqlInv
<1>2. \A k \in Pk : rows'[k] = Seen(k) /\ Seen(k) \in State
  BY <1>1 DEF CommitTable, Seen, SqlTypeOK, State
<1>3. Present' = Present
  BY <1>1, <1>2 DEF Present, Seen, SqlTypeOK
<1>4. SqlTypeOK'
  BY <1>1, <1>2, <1>3 DEF SqlTypeOK, CommitTable
<1>5. ASSUME ~ shrunk, NEW k \in untouched PROVE rows'[k] # "old"
  <2>1. k \in Pk
    BY <1>1, <1>5 DEF SqlTypeOK, Present
  <2>2. Seen(k) = "old" => Ahead(k)
    BY <1>5 DEF SqlInv, AheadInv, Replacing, CommitTable
  <2> QED BY <1>2, <2>1, <2>2 DEF Ahead, CommitTable
<1>6. NoRowSkipped'
  BY <1>5 DEF NoRowSkipped, CommitTable
<1> QED BY <1>1, <1>3, <1>4, <1>6 DEF SqlInv, Finite, AheadInv, Replacing, CommitTable

LEMMA RollbackTableStep == ASSUME SqlInv, RollbackTable PROVE SqlInv'
<1>1. SqlTypeOK /\ Finite /\ rows' = rows /\ Present' = Present /\ Finite'
  BY SameRows DEF SqlInv, RollbackTable
<1>2. IsFiniteSet({}) /\ Cardinality({}) = 0 /\ PageSize \in Nat
  BY FS_EmptySet, PageSizeAssumption
<1>3. SqlTypeOK'
  BY <1>1, <1>2 DEF SqlTypeOK, RollbackTable
<1> QED BY <1>1, <1>2, <1>3 DEF SqlInv, AheadInv, Replacing, NoRowSkipped, RollbackTable

\* A row that appears before another moves it back, never forward.
LEMMA OthersWriteStep == ASSUME SqlInv, OthersWrite PROVE SqlInv'
<1>1. PICK l \in Pk \ mine, row \in State :
        /\ rows' = [rows EXCEPT ![l] = row]
        /\ untouched' = untouched \ {l}
        /\ shrunk' = (shrunk \/ row = "none")
  BY DEF OthersWrite
<1>2. SqlTypeOK /\ Finite /\ UNCHANGED txVars
  BY DEF SqlInv, OthersWrite
<1>3. rows'[l] = row /\ \A k \in Pk \ {l} : rows'[k] = rows[k]
  BY <1>1, <1>2 DEF SqlTypeOK
<1>4. Present' \in SUBSET (Present \cup {l}) /\ IsFiniteSet(Present \cup {l})
  BY <1>2, <1>3, FS_AddElement DEF Present, Finite
<1>5. Finite'
  BY <1>4, FS_Subset DEF Finite
<1>6. SqlTypeOK'
  <2>1. rows' \in [Pk -> State] /\ mine' \in SUBSET {k \in Pk : rows'[k] # "none"}
    BY <1>1, <1>2, <1>3 DEF SqlTypeOK, txVars
  <2>2. untouched' \in SUBSET Present' /\ shrunk' \in BOOLEAN
    BY <1>1, <1>2, <1>3 DEF SqlTypeOK, Present
  <2> QED BY <2>1, <2>2, <1>2 DEF SqlTypeOK, txVars
<1>7. ASSUME ~ shrunk', NEW k \in untouched' PROVE k \in untouched /\ k \in Pk /\ k # l /\ rows'[k] = rows[k]
  BY <1>1, <1>2, <1>3, <1>7 DEF SqlTypeOK, Present
<1>8. ASSUME ~ shrunk', NEW k \in Pk PROVE Rank(k) \in Nat /\ Rank(k)' \in Nat /\ Rank(k) <= Rank(k)'
  <2>1. Present \subseteq Present'
    BY <1>1, <1>3, <1>8 DEF Present
  <2> DEFINE was == {j \in Present : j <= k}
             is == {j \in Present' : j <= k}
  <2>2. IsFiniteSet(is) /\ was \in SUBSET is
    BY <2>1, <1>5, FS_Subset DEF Finite
  <2>3. Cardinality(is) \in Nat /\ Cardinality(was) \in Nat /\ Cardinality(was) <= Cardinality(is)
    BY <2>2, FS_Subset, FS_CardinalityType
  <2> QED BY <2>3 DEF Rank
<1>9. ASSUME Replacing, ~ shrunk', NEW k \in untouched', Seen(k)' = "old" PROVE Ahead(k)'
  <2>1. k \in untouched /\ k \in Pk /\ Seen(k) = "old" /\ ~ shrunk
    BY <1>1, <1>2, <1>7, <1>9 DEF Seen, txVars
  <2>2. Ahead(k)
    BY <1>9, <2>1 DEF SqlInv, AheadInv
  <2>3. Rank(k) \in Nat /\ Rank(k)' \in Nat /\ Rank(k) <= Rank(k)' /\ offset \in Nat /\ PageSize \in Nat
    BY <1>2, <1>8, <1>9, <2>1, PageSizeAssumption DEF SqlTypeOK
  <2> QED BY <2>2, <2>3, <1>2 DEF Ahead, txVars
<1>10. AheadInv'
  BY <1>2, <1>9 DEF AheadInv, Replacing, txVars
<1>11. NoRowSkipped'
  BY <1>1, <1>2, <1>7 DEF SqlInv, NoRowSkipped, txVars
<1>12. IsFiniteSet(page')
  BY <1>2 DEF SqlInv, txVars
<1> QED BY <1>5, <1>6, <1>10, <1>11, <1>12 DEF SqlInv

LEMMA SqlStep == SqlInv /\ [SqlNext]_sqlVars => SqlInv'
<1> SUFFICES ASSUME SqlInv, [SqlNext]_sqlVars PROVE SqlInv'
  OBVIOUS
<1>1. CASE SqlNext
  BY <1>1, ReplaceInTableStep, SelectPageStep, DoRowStep, NextPageStep, CommitTableStep,
     RollbackTableStep, OthersWriteStep DEF SqlNext
<1>2. CASE UNCHANGED sqlVars
  <2>1. UNCHANGED <<rows, mine, sqlPc, offset, page, hasMore, untouched, shrunk>>
    BY <1>2 DEF sqlVars, txVars
  <2>2. SqlTypeOK' /\ Finite' /\ IsFiniteSet(page')
    BY <2>1 DEF SqlInv, SqlTypeOK, Finite, Present
  <2>3. AheadInv' /\ NoRowSkipped'
    BY <2>1 DEF SqlInv, AheadInv, Ahead, Seen, Rank, Present, Replacing, NoRowSkipped
  <2> QED BY <2>2, <2>3 DEF SqlInv
<1> QED BY <1>1, <1>2

\* The transaction holds rows that are there, and a page of at most PageSize rows.
THEOREM SqlTypeCorrect == SqlSpec => []SqlTypeOK
<1>1. SqlInv => SqlTypeOK
  BY DEF SqlInv
<1> QED BY <1>1, SqlInitial, SqlStep, PTL DEF SqlSpec

\* Whatever the size of a page and of the table, and whatever others insert and update
\* between the pages, paging by rank skips no row unless one before it was deleted.
THEOREM SkipCorrect == SqlSpec => []NoRowSkipped
<1>1. SqlInv => NoRowSkipped
  BY DEF SqlInv
<1> QED BY <1>1, SqlInitial, SqlStep, PTL DEF SqlSpec
-----------------------------------------------------------------------------
\* What a run writes no longer has the old domain; texts have at most two places.
CleanText == {t \in Text : ~ t.old}
Update == UNION {[paths -> CleanText] : paths \in SUBSET Path}
Texts == {t \in Seq(Text) : DOMAIN t \subseteq Path}

LEMMA NothingIsUpdate == NoUpdate \in Update /\ DOMAIN NoUpdate = {} /\ << >> \in Texts
<1>1. NoUpdate \in [{} -> CleanText] /\ DOMAIN NoUpdate = {}
  BY DEF NoUpdate
<1>2. << >> \in Texts
  BY DEF Texts
<1> QED BY <1>1, <1>2 DEF Update

LEMMA UpdateTexts ==
    ASSUME NEW update \in Update
    PROVE  DOMAIN update \subseteq Path /\ \A i \in DOMAIN update : update[i] \in Text /\ ~ update[i].old
BY DEF Update, CleanText

LEMMA FunctionIsSeq ==
    ASSUME NEW S, NEW n \in Nat, NEW f \in [1..n -> S]
    PROVE  f \in Seq(S)
OBVIOUS

LEMMA AppendLength ==
    ASSUME NEW S, NEW s \in Seq(S), NEW x \in S
    PROVE  Append(s, x) \in Seq(S) /\ Len(Append(s, x)) = Len(s) + 1
<1>1. Append(s, x) \in Seq(S)
  OBVIOUS
<1>2. Len(Append(s, x)) = Len(s) + 1
  OBVIOUS
<1> QED BY <1>1, <1>2

LEMMA TextsLengths ==
    ASSUME NEW texts \in Texts
    PROVE  \/ texts = << >>
           \/ Len(texts) = 1 /\ DOMAIN texts = {1}
           \/ Len(texts) = 2 /\ DOMAIN texts = {1, 2}
<1>1. texts \in Seq(Text) /\ DOMAIN texts = 1..Len(texts) /\ Len(texts) \in Nat
  BY DEF Texts
<1>2. Len(texts) = 0 \/ Len(texts) \in 1..2
  <2>1. Len(texts) # 0 => Len(texts) \in DOMAIN texts
    BY <1>1
  <2> QED BY <2>1 DEF Texts, Path
<1>3. Len(texts) = 0 => texts = << >>
  BY <1>1
<1> QED BY <1>1, <1>2, <1>3

LEMMA TextsAreTexts ==
    ASSUME NEW texts \in Texts, NEW i \in DOMAIN texts
    PROVE  texts[i] \in Text /\ texts[i].by \in Edit \cup {Seed} /\ texts[i].old \in BOOLEAN
<1>1. texts[i] \in Text
  BY DEF Texts
<1> QED BY <1>1 DEF Text

LEMMA CollectedIsUpdate ==
    ASSUME NEW texts \in Texts
    PROVE  Collected(texts) \in Update
<1> DEFINE paths == {j \in DOMAIN texts : texts[j].old}
<1>1. \A i \in paths : [texts[i] EXCEPT !.old = FALSE] \in CleanText
  BY TextsAreTexts DEF CleanText, Text
<1>2. Collected(texts) \in [paths -> CleanText]
  BY <1>1 DEF Collected
<1>3. paths \in SUBSET Path
  BY DEF Texts
<1> QED BY <1>2, <1>3 DEF Update

LEMMA SetPathsIsTexts ==
    ASSUME NEW texts \in Texts, texts # << >>, NEW update \in Update
    PROVE  SetPaths(texts, update) \in Texts
<1>1. texts \in Seq(Text) /\ (DOMAIN texts = 1..1 \/ DOMAIN texts = 1..2)
  BY TextsLengths DEF Texts
<1>2. DOMAIN update \subseteq 1..2
  BY UpdateTexts DEF Path
<1>3. PICK n \in {1, 2} : DOMAIN texts \cup DOMAIN update = 1..n
  BY <1>1, <1>2
<1>4. SetPaths(texts, update) \in [1..n -> Text]
  BY <1>1, <1>3, UpdateTexts DEF SetPaths
<1> QED BY <1>3, <1>4, FunctionIsSeq DEF Texts, Path

LEMMA AuthorsType ==
    ASSUME NEW texts \in Texts
    PROVE  Authors(texts) \in Seq(Edit \cup {Seed})
<1>1. texts \in Seq(Text) /\ DOMAIN texts = 1..Len(texts) /\ Len(texts) \in Nat
  BY DEF Texts
<1>2. Authors(texts) \in [1..Len(texts) -> Edit \cup {Seed}]
  BY <1>1, TextsAreTexts DEF Authors
<1> QED BY <1>1, <1>2, FunctionIsSeq

LEMMA EditsOfTexts ==
    ASSUME NEW texts \in Texts, texts # << >>, NEW e \in Edit, NEW new \in EditsOf(texts, e)
    PROVE  new \in Texts
<1>1. Fresh(e) \in Text
  BY DEF Fresh, Text
<1>2. texts \in Seq(Text) /\ ((Len(texts) = 1 /\ DOMAIN texts = {1}) \/ (Len(texts) = 2 /\ DOMAIN texts = {1, 2}))
  BY TextsLengths DEF Texts
<1>3. CASE new = [texts EXCEPT ![1] = Fresh(e)]
  BY <1>1, <1>2, <1>3 DEF Texts
<1>4. CASE new = << >>
  BY <1>4, NothingIsUpdate
<1>5. CASE Len(texts) = 1 /\ new = Append(texts, Fresh(e))
  <2>1. new \in Seq(Text) /\ Len(new) = 2
    <3>1. texts \in Seq(Text) /\ Len(texts) = 1
      BY <1>2, <1>5
    <3>2. Append(texts, Fresh(e)) \in Seq(Text) /\ Len(Append(texts, Fresh(e))) = Len(texts) + 1
      BY <1>1, <3>1, AppendLength
    <3> QED BY <3>1, <3>2, <1>5
  <2>2. DOMAIN new = 1..2
    BY <2>1
  <2> QED BY <2>1, <2>2 DEF Texts, Path
<1>6. CASE Len(texts) # 1 /\ new = Tail(texts)
  <2>1. new \in Seq(Text) /\ Len(new) = 1
    BY <1>2, <1>6
  <2> QED BY <2>1 DEF Texts, Path
<1> QED BY <1>3, <1>4, <1>5, <1>6 DEF EditsOf

\* Replacing under the paths of the texts themselves leaves their authors.
LEMMA AuthorsKept ==
    ASSUME NEW texts \in Texts, NEW update \in Update,
           \A i \in DOMAIN update : i \in DOMAIN texts /\ update[i].by = texts[i].by
    PROVE  Authors(SetPaths(texts, update)) = Authors(texts)
<1>1. DOMAIN texts \cup DOMAIN update = DOMAIN texts
  OBVIOUS
<1>2. \A i \in DOMAIN texts : SetPaths(texts, update)[i].by = texts[i].by
  BY DEF SetPaths
<1> QED BY <1>1, <1>2 DEF Authors, SetPaths

-----------------------------------------------------------------------------
\* Every document and every update has its form.
Shape ==
    /\ docs \in [Coll -> [Doc -> Texts]]
    /\ authors \in [Coll -> [Doc -> Seq(Edit \cup {Seed})]]
    /\ pc \in [Run -> {"idle", "read", "write", "ended"}]
    /\ todo \in [Run -> SUBSET Coll]
    /\ unread \in [Run -> SUBSET Doc]
    /\ bulk \in [Run -> [Doc -> Update]]
    /\ edited \in [Run -> SUBSET (Coll \X Doc)]
    /\ stale \in [Run -> SUBSET (Coll \X Doc)]
    /\ \A r \in Run : stale[r] \subseteq edited[r]
    /\ done \in SUBSET Edit
    /\ raced \in SUBSET (Coll \X Doc)

\* A run has a collection exactly while it works, and updates only for what it has read.
Phase(r) ==
    /\ pc[r] \in {"idle", "ended"} <=> todo[r] = {}
    /\ pc[r] = "write" => unread[r] = {}
    /\ \A d \in Doc : todo[r] = {} \/ d \in unread[r] => DOMAIN bulk[r][d] = {}
PhaseInv == \A r \in Run : Phase(r)

\* An update that is not stale changes no author.
Fits(r, d) ==
    \A i \in DOMAIN bulk[r][d] :
        /\ i \in DOMAIN docs[Current(r)][d]
        /\ bulk[r][d][i].by = docs[Current(r)][d][i].by
FitInv == \A r \in Run, d \in Doc :
    todo[r] # {} /\ <<Current(r), d>> \notin raced \cup stale[r] => Fits(r, d)

\* In the documents left alone since a run started, the old domain is where the run has
\* not been yet, or has an update for it.
Covered(r, c, d) ==
    \A i \in DOMAIN docs[c][d] : docs[c][d][i].old =>
        \/ c \in todo[r] /\ c # Current(r)
        \/ c \in todo[r] /\ d \in unread[r]
        \/ c \in todo[r] /\ i \in DOMAIN bulk[r][d]
CoveredInv == \A r \in Run, c \in Coll, d \in Doc :
    pc[r] # "idle" /\ <<c, d>> \notin edited[r] => Covered(r, c, d)

ReplaceInv == Shape /\ PhaseInv /\ FitInv /\ CoveredInv /\ EditsSurvive

LEMMA CurrentIsLeft ==
    ASSUME Shape, NEW r \in Run, todo[r] # {}
    PROVE  Current(r) \in todo[r] /\ Current(r) \in Coll
BY DEF Shape, Current

LEMMA SameCurrent ==
    ASSUME NEW r, todo'[r] = todo[r]
    PROVE  Current(r)' = Current(r)
BY DEF Current

\* What is said of a run only depends on its own state, on the documents and on the history.
LEMMA SameRun ==
    ASSUME ReplaceInv, NEW r \in Run,
           docs' = docs, raced' = raced, todo'[r] = todo[r], pc'[r] = pc[r], bulk'[r] = bulk[r],
           unread'[r] = unread[r], edited'[r] = edited[r], stale'[r] = stale[r]
    PROVE  /\ Phase(r)'
           /\ \A d \in Doc : todo'[r] # {} /\ <<Current(r)', d>> \notin raced' \cup stale'[r] => Fits(r, d)'
           /\ \A c \in Coll, d \in Doc : pc'[r] # "idle" /\ <<c, d>> \notin edited'[r] => Covered(r, c, d)'
<1>1. Current(r)' = Current(r)
  BY SameCurrent
<1>2. Phase(r)'
  BY DEF ReplaceInv, PhaseInv, Phase
<1>3. \A d \in Doc : Fits(r, d)' <=> Fits(r, d)
  BY <1>1 DEF Fits
<1>4. \A c \in Coll, d \in Doc : Covered(r, c, d)' <=> Covered(r, c, d)
  BY <1>1 DEF Covered
<1> QED BY <1>1, <1>2, <1>3, <1>4 DEF ReplaceInv, FitInv, CoveredInv

LEMMA SameEdits ==
    ASSUME EditsSurvive, docs' = docs, raced' = raced, authors' = authors
    PROVE  EditsSurvive'
BY DEF EditsSurvive, Authors

LEMMA ReplaceInitial == Init => ReplaceInv
<1> SUFFICES ASSUME Init PROVE ReplaceInv
  OBVIOUS
<1>1. <<Fresh(Seed), Fresh(Seed)>> \in Texts
  <2>1. Fresh(Seed) \in Text
    BY DEF Fresh, Text
  <2>2. <<Fresh(Seed), Fresh(Seed)>> \in Seq(Text) /\ DOMAIN <<Fresh(Seed), Fresh(Seed)>> = 1..2
    BY <2>1
  <2> QED BY <2>2 DEF Texts, Path
<1>2. docs \in [Coll -> [Doc -> Texts]]
  BY <1>1 DEF Init
<1>3. authors \in [Coll -> [Doc -> Seq(Edit \cup {Seed})]]
  BY <1>2, AuthorsType DEF Init
<1>4. bulk \in [Run -> [Doc -> Update]] /\ \A r \in Run, d \in Doc : DOMAIN bulk[r][d] = {}
  BY NothingIsUpdate DEF Init
<1>5. Shape
  BY <1>2, <1>3, <1>4 DEF Init, Shape
<1>6. PhaseInv /\ FitInv /\ CoveredInv
  BY <1>4 DEF Init, PhaseInv, Phase, FitInv, CoveredInv
<1>7. EditsSurvive
  BY DEF Init, EditsSurvive
<1> QED BY <1>5, <1>6, <1>7 DEF ReplaceInv

\* Opening the next collection, if what was left alone in the others is clean.
LEMMA OpenStep ==
    ASSUME ReplaceInv, NEW r \in Run, NEW left \in SUBSET Coll, Open(r, left),
           UNCHANGED <<docs, done, authors, raced>>,
           edited' \in [Run -> SUBSET (Coll \X Doc)], stale' \in [Run -> SUBSET (Coll \X Doc)],
           \A q \in Run : stale'[q] \subseteq edited'[q],
           \A q \in Run \ {r} : edited'[q] = edited[q] /\ stale'[q] = stale[q],
           \A c \in Coll \ left, d \in Doc : <<c, d>> \notin edited'[r]
               => \A i \in DOMAIN docs[c][d] : ~ docs[c][d][i].old
    PROVE  ReplaceInv'
<1>1. Shape
  BY DEF ReplaceInv
<1>2. /\ todo'[r] = left /\ pc'[r] = (IF left = {} THEN "ended" ELSE "read")
      /\ unread'[r] = (IF left = {} THEN {} ELSE Doc)
      /\ \A d \in Doc : bulk'[r][d] = NoUpdate
  BY <1>1 DEF Open, Shape
<1>3. \A q \in Run \ {r} : todo'[q] = todo[q] /\ pc'[q] = pc[q] /\ unread'[q] = unread[q] /\ bulk'[q] = bulk[q]
  BY <1>1 DEF Open, Shape
<1>4. Shape'
  <2>1. [d \in Doc |-> NoUpdate] \in [Doc -> Update]
    BY NothingIsUpdate
  <2>2. bulk' \in [Run -> [Doc -> Update]]
    BY <2>1, <1>1 DEF Open, Shape
  <2>3. todo' \in [Run -> SUBSET Coll] /\ pc' \in [Run -> {"idle", "read", "write", "ended"}]
        /\ unread' \in [Run -> SUBSET Doc]
    BY <1>1 DEF Open, Shape
  <2> QED BY <2>2, <2>3, <1>1 DEF Shape
<1>5. \A d \in Doc : DOMAIN bulk'[r][d] = {}
  BY <1>2, NothingIsUpdate
<1>6. Phase(r)' /\ \A d \in Doc : Fits(r, d)'
  BY <1>2, <1>5 DEF Phase, Fits
<1>7. \A c \in Coll, d \in Doc : <<c, d>> \notin edited'[r] => Covered(r, c, d)'
  <2> SUFFICES ASSUME NEW c \in Coll, NEW d \in Doc, <<c, d>> \notin edited'[r],
                      NEW i \in DOMAIN docs[c][d], docs[c][d][i].old
               PROVE  c \in todo'[r] /\ d \in unread'[r]
    BY DEF Covered
  <2>1. c \in left
    OBVIOUS
  <2> QED BY <2>1, <1>2
<1>8. PhaseInv' /\ FitInv' /\ CoveredInv'
  BY <1>3, <1>6, <1>7, SameRun DEF PhaseInv, FitInv, CoveredInv
<1>9. EditsSurvive'
  BY SameEdits DEF ReplaceInv
<1> QED BY <1>4, <1>8, <1>9 DEF ReplaceInv

LEMMA StartStep == ASSUME ReplaceInv, NEW r \in Run, Start(r) PROVE ReplaceInv'
<1>1. Shape /\ Open(r, Coll) /\ UNCHANGED <<docs, done, authors, raced>>
  BY DEF ReplaceInv, Start
<1>2. /\ edited' \in [Run -> SUBSET (Coll \X Doc)] /\ stale' \in [Run -> SUBSET (Coll \X Doc)]
      /\ \A q \in Run \ {r} : edited'[q] = edited[q] /\ stale'[q] = stale[q]
      /\ edited'[r] = {} /\ stale'[r] = {}
  BY <1>1 DEF Start, Shape
<1>3. \A q \in Run : stale'[q] \subseteq edited'[q]
  BY <1>1, <1>2 DEF Shape
<1> QED BY <1>1, <1>2, <1>3, OpenStep

\* A collection is left when nothing is unread and nothing is to be written.
LEMMA EndWriteStep == ASSUME ReplaceInv, NEW r \in Run, EndWrite(r) PROVE ReplaceInv'
<1> DEFINE left == todo[r] \ {Current(r)}
<1>1. Shape /\ Open(r, left) /\ UNCHANGED <<docs, done, authors, raced, edited, stale>>
  BY DEF ReplaceInv, EndWrite, NextCollection, historyVars
<1>2. left \in SUBSET Coll
  BY <1>1 DEF Shape
<1>3. pc[r] = "write" /\ unread[r] = {} /\ \A d \in Doc : DOMAIN bulk[r][d] = {}
  BY NothingIsUpdate DEF ReplaceInv, PhaseInv, Phase, EndWrite
<1>4. ASSUME NEW c \in Coll \ left, NEW d \in Doc, <<c, d>> \notin edited'[r], NEW i \in DOMAIN docs[c][d]
      PROVE  ~ docs[c][d][i].old
  <2>1. Covered(r, c, d)
    BY <1>1, <1>3, <1>4 DEF ReplaceInv, CoveredInv
  <2> QED BY <2>1, <1>3, <1>4 DEF Covered
<1>5. edited' \in [Run -> SUBSET (Coll \X Doc)] /\ stale' \in [Run -> SUBSET (Coll \X Doc)]
      /\ \A q \in Run : stale'[q] \subseteq edited'[q]
  BY <1>1 DEF Shape
<1> HIDE DEF left
<1> QED BY <1>1, <1>2, <1>4, <1>5, OpenStep

\* A run that dies says nothing any more.
LEMMA AbortStep == ASSUME ReplaceInv, NEW r \in Run, Abort(r) PROVE ReplaceInv'
<1>1. Shape /\ UNCHANGED <<docs, done, authors, edited, stale, raced>>
  BY DEF ReplaceInv, Abort, historyVars
<1>2. todo'[r] = {} /\ pc'[r] = "idle" /\ unread'[r] = {} /\ \A d \in Doc : DOMAIN bulk'[r][d] = {}
  BY <1>1, NothingIsUpdate DEF Abort, Shape
<1>3. \A q \in Run \ {r} : todo'[q] = todo[q] /\ pc'[q] = pc[q] /\ unread'[q] = unread[q] /\ bulk'[q] = bulk[q]
  BY <1>1 DEF Abort, Shape
<1>4. Shape'
  <2>1. [d \in Doc |-> NoUpdate] \in [Doc -> Update]
    BY NothingIsUpdate
  <2>2. bulk' \in [Run -> [Doc -> Update]]
    BY <2>1, <1>1 DEF Abort, Shape
  <2>3. todo' \in [Run -> SUBSET Coll] /\ pc' \in [Run -> {"idle", "read", "write", "ended"}]
        /\ unread' \in [Run -> SUBSET Doc]
    BY <1>1 DEF Abort, Shape
  <2> QED BY <2>2, <2>3, <1>1 DEF Shape
<1>5. Phase(r)'
  BY <1>2 DEF Phase
<1>6. PhaseInv' /\ FitInv' /\ CoveredInv'
  BY <1>1, <1>2, <1>3, <1>5, SameRun DEF PhaseInv, FitInv, CoveredInv
<1>7. EditsSurvive'
  BY <1>1, SameEdits DEF ReplaceInv
<1> QED BY <1>4, <1>6, <1>7 DEF ReplaceInv

LEMMA EndReadStep == ASSUME ReplaceInv, NEW r \in Run, EndRead(r) PROVE ReplaceInv'
<1>1. Shape /\ UNCHANGED <<docs, todo, unread, bulk, done, authors, edited, stale, raced>>
  BY DEF ReplaceInv, EndRead, historyVars
<1>2. pc[r] = "read" /\ pc'[r] = "write" /\ unread[r] = {} /\ \A q \in Run \ {r} : pc'[q] = pc[q]
  BY <1>1 DEF EndRead, Shape
<1>3. Shape'
  <2>1. pc' \in [Run -> {"idle", "read", "write", "ended"}]
    BY <1>1 DEF EndRead, Shape
  <2> QED BY <2>1, <1>1 DEF Shape
<1>4. Phase(r)'
  BY <1>1, <1>2 DEF ReplaceInv, PhaseInv, Phase
<1>5. Current(r)' = Current(r)
  BY <1>1, SameCurrent
<1>6. \A d \in Doc : Fits(r, d)' <=> Fits(r, d)
  BY <1>1, <1>5 DEF Fits
<1>7. \A c \in Coll, d \in Doc : Covered(r, c, d)' <=> Covered(r, c, d)
  BY <1>1, <1>5 DEF Covered
<1>8. PhaseInv'
  BY <1>1, <1>2, <1>4, SameRun DEF PhaseInv
<1>9. FitInv'
  BY <1>1, <1>2, <1>5, <1>6, SameRun DEF ReplaceInv, FitInv
<1>10. CoveredInv'
  BY <1>1, <1>2, <1>7, SameRun DEF ReplaceInv, CoveredInv
<1>11. EditsSurvive'
  BY <1>1, SameEdits DEF ReplaceInv
<1> QED BY <1>3, <1>8, <1>9, <1>10, <1>11 DEF ReplaceInv

\* A run reads a document and collects its updates.
LEMMA ReadStep == ASSUME ReplaceInv, NEW r \in Run, Read(r) PROVE ReplaceInv'
<1>1. Shape /\ UNCHANGED <<docs, pc, todo, done, authors, edited, stale, raced>>
  BY DEF ReplaceInv, Read, historyVars
<1> DEFINE c == Current(r)
<1>2. PICK d \in unread[r] :
        /\ unread' = [unread EXCEPT ![r] = @ \ {d}]
        /\ bulk' = [bulk EXCEPT ![r][d] = Collected(docs[c][d])]
  BY DEF Read
<1>3. todo[r] # {} /\ pc[r] = "read" /\ c \in Coll /\ d \in Doc /\ docs[c][d] \in Texts
  <2>1. todo[r] # {} /\ pc[r] = "read" /\ d \in Doc
    BY <1>1, <1>2 DEF Read, ReplaceInv, PhaseInv, Phase, Shape
  <2>2. c \in Coll
    BY <1>1, <2>1, CurrentIsLeft
  <2> QED BY <1>1, <2>1, <2>2 DEF Shape
<1>4. /\ unread'[r] = unread[r] \ {d}
      /\ bulk'[r][d] = Collected(docs[c][d])
      /\ \A e \in Doc \ {d} : bulk'[r][e] = bulk[r][e]
      /\ \A q \in Run \ {r} : unread'[q] = unread[q] /\ bulk'[q] = bulk[q]
  BY <1>1, <1>2, <1>3 DEF Shape
<1>5. Shape'
  <2>1. bulk' \in [Run -> [Doc -> Update]]
    BY <1>1, <1>2, <1>3, CollectedIsUpdate DEF Shape
  <2>2. unread' \in [Run -> SUBSET Doc]
    BY <1>1, <1>2 DEF Shape
  <2> QED BY <2>1, <2>2, <1>1 DEF Shape
<1>6. Current(r)' = c
  BY <1>1, SameCurrent
<1>7. Phase(r)'
  BY <1>1, <1>3, <1>4 DEF ReplaceInv, PhaseInv, Phase
<1>8. ASSUME NEW e \in Doc, <<c, e>> \notin raced \cup stale[r] PROVE Fits(r, e)'
  <2>1. CASE e = d
    <3> SUFFICES ASSUME NEW i \in DOMAIN bulk'[r][d]
                 PROVE  i \in DOMAIN docs[c][d] /\ bulk'[r][d][i].by = docs[c][d][i].by
      BY <2>1, <1>1, <1>6 DEF Fits
    <3>1. i \in DOMAIN docs[c][d] /\ bulk'[r][d][i] = [docs[c][d][i] EXCEPT !.old = FALSE]
      BY <1>4 DEF Collected
    <3>2. docs[c][d][i] \in Text
      BY <3>1, <1>3, TextsAreTexts
    <3> QED BY <3>1, <3>2 DEF Text
  <2>2. CASE e # d
    <3>1. Fits(r, e)
      BY <1>3, <1>8 DEF ReplaceInv, FitInv
    <3> QED BY <3>1, <2>2, <1>1, <1>4, <1>6 DEF Fits
  <2> QED BY <2>1, <2>2
<1>9. ASSUME NEW b \in Coll, NEW e \in Doc, <<b, e>> \notin edited[r] PROVE Covered(r, b, e)'
  <2> SUFFICES ASSUME NEW i \in DOMAIN docs[b][e], docs[b][e][i].old
               PROVE  \/ b \in todo[r] /\ b # c
                      \/ b \in todo[r] /\ e \in unread'[r]
                      \/ b \in todo[r] /\ i \in DOMAIN bulk'[r][e]
    BY <1>1, <1>6 DEF Covered
  <2>1. \/ b \in todo[r] /\ b # c
        \/ b \in todo[r] /\ e \in unread[r]
        \/ b \in todo[r] /\ i \in DOMAIN bulk[r][e]
    BY <1>3, <1>9 DEF ReplaceInv, CoveredInv, Covered
  <2>2. CASE b = c /\ e = d
    <3>1. i \in DOMAIN bulk'[r][d]
      BY <2>2, <1>4 DEF Collected
    <3> QED BY <3>1, <2>1, <2>2
  <2>3. CASE b # c
    BY <2>1, <2>3
  <2>4. CASE e # d
    BY <2>1, <2>4, <1>4
  <2> QED BY <2>2, <2>3, <2>4
<1>10. PhaseInv'
  BY <1>1, <1>4, <1>7, SameRun DEF PhaseInv
<1>11. FitInv'
  BY <1>1, <1>4, <1>6, <1>8, SameRun DEF FitInv
<1>12. CoveredInv'
  BY <1>1, <1>4, <1>9, SameRun DEF CoveredInv
<1>13. EditsSurvive'
  BY <1>1, SameEdits DEF ReplaceInv
<1> QED BY <1>5, <1>10, <1>11, <1>12, <1>13 DEF ReplaceInv

\* An update is written: a document that is not counted as raced keeps its authors, and
\* no text gets the old domain.
LEMMA WriteStep == ASSUME ReplaceInv, NEW r \in Run, Write(r) PROVE ReplaceInv'
<1>1. Shape /\ UNCHANGED <<pc, todo, unread, done, authors, edited, stale>>
  BY DEF ReplaceInv, Write
<1> DEFINE c == Current(r)
<1>2. PICK d \in Doc :
        /\ docs' = [docs EXCEPT ![c][d] = IF @ = << >> THEN << >> ELSE SetPaths(@, bulk[r][d])]
        /\ raced' = IF <<c, d>> \in stale[r] THEN raced \cup {<<c, d>>} ELSE raced
        /\ bulk' = [bulk EXCEPT ![r][d] = NoUpdate]
  BY DEF Write
<1>3. todo[r] # {} /\ pc[r] = "write" /\ unread[r] = {} /\ c \in todo[r] /\ c \in Coll
      /\ docs[c][d] \in Texts /\ bulk[r][d] \in Update
  <2>1. todo[r] # {} /\ pc[r] = "write" /\ unread[r] = {}
    BY DEF Write, ReplaceInv, PhaseInv, Phase
  <2>2. c \in todo[r] /\ c \in Coll
    BY <1>1, <2>1, CurrentIsLeft
  <2> QED BY <1>1, <2>1, <2>2 DEF Shape
<1> HIDE DEF c
<1>4. /\ docs'[c][d] = (IF docs[c][d] = << >> THEN << >> ELSE SetPaths(docs[c][d], bulk[r][d]))
      /\ \A b \in Coll, e \in Doc : <<b, e>> # <<c, d>> => docs'[b][e] = docs[b][e]
  BY <1>1, <1>2, <1>3 DEF Shape
<1>5. /\ DOMAIN bulk'[r][d] = {}
      /\ \A e \in Doc \ {d} : bulk'[r][e] = bulk[r][e]
      /\ \A q \in Run \ {r} : bulk'[q] = bulk[q]
  BY <1>1, <1>2, NothingIsUpdate DEF Shape
<1>6. Shape'
  <2>1. docs'[c][d] \in Texts
    BY <1>3, <1>4, SetPathsIsTexts, NothingIsUpdate
  <2>2. docs' \in [Coll -> [Doc -> Texts]]
    BY <1>1, <1>2, <1>3, <1>4, <2>1 DEF Shape
  <2>3. bulk' \in [Run -> [Doc -> Update]]
    BY <1>1, <1>2, NothingIsUpdate DEF Shape
  <2>4. raced' \in SUBSET (Coll \X Doc)
    BY <1>1, <1>2, <1>3 DEF Shape
  <2> QED BY <2>2, <2>3, <2>4, <1>1 DEF Shape
<1>7. \A q \in Run : Current(q)' = Current(q)
  BY <1>1, SameCurrent
\* Of the authors.
<1>8. <<c, d>> \notin raced' => Authors(docs'[c][d]) = Authors(docs[c][d])
  <2> SUFFICES ASSUME <<c, d>> \notin raced' PROVE Authors(docs'[c][d]) = Authors(docs[c][d])
    OBVIOUS
  <2>1. <<c, d>> \notin raced \cup stale[r]
    BY <1>2
  <2>2. \A i \in DOMAIN bulk[r][d] : i \in DOMAIN docs[c][d] /\ bulk[r][d][i].by = docs[c][d][i].by
    BY <2>1, <1>3 DEF c, ReplaceInv, FitInv, Fits
  <2>3. CASE docs[c][d] = << >>
    BY <2>3, <1>4
  <2>4. CASE docs[c][d] # << >>
    BY <2>2, <2>4, <1>3, <1>4, AuthorsKept
  <2> QED BY <2>3, <2>4
<1>9. \A b \in Coll, e \in Doc : <<b, e>> \notin raced' => Authors(docs'[b][e]) = Authors(docs[b][e])
  BY <1>4, <1>8
<1>10. raced \subseteq raced'
  BY <1>2
<1>11. EditsSurvive'
  <2>1. \A b \in Coll, e \in Doc : <<b, e>> \notin raced' => Authors(docs'[b][e]) = authors[b][e]
    BY <1>9, <1>10 DEF ReplaceInv, EditsSurvive
  <2> QED BY <2>1, <1>1 DEF EditsSurvive, Authors
<1>12. ASSUME NEW b \in Coll, NEW e \in Doc, <<b, e>> \notin raced'
       PROVE  /\ DOMAIN docs'[b][e] = DOMAIN docs[b][e]
              /\ \A i \in DOMAIN docs[b][e] : docs'[b][e][i].by = docs[b][e][i].by
  <2>1. Authors(docs'[b][e]) = Authors(docs[b][e])
    BY <1>9, <1>12
  <2>2. DOMAIN Authors(docs'[b][e]) = DOMAIN docs'[b][e] /\ DOMAIN Authors(docs[b][e]) = DOMAIN docs[b][e]
    BY DEF Authors
  <2>3. \A i \in DOMAIN docs[b][e] : Authors(docs'[b][e])[i] = docs'[b][e][i].by
                                     /\ Authors(docs[b][e])[i] = docs[b][e][i].by
    BY <2>1, <2>2 DEF Authors
  <2> QED BY <2>1, <2>2, <2>3
<1>13. ASSUME NEW q \in Run, NEW e \in Doc, todo[q] # {}, <<Current(q), e>> \notin raced' \cup stale[q]
       PROVE  Fits(q, e)'
  <2>1. Fits(q, e) /\ Current(q) \in Coll
    BY <1>1, <1>10, <1>13, CurrentIsLeft DEF ReplaceInv, FitInv
  <2> SUFFICES ASSUME NEW i \in DOMAIN bulk'[q][e]
               PROVE  /\ i \in DOMAIN docs'[Current(q)][e]
                      /\ bulk'[q][e][i].by = docs'[Current(q)][e][i].by
    BY <1>7 DEF Fits
  <2>2. bulk'[q][e] = bulk[q][e]
    BY <1>5
  <2>3. i \in DOMAIN docs[Current(q)][e] /\ bulk[q][e][i].by = docs[Current(q)][e][i].by
    BY <2>1, <2>2 DEF Fits
  <2> QED BY <2>1, <2>2, <2>3, <1>12, <1>13
<1>14. FitInv'
  BY <1>1, <1>7, <1>13 DEF FitInv
\* Of the old domain.
<1>15. ASSUME NEW b \in Coll, NEW e \in Doc, NEW i \in DOMAIN docs'[b][e], docs'[b][e][i].old
       PROVE  /\ i \in DOMAIN docs[b][e] /\ docs[b][e][i].old
              /\ <<b, e>> = <<c, d>> => i \notin DOMAIN bulk[r][d]
  <2>1. CASE <<b, e>> # <<c, d>>
    BY <2>1, <1>4, <1>15
  <2>2. CASE b = c /\ e = d
    <3>1. docs[c][d] # << >> /\ docs'[c][d] = SetPaths(docs[c][d], bulk[r][d])
      BY <2>2, <1>4, <1>15
    <3>2. i \notin DOMAIN bulk[r][d]
      BY <2>2, <3>1, <1>3, <1>15, UpdateTexts DEF SetPaths
    <3> QED BY <2>2, <3>1, <3>2, <1>15 DEF SetPaths
  <2> QED BY <2>1, <2>2
<1>16. ASSUME NEW q \in Run, NEW b \in Coll, NEW e \in Doc, pc[q] # "idle", <<b, e>> \notin edited[q]
       PROVE  Covered(q, b, e)'
  <2> SUFFICES ASSUME NEW i \in DOMAIN docs'[b][e], docs'[b][e][i].old
               PROVE  \/ b \in todo[q] /\ b # Current(q)
                      \/ b \in todo[q] /\ e \in unread[q]
                      \/ b \in todo[q] /\ i \in DOMAIN bulk'[q][e]
    BY <1>1, <1>7 DEF Covered
  <2>1. \/ b \in todo[q] /\ b # Current(q)
        \/ b \in todo[q] /\ e \in unread[q]
        \/ b \in todo[q] /\ i \in DOMAIN bulk[q][e]
    BY <1>15, <1>16 DEF ReplaceInv, CoveredInv, Covered
  <2>2. CASE q # r \/ e # d
    BY <2>1, <2>2, <1>5
  <2>3. CASE q = r /\ e = d
    <3>1. b = c => i \notin DOMAIN bulk[r][d]
      BY <2>3, <1>15
    <3> QED BY <2>1, <2>3, <3>1 DEF c
  <2> QED BY <2>2, <2>3
<1>17. CoveredInv'
  BY <1>1, <1>16 DEF CoveredInv
<1>18. PhaseInv'
  <2> SUFFICES ASSUME NEW q \in Run PROVE Phase(q)'
    BY DEF PhaseInv
  <2>1. Phase(q)
    BY DEF ReplaceInv, PhaseInv
  <2>2. \A e \in Doc : DOMAIN bulk'[q][e] = {} \/ bulk'[q][e] = bulk[q][e]
    BY <1>5
  <2> QED BY <2>1, <2>2, <1>1 DEF Phase
<1> QED BY <1>6, <1>11, <1>14, <1>17, <1>18 DEF ReplaceInv

\* A user writes: every run that has read the document is stale on it.
LEMMA UserEditsStep == ASSUME ReplaceInv, UserEdits PROVE ReplaceInv'
<1>1. Shape /\ UNCHANGED <<pc, todo, unread, bulk, raced>>
  BY DEF ReplaceInv, UserEdits, runVars
<1>2. PICK c \in Coll, d \in Doc, e \in Edit \ done :
        /\ docs[c][d] # << >>
        /\ \E new \in EditsOf(docs[c][d], e) :
            /\ docs' = [docs EXCEPT ![c][d] = new]
            /\ authors' = [authors EXCEPT ![c][d] = Authors(new)]
        /\ done' = done \cup {e}
        /\ edited' = [r \in Run |-> edited[r] \cup {<<c, d>>}]
        /\ stale' = [r \in Run |->
            IF todo[r] # {} /\ c = Current(r) /\ d \notin unread[r] THEN stale[r] \cup {<<c, d>>} ELSE stale[r]]
  BY DEF UserEdits
<1>3. PICK new \in EditsOf(docs[c][d], e) :
        /\ docs' = [docs EXCEPT ![c][d] = new]
        /\ authors' = [authors EXCEPT ![c][d] = Authors(new)]
  BY <1>2
<1>4. new \in Texts /\ Authors(new) \in Seq(Edit \cup {Seed})
  <2>1. docs[c][d] \in Texts
    BY <1>1 DEF Shape
  <2> QED BY <2>1, <1>2, EditsOfTexts, AuthorsType
<1>5. /\ \A b \in Coll, f \in Doc : <<b, f>> # <<c, d>> => docs'[b][f] = docs[b][f] /\ authors'[b][f] = authors[b][f]
      /\ docs'[c][d] = new /\ authors'[c][d] = Authors(new)
  BY <1>1, <1>3 DEF Shape
<1>6. /\ \A r \in Run : edited'[r] = edited[r] \cup {<<c, d>>}
      /\ \A r \in Run : stale[r] \subseteq stale'[r] /\ stale'[r] \subseteq stale[r] \cup {<<c, d>>}
      /\ \A r \in Run : todo[r] # {} /\ c = Current(r) /\ d \notin unread[r] => <<c, d>> \in stale'[r]
  BY <1>2
<1>7. Shape'
  <2>1. docs' \in [Coll -> [Doc -> Texts]] /\ authors' \in [Coll -> [Doc -> Seq(Edit \cup {Seed})]]
    BY <1>1, <1>3, <1>4 DEF Shape
  <2>2. edited' \in [Run -> SUBSET (Coll \X Doc)]
    BY <1>1, <1>2 DEF Shape
  <2>3. stale' \in [Run -> SUBSET (Coll \X Doc)]
    BY <1>1, <1>2 DEF Shape
  <2>4. \A r \in Run : stale'[r] \subseteq edited'[r]
    BY <1>1, <1>6 DEF Shape
  <2>5. done' \in SUBSET Edit
    BY <1>1, <1>2 DEF Shape
  <2> QED BY <2>1, <2>2, <2>3, <2>4, <2>5, <1>1 DEF Shape
<1>8. PhaseInv'
  BY <1>1 DEF ReplaceInv, PhaseInv, Phase
<1>9. \A r \in Run : Current(r)' = Current(r)
  BY <1>1, SameCurrent
<1>10. ASSUME NEW r \in Run, NEW f \in Doc, todo[r] # {}, <<Current(r), f>> \notin raced \cup stale'[r]
       PROVE  Fits(r, f)'
  <2>1. Fits(r, f) /\ Current(r) \in Coll
    BY <1>1, <1>6, <1>10, CurrentIsLeft DEF ReplaceInv, FitInv
  <2>2. CASE <<Current(r), f>> = <<c, d>>
    <3>1. d \in unread[r]
      BY <2>2, <1>6, <1>10
    <3>2. DOMAIN bulk[r][f] = {}
      BY <3>1, <2>2 DEF ReplaceInv, PhaseInv, Phase
    <3> QED BY <3>2, <1>1 DEF Fits
  <2>3. CASE <<Current(r), f>> # <<c, d>>
    <3>1. docs'[Current(r)][f] = docs[Current(r)][f]
      BY <2>1, <2>3, <1>5
    <3> QED BY <3>1, <2>1, <1>1, <1>9 DEF Fits
  <2> QED BY <2>2, <2>3
<1>11. FitInv'
  BY <1>1, <1>9, <1>10 DEF FitInv
<1>12. ASSUME NEW r \in Run, NEW b \in Coll, NEW f \in Doc, pc[r] # "idle", <<b, f>> \notin edited'[r]
       PROVE  Covered(r, b, f)'
  <2>1. Covered(r, b, f) /\ docs'[b][f] = docs[b][f]
    BY <1>5, <1>6, <1>12 DEF ReplaceInv, CoveredInv
  <2> QED BY <2>1, <1>1, <1>9 DEF Covered
<1>13. CoveredInv'
  BY <1>1, <1>12 DEF CoveredInv
<1>14. EditsSurvive'
  <2>1. \A b \in Coll, f \in Doc : <<b, f>> \notin raced => Authors(docs'[b][f]) = authors'[b][f]
    BY <1>5 DEF ReplaceInv, EditsSurvive
  <2> QED BY <2>1, <1>1 DEF EditsSurvive, Authors
<1> QED BY <1>7, <1>8, <1>11, <1>13, <1>14 DEF ReplaceInv

LEMMA ReplaceStep == ReplaceInv /\ [Next]_vars => ReplaceInv'
<1> SUFFICES ASSUME ReplaceInv, [Next]_vars PROVE ReplaceInv'
  OBVIOUS
<1>1. CASE Next
  BY <1>1, StartStep, ReadStep, EndReadStep, WriteStep, EndWriteStep, AbortStep, UserEditsStep DEF Next
<1>2. CASE UNCHANGED vars
  <2>1. UNCHANGED <<docs, pc, todo, unread, bulk, done, authors, edited, stale, raced>>
    BY <1>2 DEF vars, runVars, historyVars
  <2>2. Shape'
    BY <2>1 DEF ReplaceInv, Shape
  <2>3. PhaseInv' /\ FitInv' /\ CoveredInv'
    BY <2>1, SameRun DEF PhaseInv, FitInv, CoveredInv
  <2>4. EditsSurvive'
    BY <2>1, SameEdits DEF ReplaceInv
  <2> QED BY <2>2, <2>3, <2>4 DEF ReplaceInv
<1> QED BY <1>1, <1>2

\* Documents keep the form of documents, and the updates of a run are texts of its paths.
THEOREM ReplaceTypeCorrect == Spec => []TypeOK
<1>1. ReplaceInv => TypeOK
  <2> SUFFICES ASSUME ReplaceInv PROVE TypeOK
    OBVIOUS
  <2>1. Shape
    BY DEF ReplaceInv
  <2>2. \A c \in Coll, d \in Doc : docs[c][d] \in Seq(Text) /\ DOMAIN docs[c][d] \subseteq Path
    BY <2>1 DEF Shape, Texts
  <2>3. \A r \in Run, d \in Doc :
          DOMAIN bulk[r][d] \subseteq Path /\ \A i \in DOMAIN bulk[r][d] : bulk[r][d][i] \in Text
    BY <2>1, UpdateTexts DEF Shape
  <2> QED BY <2>1, <2>2, <2>3 DEF Shape, TypeOK
<1> QED BY <1>1, ReplaceInitial, ReplaceStep, PTL DEF Spec

\* The answer of a run is only given once every document left alone since it started is
\* free of the old domain, however many runs work, are started again or die.
THEOREM EndedCorrect == Spec => []EndedIsComplete
<1>1. ReplaceInv => EndedIsComplete
  <2> SUFFICES ASSUME ReplaceInv, NEW r \in Run, NEW c \in Coll, NEW d \in Doc,
                      pc[r] = "ended", <<c, d>> \notin edited[r]
               PROVE  \A i \in DOMAIN docs[c][d] : ~ docs[c][d][i].old
    BY DEF EndedIsComplete
  <2>1. Covered(r, c, d) /\ todo[r] = {}
    BY DEF ReplaceInv, CoveredInv, PhaseInv, Phase
  <2> QED BY <2>1 DEF Covered
<1> QED BY <1>1, ReplaceInitial, ReplaceStep, PTL DEF Spec

\* A run leaves in place what users wrote, unless it wrote to a document that was edited
\* after the run had read it.
THEOREM EditsCorrect == Spec => []EditsSurvive
<1>1. ReplaceInv => EditsSurvive
  BY DEF ReplaceInv
<1> QED BY <1>1, ReplaceInitial, ReplaceStep, PTL DEF Spec

-----------------------------------------------------------------------------
Holding(p, f) == filePc[p] \in {"write", "fetch", "encode", "mark"} /\ reg[p].file = f
\* A document of f, in the collection or as a request has read it.
IsDoc(f, d) == d = files[f] \/ \E p \in Process : Holding(p, f) /\ reg[p].doc = d
IsMoved(f, d) == IsDoc(f, d) /\ d.storage = "s3"
\* A request that has put an object no document names yet.
Putting(p) == filePc[p] \in {"insert", "mark"} /\ reg[p].data \in Object

\* What a request carries at each stage.
Carried(p) ==
    /\ filePc[p] \in {"write", "fetch", "encode", "mark"} => reg[p].file \in File /\ reg[p].doc \in FileDoc
    /\ filePc[p] \in {"insert", "write"} => reg[p].content \in Content
    /\ filePc[p] \in {"encode", "mark"} =>
        reg[p].content \in Bytes /\ (reg[p].doc.storage = "database" => reg[p].content = reg[p].doc.data)
    /\ filePc[p] = "fetch" => reg[p].doc.storage = "s3"
    /\ filePc[p] = "mark" => reg[p].data \in Name
    /\ filePc[p] = "insert" =>
        /\ reg[p].doc \in FileDoc /\ reg[p].doc.data = reg[p].data
        /\ IF reg[p].doc.storage = "s3" THEN reg[p].data \in Object ELSE reg[p].data = reg[p].content
CarriedInv == \A p \in Process : Carried(p)

\* A file that has a document was stored, and a document that is not moved is content.
DocInv == \A f \in File, d \in FileDoc :
    IsDoc(f, d) => last[f] \in Content /\ (d.storage = "database" => d.data \in Content)

\* A file is moved once, to an object, unless it is mixed.
MovedInv == \A f \in File \ mixed, d \in FileDoc : IsMoved(f, d) =>
    d.data \in Object /\ files[f] \in {NoFile, d} /\ \A e \in FileDoc : IsMoved(f, e) => e = d

\* An object is of one file.
NameInv == \A f \in File, d \in FileDoc : IsMoved(f, d) /\ d.data \in Object =>
    /\ objects[d.data] # NoContent
    /\ \A g \in File, e \in FileDoc : IsMoved(g, e) /\ e.data = d.data => g = f

\* An object that was put and is not named is of one request, and has what it put.
PutInv == \A p \in Process : Putting(p) =>
    /\ objects[reg[p].data] = reg[p].content /\ reg[p].content # NoContent
    /\ \A f \in File, d \in FileDoc : IsMoved(f, d) => d.data # reg[p].data
    /\ \A q \in Process : Putting(q) /\ reg[q].data = reg[p].data => q = p

FileInv ==
    FileTypeOK /\ CarriedInv /\ DocInv /\ MovedInv /\ NameInv /\ PutInv /\ ContentKept /\ ReadIsCurrent

LEMMA FileNames ==
    /\ Object \cap Bytes = {} /\ NoContent \notin Name /\ NoContent \notin Content /\ NoContent \notin Bytes
    /\ Content \subseteq Bytes /\ Object \subseteq Name /\ Bytes \subseteq Name
    /\ NoFile \notin File /\ NoFile \notin FileDoc
BY ContentAssumption, ObjectAssumption, NoFileAssumption DEF Bytes, Name

LEMMA FileDocType ==
    ASSUME NEW d \in FileDoc
    PROVE  d.storage \in {"database", "s3"} /\ d.data \in Name
           /\ d = [storage |-> d.storage, data |-> d.data]
BY DEF FileDoc

LEMMA FileInitial == FileInit => FileInv
<1> SUFFICES ASSUME FileInit PROVE FileInv
  OBVIOUS
<1>1. NoLocals \in Locals
  BY DEF NoLocals, Locals
<1>2. FileTypeOK
  BY <1>1 DEF FileInit, FileTypeOK
<1>3. \A f \in File, d \in FileDoc : ~ IsDoc(f, d)
  BY FileNames DEF FileInit, IsDoc, Holding
<1>4. CarriedInv /\ PutInv
  BY DEF FileInit, CarriedInv, Carried, PutInv, Putting
<1>5. ContentKept /\ ReadIsCurrent
  BY DEF FileInit, ContentKept, ReadIsCurrent, Stored
<1> QED BY <1>2, <1>3, <1>4, <1>5 DEF FileInv, DocInv, MovedInv, NameInv, IsMoved

\* The documents there are, once p has let go of its own, or has one that was there.
LEMMA DocsAfter ==
    ASSUME NEW p \in Process, \A q \in Process \ {p} : filePc'[q] = filePc[q] /\ reg'[q] = reg[q],
           NEW f \in File, NEW d \in FileDoc, IsDoc(f, d)',
           Holding(p, f)' => IsDoc(f, reg'[p].doc)
    PROVE  IsDoc(f, d) \/ d = files'[f]
<1>1. CASE d = files'[f]
  BY <1>1
<1>2. ASSUME NEW q \in Process, Holding(q, f)', reg'[q].doc = d PROVE IsDoc(f, d)
  <2>1. CASE q = p
    BY <1>2, <2>1
  <2>2. CASE q # p
    BY <1>2, <2>2 DEF Holding, IsDoc
  <2> QED BY <2>1, <2>2
<1> QED BY <1>1, <1>2 DEF IsDoc

\* A step that writes no document: p goes on with a document that is there, and puts
\* new objects only.
LEMMA QuietStep ==
    ASSUME FileInv, FileTypeOK', NEW p \in Process,
           UNCHANGED <<files, last, mixed>>,
           \A q \in Process \ {p} : filePc'[q] = filePc[q] /\ reg'[q] = reg[q],
           Carried(p)',
           \A f \in File : Holding(p, f)' => IsDoc(f, reg'[p].doc),
           filePc'[p] = "fetch" => reg'[p].doc = files[reg'[p].file],
           \A n \in Name : objects[n] # NoContent => objects'[n] = objects[n],
           Putting(p)' => /\ objects[reg'[p].data] = NoContent
                          /\ objects'[reg'[p].data] = reg'[p].content
                          /\ reg'[p].content # NoContent
    PROVE  FileInv'
<1>1. \A f \in File, d \in FileDoc : IsDoc(f, d)' => IsDoc(f, d)
  BY DocsAfter DEF IsDoc
<1>2. \A f \in File, d \in FileDoc : IsMoved(f, d)' => IsMoved(f, d)
  BY <1>1 DEF IsMoved
<1>3. CarriedInv'
  BY DEF FileInv, CarriedInv, Carried
<1>4. DocInv'
  BY <1>1 DEF FileInv, DocInv
<1>5. MovedInv'
  BY <1>2 DEF FileInv, MovedInv
<1>6. NameInv'
  <2> SUFFICES ASSUME NEW f \in File, NEW d \in FileDoc, IsMoved(f, d)', d.data \in Object
               PROVE  /\ objects'[d.data] # NoContent
                      /\ \A g \in File, e \in FileDoc : IsMoved(g, e)' /\ e.data = d.data => g = f
    BY DEF NameInv
  <2>1. IsMoved(f, d) /\ objects[d.data] # NoContent /\ d.data \in Name
    BY <1>2, FileNames DEF FileInv, NameInv
  <2> QED BY <2>1, <1>2 DEF FileInv, NameInv
<1>7. PutInv'
  <2>1. \A q \in Process \ {p} : Putting(q)' => Putting(q) /\ reg'[q] = reg[q]
    BY DEF Putting
  <2>2. \A q \in Process \ {p} : Putting(q)' =>
          /\ objects[reg'[q].data] # NoContent /\ objects'[reg'[q].data] = reg'[q].content
          /\ reg'[q].content # NoContent
    BY <2>1, FileNames DEF FileInv, PutInv, Putting
  <2>3. \A q \in Process \ {p}, f \in File, d \in FileDoc : Putting(q)' /\ IsMoved(f, d)' => d.data # reg'[q].data
    BY <2>1, <1>2 DEF FileInv, PutInv
  <2>4. \A f \in File, d \in FileDoc : Putting(p)' /\ IsMoved(f, d)' => d.data # reg'[p].data
    BY <1>2 DEF FileInv, NameInv, Putting
  <2>5. \A q, r \in Process : Putting(q)' /\ Putting(r)' /\ reg'[r].data = reg'[q].data => r = q
    BY <2>1, <2>2 DEF FileInv, PutInv
  <2> QED BY <2>2, <2>3, <2>4, <2>5 DEF PutInv, Putting
<1>8. ASSUME NEW f \in File \ mixed, NEW d \in FileDoc, IsDoc(f, d) PROVE ReadOf(d)' = ReadOf(d)
  <2>1. CASE d.storage = "database"
    BY <2>1 DEF ReadOf
  <2>2. CASE d.storage = "s3"
    <3>1. d.data \in Object /\ objects[d.data] # NoContent
      BY <2>2, <1>8 DEF FileInv, MovedInv, NameInv, IsMoved
    <3> QED BY <3>1, <2>2, FileNames DEF ReadOf
  <2> QED BY <2>1, <2>2, FileDocType
<1>9. ContentKept'
  <2> SUFFICES ASSUME NEW f \in File \ mixed, files[f] # NoFile PROVE ReadOf(files[f])' = last[f]
    BY DEF ContentKept, Stored, ReadOf
  <2>1. files[f] \in FileDoc /\ IsDoc(f, files[f]) /\ ReadOf(files[f]) = last[f]
    BY DEF FileInv, FileTypeOK, IsDoc, ContentKept, Stored
  <2> QED BY <2>1, <1>8 DEF ReadOf
<1>10. ReadIsCurrent'
  <2> SUFFICES ASSUME NEW q \in Process, filePc'[q] = "fetch", NEW f, f = reg'[q].file, f \notin mixed,
                      NEW d, d = reg'[q].doc
               PROVE  ReadOf(d)' = last[f]
    BY DEF ReadIsCurrent, ReadOf
  <2>1. f \in File /\ d \in FileDoc /\ Holding(q, f)'
    BY <1>3 DEF CarriedInv, Carried, Holding
  <2>2. IsDoc(f, d)
    BY <2>1, <1>1 DEF IsDoc
  <2>3. ReadOf(d) = last[f]
    <3>1. CASE q = p
      BY <3>1, <2>1, FileNames DEF FileInv, ContentKept, Stored
    <3>2. CASE q # p
      BY <3>2 DEF FileInv, ReadIsCurrent
    <3> QED BY <3>1, <3>2
  <2>4. ReadOf(d)' = ReadOf(d)
    BY <2>1, <2>2, <1>8
  <2> QED BY <2>3, <2>4
<1> QED BY <1>3, <1>4, <1>5, <1>6, <1>7, <1>9, <1>10 DEF FileInv

\* What a request is given by Goto.
LEMMA GotoIs ==
    ASSUME FileTypeOK, NEW p \in Process, NEW label, NEW locals, Goto(p, label, locals)
    PROVE  /\ filePc'[p] = label /\ reg'[p] = locals
           /\ \A q \in Process \ {p} : filePc'[q] = filePc[q] /\ reg'[q] = reg[q]
BY DEF Goto, FileTypeOK

LEMMA GotoTypes ==
    ASSUME FileTypeOK, NEW p \in Process, NEW locals \in Locals,
           NEW label \in {"idle", "insert", "write", "fetch", "next", "encode", "mark"}, Goto(p, label, locals)
    PROVE  /\ filePc' \in [Process -> {"idle", "insert", "write", "fetch", "next", "encode", "mark"}]
           /\ reg' \in [Process -> Locals]
BY DEF Goto, FileTypeOK

LEMMA NoLocalsType == NoLocals \in Locals /\ \A left \in SUBSET File : [NoLocals EXCEPT !.left = left] \in Locals
BY DEF NoLocals, Locals

\* Both ways to be done with a document.
LEMMA ProceedIs ==
    ASSUME FileTypeOK, NEW p \in Process, Finish(p) \/ \E left \in SUBSET File : Proceed(p, left)
    PROVE  /\ filePc'[p] \in {"idle", "next"}
           /\ \A q \in Process \ {p} : filePc'[q] = filePc[q] /\ reg'[q] = reg[q]
           /\ filePc' \in [Process -> {"idle", "insert", "write", "fetch", "next", "encode", "mark"}]
           /\ reg' \in [Process -> Locals]
           /\ Carried(p)' /\ ~ Putting(p)' /\ \A f \in File : ~ Holding(p, f)'
<1>1. PICK label \in {"idle", "next"}, locals \in Locals : Goto(p, label, locals)
  BY NoLocalsType DEF Finish, Proceed
<1>2. filePc'[p] = label /\ \A q \in Process \ {p} : filePc'[q] = filePc[q] /\ reg'[q] = reg[q]
  BY <1>1, GotoIs
<1>3. /\ filePc' \in [Process -> {"idle", "insert", "write", "fetch", "next", "encode", "mark"}]
      /\ reg' \in [Process -> Locals]
  BY <1>1, GotoTypes
<1>4. Carried(p)' /\ ~ Putting(p)' /\ \A f \in File : ~ Holding(p, f)'
  BY <1>2 DEF Carried, Putting, Holding
<1> QED BY <1>2, <1>3, <1>4

\* A request that is done, without having written anything.
LEMMA LeaveStep ==
    ASSUME FileInv, NEW p \in Process, UNCHANGED <<files, objects, setting, last, mixed>>,
           Finish(p) \/ \E left \in SUBSET File : Proceed(p, left)
    PROVE  FileInv'
<1>1. FileTypeOK
  BY DEF FileInv
<1>2. FileTypeOK'
  BY <1>1, ProceedIs DEF FileTypeOK
<1>3. filePc'[p] \in {"idle", "next"} /\ Carried(p)' /\ ~ Putting(p)' /\ \A f \in File : ~ Holding(p, f)'
  BY <1>1, ProceedIs
<1>4. \A q \in Process \ {p} : filePc'[q] = filePc[q] /\ reg'[q] = reg[q]
  BY <1>1, ProceedIs
<1> QED BY <1>2, <1>3, <1>4, QuietStep

\* An upload or a migration puts the content under a new name.
LEMMA CreateIs ==
    ASSUME FileTypeOK, NEW c \in Bytes, NEW data \in Name, CreateFileData(c, data)
    PROVE  /\ objects' \in [Name -> Bytes \cup {NoContent}]
           /\ \A n \in Name : objects[n] # NoContent => objects'[n] = objects[n]
           /\ setting = "database" => data = c
           /\ setting = "s3" => data \in Object
           /\ data \in Object => objects[data] = NoContent /\ objects'[data] = c
<1>1. CASE setting = "database" /\ data = c /\ UNCHANGED objects
  BY <1>1, FileNames DEF FileTypeOK
<1>2. CASE setting = "s3" /\ data \in NewObject /\ objects' = [objects EXCEPT ![data] = c]
  BY <1>2 DEF FileTypeOK, NewObject
<1> QED BY <1>1, <1>2 DEF CreateFileData

LEMMA EncodeStep == ASSUME FileInv, NEW p \in Process, Encode(p) PROVE FileInv'
<1>1. PICK c \in Content, data \in Name :
        /\ CreateFileData(c, data)
        /\ Goto(p, "insert", [NoLocals EXCEPT !.content = c, !.data = data,
                                              !.doc = [storage |-> setting, data |-> data]])
  BY DEF Encode
<1> DEFINE doc == [storage |-> setting, data |-> data]
           locals == [NoLocals EXCEPT !.content = c, !.data = data, !.doc = doc]
<1>2. FileTypeOK /\ UNCHANGED <<files, setting, last, mixed>> /\ setting \in {"database", "s3"}
  BY DEF FileInv, Encode, FileTypeOK
<1>3. c \in Bytes /\ c # NoContent
  BY FileNames
<1>4. doc \in FileDoc /\ locals \in Locals
  BY <1>2, <1>3 DEF FileDoc, Locals, NoLocals
<1>5. locals.content = c /\ locals.data = data /\ locals.doc = doc
  BY DEF NoLocals
<1>6. filePc'[p] = "insert" /\ reg'[p] = locals
      /\ \A q \in Process \ {p} : filePc'[q] = filePc[q] /\ reg'[q] = reg[q]
  BY <1>1, <1>2, GotoIs
<1>7. FileTypeOK'
  BY <1>1, <1>2, <1>3, <1>4, CreateIs, GotoTypes DEF FileTypeOK
<1>8. \A n \in Name : objects[n] # NoContent => objects'[n] = objects[n]
  BY <1>1, <1>2, <1>3, CreateIs
<1>9. /\ setting = "database" => data = c
      /\ setting = "s3" => data \in Object
      /\ data \in Object => objects[data] = NoContent /\ objects'[data] = c
  BY <1>1, <1>2, <1>3, CreateIs
<1> HIDE DEF locals
<1>10. Carried(p)'
  BY <1>2, <1>4, <1>5, <1>6, <1>9 DEF Carried
<1>11. \A f \in File : ~ Holding(p, f)'
  BY <1>6 DEF Holding
<1>12. Putting(p)' => /\ objects[reg'[p].data] = NoContent
                      /\ objects'[reg'[p].data] = reg'[p].content /\ reg'[p].content # NoContent
  BY <1>3, <1>5, <1>6, <1>9 DEF Putting
<1> QED BY <1>2, <1>6, <1>7, <1>8, <1>10, <1>11, <1>12, QuietStep

LEMMA EncodeToMoveStep == ASSUME FileInv, NEW p \in Process, EncodeToMove(p) PROVE FileInv'
<1>1. PICK data \in Name :
        CreateFileData(reg[p].content, data) /\ Goto(p, "mark", [reg[p] EXCEPT !.data = data])
  BY DEF EncodeToMove
<1> DEFINE locals == [reg[p] EXCEPT !.data = data]
<1>2. FileTypeOK /\ Carried(p) /\ UNCHANGED <<files, setting, last, mixed>> /\ filePc[p] = "encode"
  BY DEF FileInv, CarriedInv, EncodeToMove
<1>3. reg[p].content \in Bytes /\ reg[p].content # NoContent /\ reg[p].file \in File /\ reg[p].doc \in FileDoc
  BY <1>2, FileNames DEF Carried
<1>4. locals \in Locals /\ locals.content = reg[p].content /\ locals.data = data
      /\ locals.file = reg[p].file /\ locals.doc = reg[p].doc
  BY <1>2 DEF FileTypeOK, Locals
<1>5. filePc'[p] = "mark" /\ reg'[p] = locals
      /\ \A q \in Process \ {p} : filePc'[q] = filePc[q] /\ reg'[q] = reg[q]
  BY <1>1, <1>2, GotoIs
<1>6. FileTypeOK'
  BY <1>1, <1>2, <1>3, <1>4, CreateIs, GotoTypes DEF FileTypeOK
<1>7. \A n \in Name : objects[n] # NoContent => objects'[n] = objects[n]
  BY <1>1, <1>2, <1>3, CreateIs
<1>8. data \in Object => objects[data] = NoContent /\ objects'[data] = reg[p].content
  BY <1>1, <1>2, <1>3, CreateIs
<1> HIDE DEF locals
<1>9. Carried(p)'
  BY <1>2, <1>3, <1>4, <1>5 DEF Carried
<1>10. \A f \in File : Holding(p, f)' => IsDoc(f, reg'[p].doc)
  BY <1>2, <1>4, <1>5 DEF Holding, IsDoc
<1>11. Putting(p)' => /\ objects[reg'[p].data] = NoContent
                      /\ objects'[reg'[p].data] = reg'[p].content /\ reg'[p].content # NoContent
  BY <1>3, <1>4, <1>5, <1>8 DEF Putting
<1> QED BY <1>2, <1>5, <1>6, <1>7, <1>9, <1>10, <1>11, QuietStep

\* A request reads the document of a file.
LEMMA ReadDocStep ==
    ASSUME FileInv, NEW p \in Process, UNCHANGED <<files, objects, setting, last, mixed>>,
           NEW f \in File, files[f] # NoFile, NEW label \in {"write", "fetch", "encode"},
           NEW locals \in Locals, Goto(p, label, locals), locals.file = f, locals.doc = files[f],
           label = "write" => locals.content \in Content,
           label = "fetch" => files[f].storage = "s3",
           label = "encode" => /\ locals.content \in Bytes
                               /\ files[f].storage = "database" => locals.content = files[f].data
    PROVE  FileInv'
<1>1. FileTypeOK /\ files[f] \in FileDoc
  BY DEF FileInv, FileTypeOK
<1>2. filePc'[p] = label /\ reg'[p] = locals
      /\ \A q \in Process \ {p} : filePc'[q] = filePc[q] /\ reg'[q] = reg[q]
  BY <1>1, GotoIs
<1>3. FileTypeOK'
  BY <1>1, GotoTypes DEF FileTypeOK
<1>4. Carried(p)' /\ ~ Putting(p)'
  BY <1>1, <1>2 DEF Carried, Putting
<1>5. \A g \in File : Holding(p, g)' => IsDoc(g, reg'[p].doc)
  BY <1>2 DEF Holding, IsDoc
<1>6. filePc'[p] = "fetch" => reg'[p].doc = files[reg'[p].file]
  BY <1>2
<1> QED BY <1>2, <1>3, <1>4, <1>5, <1>6, QuietStep

LEMMA ReadForUpdateStep == ASSUME FileInv, NEW p \in Process, ReadForUpdate(p) PROVE FileInv'
<1>1. PICK f \in File, c \in Content :
        /\ Stored(f)
        /\ Goto(p, "write", [NoLocals EXCEPT !.file = f, !.content = c, !.doc = files[f]])
  BY DEF ReadForUpdate
<1> DEFINE locals == [NoLocals EXCEPT !.file = f, !.content = c, !.doc = files[f]]
<1>2. locals \in Locals /\ locals.file = f /\ locals.doc = files[f] /\ locals.content = c
  BY FileNames DEF NoLocals, Locals, FileInv, FileTypeOK
<1> HIDE DEF locals
<1>3. Goto(p, "write", locals)
  BY <1>1 DEF locals
<1> QED BY <1>1, <1>2, <1>3, ReadDocStep DEF ReadForUpdate, Stored

LEMMA ReadForGetStep == ASSUME FileInv, NEW p \in Process, ReadForGet(p) PROVE FileInv'
<1>1. PICK f \in File :
        Stored(f) /\ files[f].storage = "s3" /\ Goto(p, "fetch", [NoLocals EXCEPT !.file = f, !.doc = files[f]])
  BY DEF ReadForGet
<1> DEFINE locals == [NoLocals EXCEPT !.file = f, !.doc = files[f]]
<1>2. locals \in Locals /\ locals.file = f /\ locals.doc = files[f]
  BY DEF NoLocals, Locals, FileInv, FileTypeOK
<1> HIDE DEF locals
<1>3. Goto(p, "fetch", locals)
  BY <1>1 DEF locals
<1> QED BY <1>1, <1>2, <1>3, ReadDocStep DEF ReadForGet, Stored

LEMMA ReadToMoveStep == ASSUME FileInv, NEW p \in Process, ReadToMove(p) PROVE FileInv'
<1>1. UNCHANGED <<files, objects, setting, last, mixed>> /\ FileTypeOK /\ reg[p].left \in SUBSET File
  BY DEF FileInv, ReadToMove, FileTypeOK, Locals
<1>2. PICK f \in File :
        IF ~ Stored(f) \/ files[f].data = Empty THEN Proceed(p, reg[p].left \ {f})
        ELSE \/ /\ files[f].data \in Bytes
                /\ Goto(p, "encode", [reg[p] EXCEPT !.file = f, !.doc = files[f], !.content = files[f].data])
             \/ /\ files[f].data \in Object
                /\ \/ Goto(p, "encode", [reg[p] EXCEPT !.file = f, !.doc = files[f], !.content = Garbage])
                   \/ Finish(p)
  BY <1>1 DEF ReadToMove
<1>3. CASE Finish(p) \/ Proceed(p, reg[p].left \ {f})
  <2>1. reg[p].left \ {f} \in SUBSET File
    BY <1>1
  <2> QED BY <1>1, <1>3, <2>1, LeaveStep
<1>4. ASSUME Stored(f), NEW c \in Bytes, files[f].data \in Bytes => c = files[f].data,
             Goto(p, "encode", [reg[p] EXCEPT !.file = f, !.doc = files[f], !.content = c])
      PROVE  FileInv'
  <2> DEFINE locals == [reg[p] EXCEPT !.file = f, !.doc = files[f], !.content = c]
  <2>1. files[f] \in FileDoc
    BY <1>1, <1>4 DEF FileTypeOK, Stored
  <2>2. locals \in Locals /\ locals.file = f /\ locals.doc = files[f] /\ locals.content = c
    BY <1>1, <2>1 DEF FileTypeOK, Locals
  <2>3. files[f].storage = "database" => files[f].data \in Bytes
    BY <2>1, FileNames DEF FileInv, DocInv, IsDoc
  <2> HIDE DEF locals
  <2>4. Goto(p, "encode", locals)
    BY <1>4 DEF locals
  <2> QED BY <1>1, <1>4, <2>2, <2>3, <2>4, ReadDocStep DEF Stored
<1>5. Garbage \in Bytes
  BY DEF Bytes
<1>6. files[f].data \in Object => files[f].data \notin Bytes
  BY FileNames
<1> QED BY <1>2, <1>3, <1>4, <1>5, <1>6

\* A step that writes at most the document of f, the object o and what f was last given,
\* while no request takes a document.  The documents of f are then the old ones and the new.
OldOrNew(f, d) == IsDoc(f, d) \/ d = files'[f]

LEMMA WriterStep ==
    ASSUME FileInv, FileTypeOK', NEW f \in File, NEW o,
           \A q \in Process : \/ filePc'[q] = filePc[q] /\ reg'[q] = reg[q]
                              \/ filePc'[q] \in {"idle", "next"},
           \A g \in File \ {f} : files'[g] = files[g] /\ last'[g] = last[g],
           mixed' \in {mixed, mixed \cup {f}},
           \A d \in FileDoc : OldOrNew(f, d)
               => last'[f] \in Content /\ (d.storage = "database" => d.data \in Content),
           \A n \in Name : n # o => objects'[n] = objects[n],
           o \in Name => objects'[o] # NoContent,
           \A g \in File \ {f}, d \in FileDoc : IsMoved(g, d) => d.data # o \/ d.data \notin Object,
           \A q \in Process : Putting(q)' => reg'[q].data # o,
           \A d \in FileDoc : f \notin mixed' /\ OldOrNew(f, d) /\ d.storage = "s3" =>
               /\ d.data \in Object /\ files'[f] \in {NoFile, d} /\ ReadOf(d)' = last'[f]
               /\ \A e \in FileDoc : OldOrNew(f, e) /\ e.storage = "s3" => e = d,
           \A d \in FileDoc : f \notin mixed' /\ d = files'[f] => ReadOf(d)' = last'[f],
           \A d \in FileDoc : d = files'[f] /\ d.storage = "s3" /\ d.data \in Object /\ ~ IsDoc(f, d) =>
               /\ objects'[d.data] # NoContent
               /\ \A g \in File, e \in FileDoc : IsMoved(g, e) => e.data # d.data
               /\ \A q \in Process : Putting(q)' => reg'[q].data # d.data
    PROVE  FileInv'
<1>1. \A g \in File, q \in Process : Holding(q, g)' => Holding(q, g) /\ reg'[q] = reg[q]
  BY DEF Holding
<1>2. \A g \in File, d \in FileDoc : IsDoc(g, d)' => IsDoc(g, d) \/ (g = f /\ OldOrNew(f, d))
  BY <1>1 DEF IsDoc, OldOrNew
<1>3. \A q \in Process : Putting(q)' => Putting(q) /\ reg'[q] = reg[q]
  BY DEF Putting
<1>4. CarriedInv'
  BY DEF FileInv, CarriedInv, Carried
<1>5. \A g \in File, d \in FileDoc : IsDoc(g, d)' => IF g = f THEN OldOrNew(f, d) ELSE IsDoc(g, d)
  BY <1>2 DEF OldOrNew
<1>6. DocInv'
  <2> SUFFICES ASSUME NEW g \in File, NEW d \in FileDoc, IsDoc(g, d)'
               PROVE  last'[g] \in Content /\ (d.storage = "database" => d.data \in Content)
    BY DEF DocInv
  <2> QED BY <1>5 DEF FileInv, DocInv
<1>7. MovedInv'
  <2> SUFFICES ASSUME NEW g \in File \ mixed', NEW d \in FileDoc, IsMoved(g, d)'
               PROVE  /\ d.data \in Object /\ files'[g] \in {NoFile, d}
                      /\ \A e \in FileDoc : IsMoved(g, e)' => e = d
    BY DEF MovedInv
  <2>1. CASE g = f
    BY <2>1, <1>5 DEF IsMoved
  <2>2. CASE g # f
    BY <2>2, <1>5 DEF FileInv, MovedInv, IsMoved
  <2> QED BY <2>1, <2>2
\* The objects named after the step were named, or are named by f alone.
<1>8. ASSUME NEW g \in File, NEW d \in FileDoc, IsMoved(g, d)', d.data \in Object
      PROVE  \/ IsMoved(g, d)
             \/ g = f /\ d = files'[f] /\ ~ IsDoc(f, d) /\ d.storage = "s3"
  BY <1>5, <1>8 DEF IsMoved, OldOrNew
<1>9. NameInv'
  <2> SUFFICES ASSUME NEW g \in File, NEW d \in FileDoc, IsMoved(g, d)', d.data \in Object
               PROVE  /\ objects'[d.data] # NoContent
                      /\ \A h \in File, e \in FileDoc : IsMoved(h, e)' /\ e.data = d.data => h = g
    BY DEF NameInv
  <2>1. objects'[d.data] # NoContent
    BY <1>8, FileNames DEF FileInv, NameInv
  <2>2. ASSUME NEW h \in File, NEW e \in FileDoc, IsMoved(h, e)', e.data = d.data PROVE h = g
    <3>1. IsMoved(g, d) \/ (g = f /\ d = files'[f] /\ ~ IsDoc(f, d) /\ d.storage = "s3")
      BY <1>8
    <3>2. IsMoved(h, e) \/ (h = f /\ e = files'[f] /\ ~ IsDoc(f, e) /\ e.storage = "s3")
      BY <1>8, <2>2
    <3> QED BY <3>1, <3>2, <2>2 DEF FileInv, NameInv
  <2> QED BY <2>1, <2>2
<1>10. PutInv'
  <2> SUFFICES ASSUME NEW q \in Process, Putting(q)'
               PROVE  /\ objects'[reg'[q].data] = reg'[q].content /\ reg'[q].content # NoContent
                      /\ \A g \in File, d \in FileDoc : IsMoved(g, d)' => d.data # reg'[q].data
                      /\ \A r \in Process : Putting(r)' /\ reg'[r].data = reg'[q].data => r = q
    BY DEF PutInv
  <2>1. Putting(q) /\ reg'[q] = reg[q] /\ reg[q].data \in Object /\ reg[q].data # o
    BY <1>3 DEF Putting
  <2>2. objects'[reg[q].data] = reg[q].content /\ reg[q].content # NoContent
    BY <2>1, FileNames DEF FileInv, PutInv
  <2>3. ASSUME NEW g \in File, NEW d \in FileDoc, IsMoved(g, d)', d.data = reg[q].data PROVE FALSE
    <3>1. IsMoved(g, d) \/ (g = f /\ d = files'[f] /\ ~ IsDoc(f, d) /\ d.storage = "s3")
      BY <1>8, <2>1, <2>3
    <3>2. ~ IsMoved(g, d)
      BY <2>1, <2>3 DEF FileInv, PutInv
    <3> QED BY <3>1, <3>2, <2>1, <2>3
  <2>4. \A r \in Process : Putting(r)' /\ reg'[r].data = reg'[q].data => r = q
    BY <2>1, <1>3 DEF FileInv, PutInv
  <2> QED BY <2>1, <2>2, <2>3, <2>4
\* What the other files read as.
<1>11. ASSUME NEW g \in File \ mixed, g # f, NEW d \in FileDoc, IsDoc(g, d) PROVE ReadOf(d)' = ReadOf(d)
  <2>1. CASE d.storage = "database"
    BY <2>1 DEF ReadOf
  <2>2. CASE d.storage = "s3"
    <3>1. d.data \in Object /\ d.data # o
      BY <2>2, <1>11 DEF FileInv, MovedInv, IsMoved
    <3> QED BY <3>1, <2>2, FileNames DEF ReadOf
  <2> QED BY <2>1, <2>2, FileDocType
<1>12. ContentKept'
  <2> SUFFICES ASSUME NEW g \in File \ mixed', NEW d, d = files'[g], d # NoFile PROVE ReadOf(d)' = last'[g]
    BY DEF ContentKept, Stored, ReadOf
  <2>1. d \in FileDoc
    BY DEF FileTypeOK
  <2>2. CASE g = f
    BY <2>1, <2>2
  <2>3. CASE g # f
    <3>1. IsDoc(g, d) /\ ReadOf(d) = last[g] /\ g \notin mixed
      BY <2>3 DEF FileInv, ContentKept, Stored, IsDoc
    <3> QED BY <2>1, <2>3, <3>1, <1>11
  <2> QED BY <2>2, <2>3
<1>13. ReadIsCurrent'
  <2> SUFFICES ASSUME NEW q \in Process, filePc'[q] = "fetch", NEW g, g = reg'[q].file, g \notin mixed',
                      NEW d, d = reg'[q].doc
               PROVE  ReadOf(d)' = last'[g]
    BY DEF ReadIsCurrent, ReadOf
  <2>1. g \in File /\ d \in FileDoc /\ d.storage = "s3" /\ reg'[q] = reg[q] /\ filePc[q] = "fetch"
    BY <1>4 DEF CarriedInv, Carried
  <2>2. IsDoc(g, d)
    BY <2>1 DEF IsDoc, Holding
  <2>3. CASE g = f
    BY <2>1, <2>2, <2>3 DEF OldOrNew
  <2>4. CASE g # f
    <3>1. ReadOf(d) = last[g] /\ g \notin mixed
      BY <2>1, <2>4 DEF FileInv, ReadIsCurrent
    <3> QED BY <2>1, <2>2, <2>4, <3>1, <1>11
  <2> QED BY <2>3, <2>4
<1> QED BY <1>4, <1>6, <1>7, <1>9, <1>10, <1>12, <1>13 DEF FileInv

\* The new document of an upload: nobody has read its file or named its object.
LEMMA InsertStep == ASSUME FileInv, NEW p \in Process, Insert(p) PROVE FileInv'
<1>1. PICK f \in File :
        last[f] = NoContent /\ files' = [files EXCEPT ![f] = reg[p].doc]
        /\ last' = [last EXCEPT ![f] = reg[p].content]
  BY DEF Insert
<1>2. /\ FileTypeOK /\ Carried(p) /\ filePc[p] = "insert" /\ Finish(p)
      /\ UNCHANGED <<objects, setting, mixed>>
  BY DEF FileInv, CarriedInv, Insert
<1>3. PICK new \in FileDoc :
        /\ new = reg[p].doc /\ reg[p].content \in Content /\ new.data = reg[p].data
        /\ IF new.storage = "s3" THEN reg[p].data \in Object ELSE reg[p].data = reg[p].content
  BY <1>2 DEF Carried
<1>4. /\ files'[f] = new /\ last'[f] = reg[p].content
      /\ \A g \in File \ {f} : files'[g] = files[g] /\ last'[g] = last[g]
  BY <1>1, <1>2, <1>3 DEF FileTypeOK
<1>5. \A q \in Process : \/ q # p /\ filePc'[q] = filePc[q] /\ reg'[q] = reg[q]
                         \/ q = p /\ filePc'[q] \in {"idle", "next"}
  BY <1>2, ProceedIs
<1>6. FileTypeOK'
  BY <1>1, <1>2, <1>3, FileNames, ProceedIs DEF FileTypeOK
<1>7. \A d \in FileDoc : ~ IsDoc(f, d)
  BY <1>1, FileNames DEF FileInv, DocInv
<1>8. \A d \in FileDoc : OldOrNew(f, d) => d = new
  BY <1>4, <1>7 DEF OldOrNew
<1>9. new.storage = "s3" => /\ objects'[new.data] = reg[p].content /\ reg[p].content # NoContent
                            /\ \A g \in File, e \in FileDoc : IsMoved(g, e) => e.data # new.data
                            /\ \A q \in Process \ {p} : Putting(q) => reg[q].data # new.data
  BY <1>2, <1>3 DEF FileInv, PutInv, Putting
<1>10. \A q \in Process : Putting(q)' => q # p /\ Putting(q) /\ reg'[q] = reg[q]
  BY <1>5 DEF Putting
<1>11. ReadOf(new)' = last'[f]
  BY <1>3, <1>4, <1>9, FileDocType DEF ReadOf
<1>12. \A q \in Process : Putting(q)' => reg'[q].data # NoContent
  BY FileNames DEF Putting
<1>13. \A d \in FileDoc : d.data # NoContent
  BY FileNames, FileDocType
<1>14. \A d \in FileDoc : OldOrNew(f, d)
         => last'[f] \in Content /\ (d.storage = "database" => d.data \in Content)
  BY <1>3, <1>4, <1>8
<1>15. \A d \in FileDoc : OldOrNew(f, d) /\ d.storage = "s3" =>
         /\ d.data \in Object /\ files'[f] \in {NoFile, d} /\ ReadOf(d)' = last'[f]
         /\ \A e \in FileDoc : OldOrNew(f, e) /\ e.storage = "s3" => e = d
  BY <1>3, <1>4, <1>8, <1>11
<1>16. \A d \in FileDoc : d = files'[f] => ReadOf(d)' = last'[f]
  BY <1>4, <1>11
<1>17. \A d \in FileDoc : d = files'[f] /\ d.storage = "s3" =>
         /\ objects'[d.data] # NoContent
         /\ \A g \in File, e \in FileDoc : IsMoved(g, e) => e.data # d.data
         /\ \A q \in Process : Putting(q)' => reg'[q].data # d.data
  BY <1>4, <1>9, <1>10
<1>18. NoContent \notin Name
  BY FileNames
<1> QED BY <1>2, <1>4, <1>5, <1>6, <1>12, <1>13, <1>14, <1>15, <1>16, <1>17, <1>18, WriterStep

\* The text of a document is replaced where it lies; a document that was moved since is mixed.
LEMMA WriteDataStep == ASSUME FileInv, NEW p \in Process, WriteData(p) PROVE FileInv'
<1>1. PICK f : f = reg[p].file
  OBVIOUS
<1>2. /\ FileTypeOK /\ Carried(p) /\ filePc[p] = "write" /\ Finish(p) /\ UNCHANGED <<objects, setting>>
      /\ f \in File /\ reg[p].content \in Content
  BY <1>1 DEF FileInv, CarriedInv, Carried, WriteData
<1>3. CASE ~ Stored(f)
  <2>1. UNCHANGED <<files, last, mixed>>
    BY <1>1, <1>3 DEF WriteData
  <2> QED BY <2>1, <1>2, LeaveStep
<1>4. CASE Stored(f)
  <2>1. /\ files' = [files EXCEPT ![f].data = reg[p].content]
        /\ last' = [last EXCEPT ![f] = reg[p].content]
        /\ IF files[f].storage = "database" THEN UNCHANGED mixed ELSE mixed' = mixed \cup {f}
    BY <1>1, <1>4 DEF WriteData, Mix
  <2>2. files[f] \in FileDoc
    BY <1>2, <1>4 DEF FileTypeOK, Stored
  <2>3. PICK new \in FileDoc : new = [files[f] EXCEPT !.data = reg[p].content]
    BY <1>2, <2>2, FileNames DEF FileDoc
  <2>4. new.data = reg[p].content /\ new.storage = files[f].storage
    BY <2>2, <2>3 DEF FileDoc
  <2>5. /\ files'[f] = new /\ last'[f] = reg[p].content
        /\ \A g \in File \ {f} : files'[g] = files[g] /\ last'[g] = last[g]
    BY <1>2, <2>1, <2>3 DEF FileTypeOK
  <2>6. files' = [files EXCEPT ![f] = new]
    BY <2>1, <2>3
  <2>7. FileTypeOK'
    BY <1>2, <2>1, <2>6, FileNames, ProceedIs DEF FileTypeOK
  <2>8. \A q \in Process : \/ q # p /\ filePc'[q] = filePc[q] /\ reg'[q] = reg[q]
                           \/ q = p /\ filePc'[q] \in {"idle", "next"}
    BY <1>2, ProceedIs
  <2>9. \A d \in FileDoc : OldOrNew(f, d) => IsDoc(f, d) \/ d = new
    BY <2>5 DEF OldOrNew
  <2>10. \A d \in FileDoc : OldOrNew(f, d)
           => last'[f] \in Content /\ (d.storage = "database" => d.data \in Content)
    BY <1>2, <2>4, <2>5, <2>9 DEF FileInv, DocInv
  \* Nobody has read the document of f as moved: it is not, or it is mixed now.
  <2>11. ASSUME f \notin mixed', NEW d \in FileDoc, OldOrNew(f, d), d.storage = "s3" PROVE FALSE
    <3>1. files[f].storage = "database" /\ f \notin mixed
      BY <2>1, <2>11
    <3>2. IsMoved(f, d)
      BY <2>4, <2>9, <2>11, <3>1 DEF IsMoved
    <3>3. files[f] = d
      BY <1>2, <1>4, <3>1, <3>2 DEF FileInv, MovedInv, Stored
    <3> QED BY <3>1, <3>3, <2>11
  <2>12. ASSUME f \notin mixed', NEW d \in FileDoc, d = files'[f] PROVE ReadOf(d)' = last'[f]
    <3>1. new.storage = "database"
      BY <2>1, <2>2, <2>4, <2>12, FileDocType
    <3> QED BY <2>4, <2>5, <2>12, <3>1 DEF ReadOf
  <2>13. \A d \in FileDoc : d = files'[f] => d.data \notin Object
    BY <1>2, <2>4, <2>5, FileNames
  <2>14. NoContent \notin Name /\ \A d \in FileDoc : d.data # NoContent
    BY FileNames, FileDocType
  <2>15. \A q \in Process : Putting(q)' => reg'[q].data # NoContent
    BY FileNames DEF Putting
  <2>16. mixed' \in {mixed, mixed \cup {f}}
    BY <2>1
  <2> QED BY <1>2, <2>5, <2>7, <2>8, <2>10, <2>11, <2>12, <2>13, <2>14, <2>15, <2>16, WriterStep
<1> QED BY <1>3, <1>4

\* The object a document names is overwritten.
LEMMA WriteObjectStep == ASSUME FileInv, NEW p \in Process, WriteObject(p) PROVE FileInv'
<1>1. PICK f, doc, o : f = reg[p].file /\ doc = reg[p].doc /\ o = doc.data
  OBVIOUS
<1>2. /\ FileTypeOK /\ Carried(p) /\ filePc[p] = "write" /\ Finish(p) /\ UNCHANGED <<files, setting>>
      /\ f \in File /\ doc \in FileDoc /\ reg[p].content \in Content /\ o \in Name /\ IsMoved(f, doc)
  BY <1>1, FileDocType DEF FileInv, CarriedInv, Carried, WriteObject, IsMoved, IsDoc, Holding
<1>3. /\ objects' = [objects EXCEPT ![o] = reg[p].content]
      /\ last' = [last EXCEPT ![f] = reg[p].content]
      /\ IF files[f] \in {NoFile, doc} THEN UNCHANGED mixed ELSE mixed' = mixed \cup {f}
  BY <1>1 DEF WriteObject, Target, Unchanged, Mix
<1>4. /\ last'[f] = reg[p].content /\ objects'[o] = reg[p].content
      /\ \A n \in Name : n # o => objects'[n] = objects[n]
      /\ \A g \in File \ {f} : files'[g] = files[g] /\ last'[g] = last[g]
  BY <1>2, <1>3 DEF FileTypeOK
<1>5. FileTypeOK'
  BY <1>2, <1>3, FileNames, ProceedIs DEF FileTypeOK
<1>6. \A q \in Process : \/ q # p /\ filePc'[q] = filePc[q] /\ reg'[q] = reg[q]
                         \/ q = p /\ filePc'[q] \in {"idle", "next"}
  BY <1>2, ProceedIs
<1>7. \A d \in FileDoc : OldOrNew(f, d) => IsDoc(f, d)
  BY <1>2 DEF OldOrNew, IsDoc
<1>8. \A d \in FileDoc : OldOrNew(f, d)
        => last'[f] \in Content /\ (d.storage = "database" => d.data \in Content)
  BY <1>2, <1>4, <1>7 DEF FileInv, DocInv
<1>9. \A g \in File \ {f}, d \in FileDoc : IsMoved(g, d) => d.data # o \/ d.data \notin Object
  BY <1>1, <1>2 DEF FileInv, NameInv
<1>10. \A q \in Process : Putting(q)' => reg'[q].data # o
  BY <1>1, <1>2, <1>6 DEF FileInv, PutInv, Putting
<1>11. ASSUME f \notin mixed'
       PROVE  f \notin mixed /\ files[f] \in {NoFile, doc} /\ o \in Object
              /\ \A d \in FileDoc : OldOrNew(f, d) /\ d.storage = "s3" => d = doc
  <2>1. f \notin mixed /\ files[f] \in {NoFile, doc}
    BY <1>3, <1>11
  <2> QED BY <2>1, <1>1, <1>2, <1>7 DEF FileInv, MovedInv, IsMoved
<1>12. ReadOf(doc)' = last'[f]
  BY <1>1, <1>2, <1>4 DEF ReadOf, IsMoved
<1>13. \A d \in FileDoc : f \notin mixed' /\ OldOrNew(f, d) /\ d.storage = "s3" =>
         /\ d.data \in Object /\ files'[f] \in {NoFile, d} /\ ReadOf(d)' = last'[f]
         /\ \A e \in FileDoc : OldOrNew(f, e) /\ e.storage = "s3" => e = d
  BY <1>1, <1>2, <1>11, <1>12
<1>14. \A d \in FileDoc : f \notin mixed' /\ d = files'[f] => ReadOf(d)' = last'[f]
  BY <1>2, <1>11, <1>12, FileNames
<1>15. \A d \in FileDoc : d = files'[f] => IsDoc(f, d)
  BY <1>2 DEF IsDoc
<1>16. mixed' \in {mixed, mixed \cup {f}} /\ objects'[o] # NoContent
  BY <1>2, <1>3, <1>4, FileNames
<1> QED BY <1>2, <1>4, <1>5, <1>6, <1>8, <1>9, <1>10, <1>13, <1>14, <1>15, <1>16, WriterStep

\* A document goes, its object stays for those who have read its name.
LEMMA DeleteStep == ASSUME FileInv, Delete PROVE FileInv'
<1>1. PICK f \in File : Stored(f) /\ files' = [files EXCEPT ![f] = NoFile] /\ objects' = objects
  BY DEF Delete, AfterDelete
<1>2. FileTypeOK /\ UNCHANGED <<setting, filePc, reg, last, mixed>>
  BY DEF FileInv, Delete
<1>3. files'[f] = NoFile /\ \A g \in File \ {f} : files'[g] = files[g]
  BY <1>1, <1>2 DEF FileTypeOK
<1>4. FileTypeOK'
  BY <1>1, <1>2 DEF FileTypeOK
<1>5. \A g \in File, d \in FileDoc : IsDoc(g, d)' => IsDoc(g, d)
  BY <1>2, <1>3, FileNames DEF IsDoc, Holding
<1>6. \A g \in File, d \in FileDoc : IsMoved(g, d)' => IsMoved(g, d)
  BY <1>5 DEF IsMoved
<1>7. CarriedInv' /\ DocInv'
  BY <1>2, <1>5 DEF FileInv, CarriedInv, Carried, DocInv
<1>8. MovedInv'
  BY <1>2, <1>3, <1>6 DEF FileInv, MovedInv
<1>9. NameInv'
  BY <1>1, <1>6 DEF FileInv, NameInv
<1>10. PutInv'
  BY <1>1, <1>2, <1>6 DEF FileInv, PutInv, Putting
<1>11. ContentKept' /\ ReadIsCurrent'
  BY <1>1, <1>2, <1>3 DEF FileInv, ContentKept, ReadIsCurrent, Stored, ReadOf
<1> QED BY <1>4, <1>7, <1>8, <1>9, <1>10, <1>11 DEF FileInv

\* A migration marks a document as moved: it is the one it encoded, or mixed now.
LEMMA MarkStep == ASSUME FileInv, NEW p \in Process, Mark(p) PROVE FileInv'
<1>1. PICK f, doc : f = reg[p].file /\ doc = reg[p].doc
  OBVIOUS
<1>2. /\ FileTypeOK /\ Carried(p) /\ filePc[p] = "mark" /\ UNCHANGED <<objects, setting, last>>
      /\ f \in File /\ doc \in FileDoc /\ IsDoc(f, doc)
      /\ reg[p].content \in Bytes /\ reg[p].data \in Name
      /\ doc.storage = "database" => reg[p].content = doc.data
      /\ Proceed(p, reg[p].left \ {f}) /\ reg[p].left \ {f} \in SUBSET File
  BY <1>1 DEF FileInv, CarriedInv, Carried, Mark, IsDoc, Holding, FileTypeOK, Locals
<1>3. CASE ~ Stored(f)
  <2>1. files' = files /\ mixed' = mixed
    BY <1>1, <1>2, <1>3 DEF Mark, Stored, FileTypeOK
  <2> QED BY <2>1, <1>2, LeaveStep
<1>4. CASE Stored(f)
  <2>1. PICK new \in FileDoc : new = [storage |-> "s3", data |-> reg[p].data]
    BY <1>2 DEF FileDoc
  <2>2. /\ files' = [files EXCEPT ![f] = new]
        /\ IF files[f] \in {NoFile, doc} /\ doc.storage = "database" /\ reg[p].data \in Object
           THEN UNCHANGED mixed ELSE mixed' = mixed \cup {f}
    BY <1>1, <1>4, <2>1 DEF Mark, Marked, Mix, Unchanged
  <2>3. new.storage = "s3" /\ new.data = reg[p].data
    BY <2>1
  <2>4. files'[f] = new /\ \A g \in File \ {f} : files'[g] = files[g] /\ last'[g] = last[g]
    BY <1>2, <2>2 DEF FileTypeOK
  <2>5. mixed' \in {mixed, mixed \cup {f}}
    BY <2>2
  <2>6. FileTypeOK'
    BY <1>2, <2>2, <2>5, ProceedIs DEF FileTypeOK
  <2>7. \A q \in Process : \/ q # p /\ filePc'[q] = filePc[q] /\ reg'[q] = reg[q]
                           \/ q = p /\ filePc'[q] \in {"idle", "next"}
    BY <1>2, ProceedIs
  <2>8. \A q \in Process : Putting(q)' => q # p /\ Putting(q) /\ reg'[q] = reg[q]
    BY <2>7 DEF Putting
  <2>9. \A d \in FileDoc : OldOrNew(f, d) => IsDoc(f, d) \/ d = new
    BY <2>4 DEF OldOrNew
  <2>10. \A d \in FileDoc : OldOrNew(f, d)
           => last'[f] \in Content /\ (d.storage = "database" => d.data \in Content)
    BY <1>2, <2>3, <2>9 DEF FileInv, DocInv
  <2>11. new.data \in Object =>
           /\ objects'[new.data] = reg[p].content /\ reg[p].content # NoContent
           /\ \A g \in File, e \in FileDoc : IsMoved(g, e) => e.data # new.data
           /\ \A q \in Process : Putting(q)' => reg'[q].data # new.data
    BY <1>2, <2>3, <2>8 DEF FileInv, PutInv, Putting
  <2>12. ASSUME f \notin mixed'
         PROVE  /\ f \notin mixed /\ files[f] = doc /\ doc.storage = "database" /\ new.data \in Object
                /\ \A d \in FileDoc : OldOrNew(f, d) /\ d.storage = "s3" => d = new
    <3>1. f \notin mixed /\ files[f] = doc /\ doc.storage = "database" /\ new.data \in Object
      BY <1>4, <2>2, <2>3, <2>12 DEF Stored
    <3>2. ASSUME NEW d \in FileDoc, IsMoved(f, d) PROVE FALSE
      <4>1. files[f] = d /\ d.storage = "s3"
        BY <1>2, <1>4, <3>1, <3>2 DEF FileInv, MovedInv, Stored, IsMoved
      <4> QED BY <4>1, <3>1
    <3> QED BY <3>1, <3>2, <2>9 DEF IsMoved
  <2>13. f \notin mixed' => ReadOf(new)' = last'[f]
    <3>1. f \notin mixed' => doc.data = last[f]
      BY <1>2, <1>4, <2>12 DEF FileInv, ContentKept, ReadOf
    <3> QED BY <3>1, <1>2, <2>3, <2>11, <2>12 DEF ReadOf
  <2>14. \A d \in FileDoc : f \notin mixed' /\ OldOrNew(f, d) /\ d.storage = "s3" =>
           /\ d.data \in Object /\ files'[f] \in {NoFile, d} /\ ReadOf(d)' = last'[f]
           /\ \A e \in FileDoc : OldOrNew(f, e) /\ e.storage = "s3" => e = d
    BY <2>4, <2>12, <2>13
  <2>15. \A d \in FileDoc : f \notin mixed' /\ d = files'[f] => ReadOf(d)' = last'[f]
    BY <2>4, <2>13
  <2>16. \A d \in FileDoc : d = files'[f] /\ d.data \in Object =>
           /\ objects'[d.data] # NoContent
           /\ \A g \in File, e \in FileDoc : IsMoved(g, e) => e.data # d.data
           /\ \A q \in Process : Putting(q)' => reg'[q].data # d.data
    BY <2>4, <2>11
  <2>17. NoContent \notin Name /\ \A d \in FileDoc : d.data # NoContent
    BY FileNames, FileDocType
  <2>18. \A q \in Process : Putting(q)' => reg'[q].data # NoContent
    BY FileNames DEF Putting
  <2> QED BY <1>2, <2>4, <2>5, <2>6, <2>7, <2>10, <2>14, <2>15, <2>16, <2>17, <2>18, WriterStep
<1> QED BY <1>3, <1>4

LEMMA FileStep == FileInv /\ [FileNext]_fileVars => FileInv'
<1> SUFFICES ASSUME FileInv, [FileNext]_fileVars PROVE FileInv'
  OBVIOUS
<1>1. FileTypeOK
  BY DEF FileInv
<1>2. ASSUME NEW p \in Process, FetchObject(p) \/ StartMigration(p) \/ Swallow(p) \/ RequestFails(p)
      PROVE  FileInv'
  <2>1. UNCHANGED <<files, objects, setting, last, mixed>>
    BY <1>2 DEF FetchObject, StartMigration, Swallow, RequestFails
  <2>2. Finish(p) \/ \E left \in SUBSET File : Proceed(p, left)
    <3>1. reg[p].left \ {reg[p].file} \in SUBSET File
      BY <1>1 DEF FileTypeOK, Locals
    <3> QED BY <3>1, <1>2 DEF FetchObject, StartMigration, Swallow, RequestFails
  <2> QED BY <2>1, <2>2, LeaveStep
<1>3. CASE UNCHANGED <<files, objects, filePc, reg, last, mixed>> /\ setting' \in {"database", "s3"}
  <2>1. FileTypeOK'
    BY <1>1, <1>3 DEF FileTypeOK
  <2>2. CarriedInv' /\ DocInv' /\ MovedInv'
    BY <1>3 DEF FileInv, CarriedInv, Carried, DocInv, MovedInv, IsMoved, IsDoc, Holding
  <2>3. NameInv' /\ PutInv'
    BY <1>3 DEF FileInv, NameInv, PutInv, Putting, IsMoved, IsDoc, Holding
  <2>4. ContentKept' /\ ReadIsCurrent'
    BY <1>3 DEF FileInv, ContentKept, ReadIsCurrent, ReadOf, Stored
  <2> QED BY <2>1, <2>2, <2>3, <2>4 DEF FileInv
<1>4. CASE ChangeSetting
  BY <1>3, <1>4 DEF ChangeSetting
<1>5. CASE UNCHANGED fileVars
  BY <1>1, <1>3, <1>5 DEF fileVars, FileTypeOK
<1>6. ASSUME NEW p \in Process,
             \/ Encode(p) \/ Insert(p) \/ ReadForUpdate(p) \/ WriteData(p) \/ WriteObject(p)
             \/ ReadForGet(p) \/ ReadToMove(p) \/ EncodeToMove(p) \/ Mark(p)
      PROVE  FileInv'
  BY <1>6, EncodeStep, InsertStep, ReadForUpdateStep, WriteDataStep, WriteObjectStep, ReadForGetStep,
     ReadToMoveStep, EncodeToMoveStep, MarkStep
<1> QED BY <1>2, <1>4, <1>5, <1>6, DeleteStep DEF FileNext

\* Documents, objects and the local variables of the requests have their types.
THEOREM FileTypeCorrect == FileSpec => []FileTypeOK
<1>1. FileInv => FileTypeOK
  BY DEF FileInv
<1> QED BY <1>1, FileInitial, FileStep, PTL DEF FileSpec

\* However many requests upload, update, move and delete files, and wherever calls fail,
\* a file whose document was not mixed reads as what was last stored.
THEOREM ContentCorrect == FileSpec => []ContentKept
<1>1. FileInv => ContentKept
  BY DEF FileInv
<1> QED BY <1>1, FileInitial, FileStep, PTL DEF FileSpec

\* A download that has read the document of such a file finds what was last stored for it,
\* though the file was updated or deleted since.
THEOREM DownloadCorrect == FileSpec => []ReadIsCurrent
<1>1. FileInv => ReadIsCurrent
  BY DEF FileInv
<1> QED BY <1>1, FileInitial, FileStep, PTL DEF FileSpec
=============================================================================
