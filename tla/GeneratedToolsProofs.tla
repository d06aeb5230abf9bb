------------------------- MODULE GeneratedToolsProofs -------------------------
(* Theorems about the names of generated tools and about the arguments of their *)
(* calls, for any documents.                                                  *)
EXTENDS GeneratedTools, NaturalRecursion, SequenceTheorems, FunctionTheorems,
        FiniteSetTheorems, TLAPS

\* The words of names.
Words == STRING \union {"argocd"} \union {Numeral[n] : n \in Nat}

-----------------------------------------------------------------------------
(* Lists of endpoints and names *)

\* ParseSpec's list has as many endpoints as there are operations, each of them
\* once, and every endpoint has the operationId and the path of an operation.
LEMMA ListOfEndpoints ==
  ASSUME doc \in Docs, endpoints \in ParseSpec
  PROVE  /\ Cardinality(doc) \in Nat
         /\ DOMAIN endpoints = 1 .. Cardinality(doc)
         /\ Len(endpoints) = Cardinality(doc)
         /\ \A j, k \in DOMAIN endpoints : endpoints[j] = endpoints[k] => j = k
         /\ \A k \in DOMAIN endpoints : endpoints[k] \in Parsed
         /\ \A k \in DOMAIN endpoints : \E op \in doc :
              endpoints[k].operationId = op.operationId /\ endpoints[k].path = op.path
<1>1. Cardinality(doc) \in Nat
  BY ToolsAssumption, FS_CardinalityType
<1>2. endpoints \in [1 .. Cardinality(doc) -> Parsed] /\ Sorted(endpoints)
  BY DEF ParseSpec
<1>3. endpoints \in Seq(Parsed)
  BY <1>1, <1>2, SeqDef
<1>4. Len(endpoints) = Cardinality(doc)
  BY <1>1, <1>2, <1>3, LenProperties
<1>5. ASSUME NEW k \in DOMAIN endpoints
      PROVE  \E op \in doc : endpoints[k].operationId = op.operationId /\ endpoints[k].path = op.path
  <2>1. PICK op \in doc : endpoints[k] = ParseOperation(op)
    BY <1>2 DEF Parsed
  <2>2. ParseOperation(op).operationId = op.operationId /\ ParseOperation(op).path = op.path
    BY DEF ParseOperation
  <2> QED BY <2>1, <2>2
<1> QED BY <1>1, <1>2, <1>4, <1>5 DEF Sorted

\* It has all of them.
LEMMA ListIsComplete ==
  ASSUME doc \in Docs, endpoints \in ParseSpec
  PROVE  Parsed = Range(endpoints)
<1> DEFINE N == Cardinality(doc)
           parse == [op \in doc |-> ParseOperation(op)]
<1>1. parse \in Surjection(doc, Parsed)
  BY Fun_IsSurj DEF Parsed
<1>2. IsFiniteSet(Parsed) /\ Cardinality(Parsed) <= N
  BY <1>1, ToolsAssumption, FS_Surjection
<1>3. Cardinality(Parsed) \in Nat /\ N \in Nat
  BY <1>2, ListOfEndpoints, FS_CardinalityType
<1>4. endpoints \in [1 .. N -> Parsed]
  BY DEF ParseSpec
<1>5. endpoints \in Injection(1 .. N, Parsed)
  BY <1>4, ListOfEndpoints, Fun_IsInj
<1>6. Cardinality(1 .. N) = N
  BY <1>3, FS_Interval
<1>7. endpoints \in Surjection(1 .. N, Parsed)
  BY <1>2, <1>3, <1>5, <1>6, FS_Injection
<1> QED BY <1>4, <1>7 DEF Surjection, Range

\* A name is a sequence of words.
LEMMA NameType ==
  ASSUME doc \in Docs, endpoints \in ParseSpec, NEW k \in DOMAIN endpoints
  PROVE  NameOf(endpoints[k]) \in Seq(Words)
<1> DEFINE id == endpoints[k].operationId
<1>1. PICK op \in doc : id = op.operationId
  BY ListOfEndpoints
<1>2. id.service \in Seq(STRING) /\ id.action \in Seq(STRING)
  BY <1>1, ToolsAssumption
<1>3. STRING \subseteq Words
  BY DEF Words
<1>4. id.service \in Seq(Words) /\ id.action \in Seq(Words)
  BY <1>2, <1>3, SeqMonotonic
<1>5. TrimService(id.service) \in Seq(Words)
  <2> DEFINE n == Len(id.service) - 1
  <2>1. n \in Int /\ \A j \in 1 .. n : id.service[j] \in Words
    BY <1>4, LenProperties
  <2>2. SubSeq(id.service, 1, n) \in Seq(Words)
    BY <2>1, SubSeqProperties
  <2> QED BY <1>4, <2>2 DEF TrimService
<1>6. <<"argocd">> \in Seq(Words)
  BY DEF Words
<1>7. <<"argocd">> \o TrimService(id.service) \in Seq(Words)
  BY <1>5, <1>6, ConcatProperties
<1>8. <<"argocd">> \o TrimService(id.service) \o id.action \in Seq(Words)
  BY <1>4, <1>7, ConcatProperties
<1>9. NoName \in Seq(Words)
  BY DEF NoName
<1> QED BY <1>8, <1>9 DEF NameOf, ToToolName

\* Names with different numbers, or of different names, differ.
LEMMA SuffixedDiffers ==
  ASSUME doc \in Docs, NEW a \in Seq(Words), NEW b \in Seq(Words),
         NEW m \in 0 .. Cardinality(doc) + 1, NEW n \in 0 .. Cardinality(doc) + 1,
         Cardinality(doc) \in Nat,
         Suffixed(a, m) = Suffixed(b, n)
  PROVE  a = b /\ m = n
<1>1. Numeral[m] \in Words /\ Numeral[n] \in Words
  BY DEF Words
<1>2. a = b /\ Numeral[m] = Numeral[n]
  BY <1>1, AppendInjective DEF Suffixed
<1> QED BY <1>2, NumeralAssumption

\* A suffix makes a name.
LEMMA SuffixedIsName ==
  ASSUME NEW a \in Seq(Words), NEW n \in Nat
  PROVE  Suffixed(a, n) # NoName
<1>1. Numeral[n] \in Words
  BY DEF Words
<1> QED BY <1>1, AppendProperties DEF Suffixed, NoName

\* What depends on the document alone.
LEMMA SameDocument ==
  ASSUME doc' = doc
  PROVE  /\ Parsed' = Parsed /\ ParseSpec' = ParseSpec
         /\ NoNameLooksNumbered' <=> NoNameLooksNumbered
         /\ NamesDifferOnAPath' <=> NamesDifferOnAPath
         /\ \A ep : NameByPath(ep)' = NameByPath(ep)
BY DEF Parsed, ParseSpec, NoNameLooksNumbered, NamesDifferOnAPath, NameByPath

\* The last index of a set is one of it.
LEMMA LastIsLast ==
  ASSUME NEW N \in Nat, NEW S \in SUBSET (1 .. N), S # {}
  PROVE  Last(S) \in S /\ \A j \in S : j <= Last(S)
<1> DEFINE T == {N - k : k \in S}
<1>1. T \in SUBSET Nat /\ T # {}
  <2>1. \A k \in S : N - k \in Nat
    OBVIOUS
  <2>2. PICK k \in S : TRUE
    OBVIOUS
  <2>3. N - k \in T
    OBVIOUS
  <2> QED BY <2>1, <2>3
<1>2. PICK x \in T : \A y \in T : x <= y
  <2> HIDE DEF T
  <2> QED BY <1>1, LeastElement
<1>3. PICK k \in S : x = N - k
  OBVIOUS
<1>4. \A j \in S : j <= k
  <2> TAKE j \in S
  <2>1. N - j \in T
    OBVIOUS
  <2> QED BY <1>2, <1>3, <2>1
<1> QED BY <1>4 DEF Last

-----------------------------------------------------------------------------
(* Occurrences *)

LEMMA OccurrencesAreFinite ==
  ASSUME NEW name, NEW k \in Nat
  PROVE  /\ IsFiniteSet(Occurrences(name, k))
         /\ Cardinality(Occurrences(name, k)) \in 0 .. k
         /\ Occurrences(name, k) # {} => Cardinality(Occurrences(name, k)) # 0
<1>1. IsFiniteSet(1 .. k) /\ Cardinality(1 .. k) = k
  BY FS_Interval
<1>2. Occurrences(name, k) \in SUBSET (1 .. k)
  BY DEF Occurrences
<1>3. IsFiniteSet(Occurrences(name, k)) /\ Cardinality(Occurrences(name, k)) <= k
  BY <1>1, <1>2, FS_Subset
<1>4. Cardinality(Occurrences(name, k)) \in Nat
  BY <1>3, FS_CardinalityType
<1> QED BY <1>3, <1>4, FS_EmptySet

\* A name that occurs is counted on, the others are not.
LEMMA NextOccurrence ==
  ASSUME NEW name, NEW k \in Nat \ {0}
  PROVE  Cardinality(Occurrences(name, k)) =
           Cardinality(Occurrences(name, k - 1)) + IF NameOf(endpoints[k]) = name THEN 1 ELSE 0
<1>1. k - 1 \in Nat /\ 1 .. k = (1 .. k - 1) \union {k} /\ k \notin 1 .. k - 1
  OBVIOUS
<1>2. IsFiniteSet(Occurrences(name, k - 1)) /\ Cardinality(Occurrences(name, k - 1)) \in Int
  BY <1>1, OccurrencesAreFinite
<1>3. CASE NameOf(endpoints[k]) = name
  <2>1. /\ Occurrences(name, k) = Occurrences(name, k - 1) \union {k}
        /\ k \notin Occurrences(name, k - 1)
    BY <1>1, <1>3 DEF Occurrences
  <2> QED BY <1>2, <1>3, <2>1, FS_AddElement
<1>4. CASE NameOf(endpoints[k]) # name
  <2>1. Occurrences(name, k) = Occurrences(name, k - 1)
    BY <1>1, <1>4 DEF Occurrences
  <2> QED BY <1>2, <1>4, <2>1
<1> QED BY <1>3, <1>4

\* Two occurrences of a name have different numbers.
LEMMA LaterOccurrence ==
  ASSUME NEW k \in Nat, NEW j \in Nat, j < k, NEW name, NameOf(endpoints[k]) = name
  PROVE  Cardinality(Occurrences(name, j)) # Cardinality(Occurrences(name, k))
<1>1. Occurrences(name, j) \in SUBSET Occurrences(name, k)
  BY DEF Occurrences
<1>2. k \in Occurrences(name, k) /\ k \notin Occurrences(name, j)
  BY DEF Occurrences
<1>3. IsFiniteSet(Occurrences(name, k))
  BY OccurrencesAreFinite
<1> QED BY <1>1, <1>2, <1>3, FS_Subset

\* Sorted by path, the occurrences of a name up to an endpoint are those with a path
\* up to its own, if no other of its name has the same path.
LEMMA OccurrencesByPath ==
  ASSUME doc \in Docs, endpoints \in ParseSpec, NamesDifferOnAPath,
         NEW k \in DOMAIN endpoints, NameOf(endpoints[k]) # NoName
  PROVE  Cardinality(Occurrences(NameOf(endpoints[k]), k)) =
           Cardinality({other \in Parsed : /\ NameOf(other) = NameOf(endpoints[k])
                                           /\ PathRank[other.path] <= PathRank[endpoints[k].path]})
<1> DEFINE name == NameOf(endpoints[k])
           S == Occurrences(name, k)
           T == {other \in Parsed : NameOf(other) = name /\ PathRank[other.path] <= PathRank[endpoints[k].path]}
           f == [j \in S |-> endpoints[j]]
<1>1. /\ DOMAIN endpoints = 1 .. Cardinality(doc) /\ Cardinality(doc) \in Nat
      /\ \A j, l \in DOMAIN endpoints : endpoints[j] = endpoints[l] => j = l
      /\ \A j \in DOMAIN endpoints : endpoints[j] \in Parsed
      /\ \A j \in DOMAIN endpoints : \E op \in doc : endpoints[j].path = op.path
  BY ListOfEndpoints
<1>2. k \in Nat /\ S \subseteq 1 .. k /\ 1 .. k \subseteq DOMAIN endpoints
  BY <1>1 DEF Occurrences
<1>3. \A j, l \in DOMAIN endpoints : j < l => PathRank[endpoints[j].path] <= PathRank[endpoints[l].path]
  BY DEF ParseSpec, Sorted
<1>4. \A j, l \in DOMAIN endpoints :
        /\ PathRank[endpoints[j].path] \in Nat
        /\ PathRank[endpoints[j].path] = PathRank[endpoints[l].path] => endpoints[j].path = endpoints[l].path
  <2> TAKE j, l \in DOMAIN endpoints
  <2>1. PICK op \in doc : endpoints[j].path = op.path
    BY <1>1
  <2>2. PICK other \in doc : endpoints[l].path = other.path
    BY <1>1
  <2> QED BY <2>1, <2>2, ToolsAssumption
<1>5. f \in [S -> T]
  <2> SUFFICES ASSUME NEW j \in S PROVE endpoints[j] \in T
    OBVIOUS
  <2>1. j \in 1 .. k /\ NameOf(endpoints[j]) = name /\ j \in DOMAIN endpoints
    BY <1>2 DEF Occurrences
  <2>2. PathRank[endpoints[j].path] <= PathRank[endpoints[k].path]
    <3>1. j = k \/ j < k
      BY <1>2, <2>1
    <3> QED BY <1>3, <1>4, <2>1, <3>1
  <2> QED BY <1>1, <2>1, <2>2
<1>6. \A a, b \in S : f[a] = f[b] => a = b
  BY <1>1, <1>2
<1>7. \A other \in T : \E j \in S : f[j] = other
  <2> SUFFICES ASSUME NEW other \in T PROVE \E j \in S : endpoints[j] = other
    OBVIOUS
  <2>1. PICK j \in DOMAIN endpoints : endpoints[j] = other
    BY ListIsComplete DEF Range
  <2>2. j <= k
    <3> SUFFICES ASSUME k < j PROVE FALSE
      BY <1>1
    <3>1. PathRank[endpoints[j].path] = PathRank[endpoints[k].path]
      BY <1>3, <1>4, <2>1
    <3>2. endpoints[j].path = endpoints[k].path /\ endpoints[j] # endpoints[k]
      BY <1>1, <1>4, <3>1
    <3> QED BY <1>1, <2>1, <3>2 DEF NamesDifferOnAPath
  <2>3. j \in S
    BY <1>1, <2>1, <2>2 DEF Occurrences
  <2> QED BY <2>1, <2>3
<1>8. ExistsBijection(S, T)
  <2> HIDE DEF S, T, f
  <2>1. f \in Injection(S, T) /\ f \in Surjection(S, T)
    BY <1>5, <1>6, <1>7, Fun_IsInj, Fun_IsSurj
  <2> QED BY <2>1 DEF Bijection, ExistsBijection
<1>9. IsFiniteSet(S)
  BY <1>2, OccurrencesAreFinite
<1>10. Cardinality(T) = Cardinality(S)
  <2> HIDE DEF S, T
  <2> QED BY <1>8, <1>9, FS_Bijection
<1> QED BY <1>10

-----------------------------------------------------------------------------
(* The loop of DeduplicateNames *)

\* What a client remembers has the names that the document gives it.
Remembered ==
  NamesDifferOnAPath =>
    \A n \in DOMAIN listed : n # NoName /\ listed[n] \in Parsed /\ n = NameByPath(listed[n])

\* Before the first round.
Fresh ==
  /\ doc \in Docs
  /\ phase = "dedup"
  /\ endpoints \in ParseSpec
  /\ i = 1
  /\ seen = [n \in {} |-> 0]
  /\ result = <<>>
  /\ tools = NoTools
  /\ call = NoCall
  /\ Remembered

LEMMA FirstRound == Fresh => Inv
<1> SUFFICES ASSUME Fresh PROVE Inv
  OBVIOUS
<1> USE DEF Fresh
<1>1. Len(endpoints) \in Nat
  BY ListOfEndpoints
<1>2. 1 .. i - 1 = {} /\ i \in 1 .. Len(endpoints) + 1
  BY <1>1
<1>3. DOMAIN seen = {} /\ result \in [1 .. i - 1 -> Range(result)]
  BY <1>2, EmptySeq, LenProperties
<1>4. LoopInv
  BY <1>2, <1>3 DEF LoopInv
<1>5. DOMAIN tools = {}
  BY DEF NoTools
<1> QED BY <1>4, <1>5 DEF Inv, Remembered

\* A round names one more endpoint.
LEMMA NextRound ==
  ASSUME Inv, Deduplicate
  PROVE  LoopInv'
<1> DEFINE name == NameOf(endpoints[i])
           count == Cardinality(Occurrences(name, i - 1))
           new == IF name = NoName THEN NoName
                  ELSE IF name \in DOMAIN seen THEN Suffixed(name, seen[name] + 1) ELSE name
<1>1. /\ i \in Nat \ {0} /\ i - 1 \in Nat /\ i \in 1 .. Len(endpoints) /\ Len(endpoints) \in Nat
  BY ListOfEndpoints DEF Deduplicate, Inv, LoopInv
<1>2. i' = i + 1 /\ endpoints' = endpoints
  BY DEF Deduplicate
<1>3. /\ result' = Append(result, new)
      /\ name = NoName => seen' = seen
      /\ name # NoName => Count(name)
  BY DEF Deduplicate
<1>4. /\ result' \in [1 .. i -> Range(result')]
      /\ \A k \in 1 .. i - 1 : result'[k] = result[k]
      /\ result'[i] = new
  <2> HIDE DEF name, new
  <2> DEFINE S == Range(result) \union {new}
  <2>1. result \in [1 .. i - 1 -> S]
    BY <1>1 DEF Inv, LoopInv
  <2>2. result \in Seq(S)
    BY <1>1, <2>1, SeqDef
  <2>3. Len(result) = i - 1
    BY <1>1, <2>1, <2>2, LenProperties
  <2>4. new \in S
    OBVIOUS
  <2>5. /\ Append(result, new) \in Seq(S)
        /\ Len(Append(result, new)) = i
        /\ \A k \in 1 .. i - 1 : Append(result, new)[k] = result[k]
        /\ Append(result, new)[i] = new
    BY <2>2, <2>3, <2>4, <1>1, AppendProperties
  <2>6. result' \in [1 .. i -> S]
    BY <1>3, <2>5, LenProperties
  <2>7. result' \in [1 .. i -> Range(result')]
    BY <2>6 DEF Range
  <2> QED BY <1>3, <2>5, <2>7
<1>5. /\ DOMAIN seen = {NameOf(endpoints[k]) : k \in 1 .. i - 1} \ {NoName}
      /\ \A n \in DOMAIN seen : seen[n] = Cardinality(Occurrences(n, i - 1))
  BY DEF Inv, LoopInv
<1>6. /\ DOMAIN seen' = DOMAIN seen \union ({name} \ {NoName})
      /\ \A n \in DOMAIN seen : n # name => seen'[n] = seen[n]
      /\ name # NoName =>
           seen'[name] = IF name \in DOMAIN seen THEN seen[name] + 1 ELSE 1
  <2>1. NoName \notin DOMAIN seen
    BY <1>5
  <2> HIDE DEF name
  <2>2. CASE name = NoName
    BY <2>1, <2>2, <1>3
  <2>3. CASE name # NoName
    BY <2>1, <2>3, <1>3 DEF Count
  <2> QED BY <2>2, <2>3
<1>7. count \in Nat /\ (name # NoName => (name \in DOMAIN seen <=> count # 0))
  <2>1. count \in Nat /\ (Occurrences(name, i - 1) # {} => count # 0)
    BY <1>1, OccurrencesAreFinite
  <2>2. Occurrences(name, i - 1) = {} => count = 0
    BY FS_EmptySet
  <2>3. name # NoName => (name \in DOMAIN seen <=> Occurrences(name, i - 1) # {})
    BY <1>5 DEF Occurrences
  <2> QED BY <2>1, <2>2, <2>3
<1>8. name # NoName => seen'[name] = count + 1
  BY <1>5, <1>6, <1>7
<1>9. DOMAIN seen' = {NameOf(endpoints[k]) : k \in 1 .. i} \ {NoName}
  <2>1. 1 .. i = (1 .. i - 1) \union {i}
    BY <1>1
  <2>2. {NameOf(endpoints[k]) : k \in 1 .. i} = {NameOf(endpoints[k]) : k \in 1 .. i - 1} \union {name}
    BY <2>1
  <2> HIDE DEF name
  <2> QED BY <1>5, <1>6, <2>2
<1>10. ASSUME NEW n \in DOMAIN seen' PROVE seen'[n] = Cardinality(Occurrences(n, i))
  <2>1. Cardinality(Occurrences(n, i)) =
          Cardinality(Occurrences(n, i - 1)) + IF name = n THEN 1 ELSE 0
    BY <1>1, NextOccurrence
  <2>2. CASE n = name
    BY <1>6, <1>7, <1>8, <1>9, <1>10, <2>1, <2>2
  <2>3. CASE n # name
    <3>1. n \in DOMAIN seen /\ seen'[n] = Cardinality(Occurrences(n, i - 1))
      BY <1>5, <1>6, <2>3
    <3>2. Cardinality(Occurrences(n, i - 1)) \in Nat
      BY <1>1, OccurrencesAreFinite
    <3> QED BY <2>1, <2>3, <3>1, <3>2
  <2> QED BY <2>2, <2>3
<1>11. new = Numbered(name, Cardinality(Occurrences(name, i)))
  <2>1. Cardinality(Occurrences(name, i)) = count + 1
    BY <1>1, NextOccurrence
  <2>2. name \in DOMAIN seen => seen[name] = count
    BY <1>5
  <2> HIDE DEF name, count
  <2> QED BY <1>7, <2>1, <2>2 DEF Numbered
<1>12. \A n, k : Occurrences(n, k)' = Occurrences(n, k)
  BY <1>2 DEF Occurrences
<1>13. ASSUME NEW k \in 1 .. i
       PROVE  result'[k] = Numbered(NameOf(endpoints[k]),
                                    Cardinality(Occurrences(NameOf(endpoints[k]), k)))
  <2>1. CASE k = i
    BY <1>4, <1>11, <2>1
  <2>2. CASE k # i
    <3>1. k \in 1 .. i - 1
      BY <1>1, <2>2
    <3> QED BY <1>4, <3>1 DEF Inv, LoopInv
  <2> QED BY <2>1, <2>2
<1>14. i' - 1 = i /\ i' \in 1 .. Len(endpoints') + 1
  BY <1>1, <1>2
<1>15. \A k \in 1 .. i : endpoints'[k] = endpoints[k]
  BY <1>2
<1> HIDE DEF name, count, new
<1> QED BY <1>2, <1>4, <1>9, <1>10, <1>12, <1>13, <1>14 DEF LoopInv

\* In a finished loop the results have the numbers that the paths give them.
LEMMA ResultsByPath ==
  ASSUME Inv, NamesDifferOnAPath, NEW k \in 1 .. i - 1
  PROVE  /\ k \in DOMAIN endpoints
         /\ result[k] = NameByPath(endpoints[k])
<1>1. k \in DOMAIN endpoints
  BY ListOfEndpoints DEF Inv, LoopInv
<1>2. result[k] = Numbered(NameOf(endpoints[k]),
                           Cardinality(Occurrences(NameOf(endpoints[k]), k)))
  BY DEF Inv, LoopInv
<1>3. CASE NameOf(endpoints[k]) = NoName
  BY <1>1, <1>2, <1>3 DEF NameByPath, Numbered
<1>4. CASE NameOf(endpoints[k]) # NoName
  <2>1. doc \in Docs /\ endpoints \in ParseSpec
    BY DEF Inv
  <2> QED BY <1>1, <1>2, <1>4, <2>1, OccurrencesByPath DEF NameByPath
<1> QED BY <1>1, <1>3, <1>4

\* If no name looks numbered, all results differ.
LEMMA ResultsDiffer ==
  ASSUME Inv, NoNameLooksNumbered, NEW j \in 1 .. i - 1, NEW k \in 1 .. i - 1, j # k,
         result[j] = result[k]
  PROVE  result[j] = NoName
<1> DEFINE a == NameOf(endpoints[j])
           b == NameOf(endpoints[k])
           m == Cardinality(Occurrences(a, j))
           n == Cardinality(Occurrences(b, k))
<1>1. result[j] = Numbered(a, m) /\ result[k] = Numbered(b, n)
  BY DEF Inv, LoopInv
<1>2. /\ doc \in Docs /\ Cardinality(doc) \in Nat
      /\ j \in DOMAIN endpoints /\ k \in DOMAIN endpoints
      /\ j \in 1 .. Cardinality(doc) /\ k \in 1 .. Cardinality(doc)
      /\ endpoints[j] \in Parsed /\ endpoints[k] \in Parsed
  BY ListOfEndpoints DEF Inv, LoopInv
<1>3. a \in Seq(Words) /\ b \in Seq(Words)
  BY <1>2, NameType DEF Inv
<1>4. m \in 1 .. Cardinality(doc) /\ n \in 1 .. Cardinality(doc)
  <2>1. j \in Occurrences(a, j) /\ k \in Occurrences(b, k)
    BY <1>2 DEF Occurrences
  <2>2. m \in 0 .. j /\ n \in 0 .. k /\ m # 0 /\ n # 0
    BY <1>2, <2>1, OccurrencesAreFinite
  <2> QED BY <1>2, <2>2
<1>5. a = b => m # n
  BY <1>2, LaterOccurrence
<1>6. \A x \in 2 .. Cardinality(doc) :
        /\ a # NoName => b # Suffixed(a, x) /\ a # Suffixed(a, x)
        /\ b # NoName => a # Suffixed(b, x)
  BY <1>2 DEF NoNameLooksNumbered
<1>7. Suffixed(a, m) = Suffixed(b, n) => a = b /\ m = n
  <2>1. m \in 0 .. Cardinality(doc) + 1 /\ n \in 0 .. Cardinality(doc) + 1
    BY <1>2, <1>4
  <2> HIDE DEF a, b, m, n
  <2> QED BY <1>2, <1>3, <2>1, SuffixedDiffers
<1>8. (b # NoName => Suffixed(b, n) # NoName) /\ (a # NoName => Suffixed(a, m) # NoName)
  <2>1. m \in Nat /\ n \in Nat
    BY <1>2, <1>4
  <2> HIDE DEF a, b, m, n
  <2> QED BY <1>3, <2>1, SuffixedIsName
<1>9. (m = 1 \/ m \in 2 .. Cardinality(doc)) /\ (n = 1 \/ n \in 2 .. Cardinality(doc))
  BY <1>2, <1>4
<1> HIDE DEF a, b, m, n
<1> QED BY <1>1, <1>5, <1>6, <1>7, <1>8, <1>9 DEF Numbered

-----------------------------------------------------------------------------
(* The inductive invariant *)

\* A registered tool has a name and the endpoint of a result.
LEMMA GeneratedFromResults ==
  ASSUME Inv, NEW n \in DOMAIN Generated
  PROVE  /\ n # NoName
         /\ \E k \in 1 .. i - 1 : result[k] = n /\ Generated[n] = endpoints[k]
<1>1. DOMAIN result = 1 .. i - 1 /\ i - 1 \in Nat
  BY ListOfEndpoints DEF Inv, LoopInv
<1>2. n # NoName /\ n \in {result[k] : k \in DOMAIN result} /\ Generated[n] = endpoints[Last(Named(n))]
  BY DEF Generated
<1>3. Named(n) \in SUBSET (1 .. i - 1) /\ Named(n) # {}
  BY <1>1, <1>2 DEF Named
<1>4. Last(Named(n)) \in Named(n)
  BY <1>1, <1>3, LastIsLast
<1> QED BY <1>1, <1>2, <1>4 DEF Named

LEMMA NextInv ==
  ASSUME Inv, [Next]_vars
  PROVE  Inv'
<1> USE DEF Inv
<1>0. Inv <=> /\ doc \in Docs
              /\ phase \in {"dedup", "serving"}
              /\ endpoints \in ParseSpec
              /\ LoopInv
              /\ phase = "dedup" => tools = NoTools /\ call = NoCall
              /\ phase = "serving" => i = Len(endpoints) + 1 /\ tools = Generated
              /\ call.tool \in DOMAIN tools => request = Handle(tools[call.tool], call.args)
              /\ Remembered
  BY DEF Remembered
<1>1. ASSUME UNCHANGED <<endpoints, i, seen, result>> PROVE LoopInv'
  <2>1. \A n, k : Occurrences(n, k)' = Occurrences(n, k)
    BY <1>1 DEF Occurrences
  <2> QED BY <1>1, <2>1 DEF LoopInv
<1>2. ASSUME doc' = doc, listed' = listed PROVE Remembered'
  BY <1>0, <1>2, SameDocument DEF Remembered
<1>3. ASSUME endpoints' = endpoints, result' = result PROVE Generated' = Generated
  BY <1>3 DEF Generated, Named
<1>4. CASE Deduplicate
  <2>1. LoopInv'
    BY <1>4, NextRound
  <2>2. phase = "dedup" /\ UNCHANGED <<doc, phase, endpoints, tools, listed, call, request>>
    BY <1>4 DEF Deduplicate
  <2> QED BY <1>2, <2>1, <2>2, SameDocument DEF Remembered, NoTools, NoCall
<1>5. CASE Register
  <2>1. i = Len(endpoints) + 1
    BY <1>5, ListOfEndpoints DEF Register, LoopInv
  <2>2. /\ phase = "dedup" /\ phase' = "serving" /\ tools' = Generated
        /\ UNCHANGED <<doc, endpoints, i, seen, result, listed, call, request>>
    BY <1>5 DEF Register
  <2>3. call.tool = NoName /\ NoName \notin DOMAIN tools'
    BY <2>2 DEF NoCall, Generated
  <2> QED BY <1>1, <1>2, <1>3, <2>1, <2>2, <2>3, SameDocument DEF Remembered
<1>6. CASE Restart
  <2>1. Fresh'
    <3>1. doc' = doc /\ listed' = listed
      BY <1>6 DEF Restart
    <3> QED BY <1>2, <1>6, <3>1, SameDocument DEF Restart, Start, Fresh, NoTools, NoCall
  <2> QED BY <2>1, FirstRound, PTL
<1>7. CASE List
  <2>1. phase = "serving" /\ listed' = tools /\ tools = Generated /\ i - 1 \in Int
    BY <1>7, ListOfEndpoints DEF List, LoopInv
  <2>2. UNCHANGED <<doc, phase, endpoints, i, seen, result, tools, call, request>>
    BY <1>7 DEF List
  <2>3. Remembered'
    <3> SUFFICES ASSUME NamesDifferOnAPath, NEW n \in DOMAIN Generated
                 PROVE  n # NoName /\ Generated[n] \in Parsed /\ n = NameByPath(Generated[n])
      BY <2>1, <2>2, SameDocument DEF Remembered
    <3>1. PICK k \in 1 .. i - 1 : result[k] = n /\ Generated[n] = endpoints[k]
      BY GeneratedFromResults
    <3> QED BY <3>1, GeneratedFromResults, ResultsByPath, ListOfEndpoints
  <2> QED BY <1>1, <1>3, <2>1, <2>2, <2>3, SameDocument DEF Remembered
<1>8. CASE \E n, args : Call(n, args)
  <2>1. PICK n, args : Call(n, args)
    BY <1>8
  <2>2. /\ phase = "serving" /\ call' = [tool |-> n, args |-> args]
        /\ request' = IF n \in DOMAIN tools THEN Handle(tools[n], args) ELSE [kind |-> "unknown"]
        /\ UNCHANGED <<doc, phase, endpoints, i, seen, result, tools, listed>>
    BY <2>1 DEF Call
  <2> QED BY <1>1, <1>2, <1>3, <2>2, SameDocument DEF Remembered
<1>9. CASE UNCHANGED vars
  BY <1>1, <1>2, <1>3, <1>9, SameDocument DEF vars, Remembered, NoTools, NoCall
<1> QED BY <1>4, <1>5, <1>6, <1>7, <1>8, <1>9 DEF Next

\* Every named endpoint is registered under its own result.
LEMMA RegisteredTools ==
  ASSUME Inv, phase = "serving", NoNameLooksNumbered,
         NEW k \in DOMAIN endpoints, NameOf(endpoints[k]) # NoName
  PROVE  /\ result[k] # NoName /\ k \in 1 .. i - 1
         /\ result[k] \in DOMAIN tools /\ tools[result[k]] = endpoints[k]
<1>1. /\ doc \in Docs /\ endpoints \in ParseSpec /\ tools = Generated
      /\ DOMAIN result = 1 .. i - 1 /\ i - 1 \in Nat
      /\ k \in 1 .. i - 1
  BY ListOfEndpoints DEF Inv, LoopInv
<1>2. result[k] # NoName
  <2>1. NameOf(endpoints[k]) \in Seq(Words)
    BY <1>1, NameType
  <2>2. Cardinality(Occurrences(NameOf(endpoints[k]), k)) \in Nat
    BY <1>1, OccurrencesAreFinite
  <2>3. result[k] = Numbered(NameOf(endpoints[k]), Cardinality(Occurrences(NameOf(endpoints[k]), k)))
    BY <1>1 DEF Inv, LoopInv
  <2> QED BY <2>1, <2>2, <2>3, SuffixedIsName DEF Numbered
<1>3. Named(result[k]) = {k}
  BY <1>1, <1>2, ResultsDiffer DEF Named
<1>4. Last({k}) = k
  BY <1>1 DEF Last
<1> QED BY <1>1, <1>2, <1>3, <1>4 DEF Generated

-----------------------------------------------------------------------------
(* Theorems about names *)

\* The invariant of DeduplicateNames' loop, which counts the occurrences of each name
\* and gives the n-th the number n; and what is registered, remembered and sent.
THEOREM NamesInOrder == Spec => []Inv
<1>1. Init => Inv
  BY FirstRound DEF Init, Fresh, Remembered, NoTools
<1>2. Inv /\ [Next]_vars => Inv'
  BY NextInv
<1> QED BY <1>1, <1>2, PTL DEF Spec

\* Every operation with a name has a tool of its own.
THEOREM ToolsAreDistinct == Spec => []OneToolPerEndpoint
<1>1. Inv => OneToolPerEndpoint
  <2> SUFFICES ASSUME Inv, phase = "serving", NoNameLooksNumbered
               PROVE  /\ \A ep \in Range(endpoints) : NameOf(ep) # NoName => ep \in Range(tools)
                      /\ \A m, n \in DOMAIN tools : tools[m] = tools[n] => m = n
    BY DEF OneToolPerEndpoint
  <2>1. ASSUME NEW ep \in Range(endpoints), NameOf(ep) # NoName PROVE ep \in Range(tools)
    <3>1. PICK k \in DOMAIN endpoints : ep = endpoints[k]
      BY <2>1 DEF Range
    <3> QED BY <2>1, <3>1, RegisteredTools DEF Range
  <2>2. ASSUME NEW m \in DOMAIN tools, NEW n \in DOMAIN tools, tools[m] = tools[n] PROVE m = n
    <3>1. tools = Generated
      BY DEF Inv
    <3>2. PICK j \in 1 .. i - 1 : result[j] = m /\ tools[m] = endpoints[j]
      BY <3>1, GeneratedFromResults
    <3>3. PICK k \in 1 .. i - 1 : result[k] = n /\ tools[n] = endpoints[k]
      BY <3>1, GeneratedFromResults
    <3>4. j \in DOMAIN endpoints /\ k \in DOMAIN endpoints
      BY ListOfEndpoints DEF Inv, LoopInv
    <3> QED BY <2>2, <3>2, <3>3, <3>4, ListOfEndpoints DEF Inv
  <2> QED BY <2>1, <2>2
<1> QED BY NamesInOrder, <1>1, PTL

\* A tool stands for the same operation before and after a restart, in whatever order
\* ParseSpec puts the operations of one path.
THEOREM ListedToolsStay == Spec => []CallDoesWhatWasListed
<1>1. Inv => CallDoesWhatWasListed
  <2> SUFFICES ASSUME Inv, phase = "serving", NoNameLooksNumbered, NamesDifferOnAPath,
                      NEW n \in DOMAIN listed
               PROVE  n \in DOMAIN tools /\ tools[n] = listed[n]
    BY DEF CallDoesWhatWasListed
  <2>1. n # NoName /\ listed[n] \in Parsed /\ n = NameByPath(listed[n])
    BY DEF Inv
  <2>2. PICK k \in DOMAIN endpoints : endpoints[k] = listed[n]
    BY <2>1, ListIsComplete DEF Inv, Range
  <2>3. NameOf(endpoints[k]) # NoName
    BY <2>1, <2>2 DEF NameByPath, Numbered
  <2>4. /\ k \in 1 .. i - 1
        /\ result[k] \in DOMAIN tools /\ tools[result[k]] = endpoints[k]
    BY <2>3, RegisteredTools
  <2>5. result[k] = NameByPath(endpoints[k])
    BY <2>4, ResultsByPath
  <2> QED BY <2>1, <2>2, <2>4, <2>5
<1> QED BY NamesInOrder, <1>1, PTL

-----------------------------------------------------------------------------
(* Arguments on their way *)

\* What is left of an operation's parameters is a sequence of some of them.
LEMMA ParametersKept ==
  ASSUME NEW params, params \in Seq(Range(params))
  PROVE  Parameters(params) \in Seq(Range(params))
<1> DEFINE N == Len(params)
           V == Seq(Range(params))
           Step(k, v) == IF IsBody(params[k]) THEN v ELSE Append(v, params[k])
           step == [k \in 1 .. N |-> [v \in V |-> Step(k, v)]]
           kept == CHOOSE f : f = [k \in 0 .. N |-> IF k = 0 THEN <<>> ELSE Step(k, f[k - 1])]
<1>1. N \in Nat /\ DOMAIN params = 1 .. N
  BY LenProperties
<1>2. \A k \in 1 .. N : params[k] \in Range(params)
  BY <1>1 DEF Range
<1>3. \A k \in 1 .. N : \A v \in V : Step(k, v) \in V
  BY <1>2, AppendProperties
<1>4. <<>> \in V
  OBVIOUS
<1>5. \E f : f = [k \in 0 .. N |-> IF k = 0 THEN <<>> ELSE Step(k, f[k - 1])]
  <2> HIDE DEF N, V, Step
  <2>1. step \in Steps(N, V)
    BY <1>3 DEF Steps
  <2>2. PICK f \in [0 .. N -> V] : IsIteration(f, N, <<>>, step)
    <3> DEFINE base == <<>>
    <3>1. base \in V
      BY <1>4
    <3> HIDE DEF step, base
    <3>2. \E f \in [0 .. N -> V] : IsIteration(f, N, base, step)
      BY <1>1, <2>1, <3>1, Recursion
    <3> QED BY <3>2 DEF base
  <2>3. \A k \in 1 .. N : k - 1 \in 0 .. N /\ f[k - 1] \in V
    BY <1>1
  <2>4. \A k \in 1 .. N : f[k] = Step(k, f[k - 1])
    BY <2>2, <2>3 DEF IsIteration
  <2>5. \A k \in 0 .. N : f[k] = IF k = 0 THEN <<>> ELSE Step(k, f[k - 1])
    BY <1>1, <2>2, <2>4 DEF IsIteration
  <2> QED BY <2>5
<1>6. kept = [k \in 0 .. N |-> IF k = 0 THEN <<>> ELSE Step(k, kept[k - 1])]
  <2> HIDE DEF N, Step
  <2> QED BY <1>5
<1>7. Parameters(params) = kept[N]
  BY DEF Parameters
<1> HIDE DEF kept, V, Step, N
<1> DEFINE S == {k \in Nat : k <= N => kept[k] \in V}
<1>8. 0 \in S
  BY <1>1, <1>4, <1>6
<1>9. ASSUME NEW k \in Nat, k \in S PROVE k + 1 \in S
  <2> SUFFICES ASSUME k + 1 <= N PROVE kept[k + 1] \in V
    OBVIOUS
  <2>1. k + 1 \in 1 .. N /\ k + 1 \in 0 .. N /\ k + 1 # 0 /\ (k + 1) - 1 = k /\ kept[k] \in V
    BY <1>1, <1>9
  <2>2. kept[k + 1] = Step(k + 1, kept[k])
    BY <1>6, <2>1
  <2> QED BY <1>3, <2>1, <2>2
<1>10. N \in S
  <2> HIDE DEF S
  <2> QED BY <1>1, <1>8, <1>9, Induction
<1> QED BY <1>7, <1>10 DEF V

\* The path and the parameters of an endpoint are sequences, and a parameter in the path
\* has a place in it.
WellFormed(ep) ==
  /\ ep.path \in Seq(Segments)
  /\ \A p, q \in [DOMAIN ep.path -> Segments] : Joined[p] = Joined[q] => p = q
  /\ ep.params \in Seq(Range(ep.params))
  /\ \A k \in 1 .. Len(ep.params) : ep.params[k].in = "path" =>
       /\ ep.params[k].name \in DOMAIN Braced
       /\ Braced[ep.params[k].name] \in Range(ep.path)

LEMMA ParsedIsWellFormed ==
  ASSUME doc \in Docs, NEW ep \in Parsed
  PROVE  WellFormed(ep)
<1>1. PICK op \in doc : ep = ParseOperation(op)
  BY DEF Parsed
<1>2. ep.params = Parameters(op.params) /\ ep.path = op.path
  BY <1>1 DEF ParseOperation
<1>3. op.params \in Seq(Range(op.params))
  BY ToolsAssumption
<1>4. ep.params \in Seq(Range(op.params))
  BY <1>2, <1>3, ParametersKept
<1>5. /\ DOMAIN ep.params = 1 .. Len(ep.params)
      /\ \A k \in 1 .. Len(ep.params) : ep.params[k] \in Range(op.params)
  BY <1>4, LenProperties
<1>6. ep.params \in Seq(Range(ep.params))
  <2>1. ep.params \in [1 .. Len(ep.params) -> Range(ep.params)] /\ Len(ep.params) \in Nat
    BY <1>4, LenProperties DEF Range
  <2> QED BY <2>1, SeqDef
<1>7. /\ ep.path \in Seq(Segments)
      /\ \A p, q \in [DOMAIN ep.path -> Segments] : Joined[p] = Joined[q] => p = q
  <2>1. op.path \in {o.path : o \in UNION Docs}
    OBVIOUS
  <2> QED BY <1>2, <2>1, ToolsAssumption, JoinedAssumption
<1> QED BY <1>2, <1>5, <1>6, <1>7, ToolsAssumption DEF WellFormed

\* Plain arguments are found as they are written.
LEMMA PlainIsFound ==
  ASSUME NEW ep, NEW args \in PlainArguments(ep)
  PROVE  /\ args = [n \in DOMAIN args |-> args[n]]
         /\ DOMAIN args \subseteq DOMAIN Declared(ep)
         /\ \A n \in DOMAIN args :
              /\ args[n] = Spelled(args[n].text)
              /\ args[n].text \notin WithBrace
              /\ args[n].text \notin Placeholders
              /\ args[n].text # ""
              /\ GetString(args, n) = args[n].text
         /\ \A n : n \notin DOMAIN args => GetString(args, n) = ""
         /\ \A p \in ParamsIn(ep, "path") : p.name \in DOMAIN args => args[p.name].text \in Segments
<1> DEFINE Plain == {Spelled(t) : t \in Texts \ (WithBrace \union {""})}
<1>1. PICK D \in SUBSET DOMAIN Declared(ep) : args \in [D -> Plain]
  BY DEF PlainArguments
<1>2. \A v \in Plain : /\ v = Spelled(v.text) /\ v.type = "string"
                       /\ v.text \notin WithBrace /\ v.text # ""
  <2> TAKE v \in Plain
  <2>1. PICK t \in Texts \ (WithBrace \union {""}) : v = Spelled(t)
    OBVIOUS
  <2>2. v.type = "string" /\ v.text = t
    BY <2>1 DEF Spelled
  <2> QED BY <2>1, <2>2
<1>3. \A p \in ParamsIn(ep, "path") : p.name \in DOMAIN args => args[p.name].text \in Segments
  BY DEF PlainArguments
<1> HIDE DEF Plain
<1> QED BY <1>1, <1>2, <1>3, BracedAssumption DEF GetString

\* What one parameter makes of a path.
Filling(ep, args, k, path) ==
  IF GetString(args, ep.params[k].name) = "" \/ ep.params[k].in # "path" THEN path
  ELSE [t \in DOMAIN ep.path |->
          IF path[t] = Braced[ep.params[k].name] THEN GetString(args, ep.params[k].name)
          ELSE path[t]]

\* The path is filled parameter by parameter, and keeps its length.
LEMMA PathByParameters ==
  ASSUME NEW ep, WellFormed(ep), NEW args
  PROVE  \E after :
           /\ after[0] = ep.path
           /\ \A k \in 1 .. Len(ep.params) : after[k] = Filling(ep, args, k, after[k - 1])
           /\ PathOf(ep, args) = after[Len(ep.params)]
           /\ PathOf(ep, args) = [t \in DOMAIN ep.path |-> PathOf(ep, args)[t]]
<1> DEFINE N == Len(ep.params)
           Text(k) == GetString(args, ep.params[k].name)
           X == Range(ep.path) \union {Text(k) : k \in 1 .. N}
           V == [DOMAIN ep.path -> X]
           Fill(k, v) == Filling(ep, args, k, v)
           step == [k \in 1 .. N |-> [v \in V |-> Fill(k, v)]]
           after == CHOOSE f : f = [k \in 0 .. N |-> IF k = 0 THEN ep.path ELSE Fill(k, f[k - 1])]
<1>1. N \in Nat /\ DOMAIN ep.params = 1 .. N
  BY LenProperties DEF WellFormed
<1>2. ep.path \in V
  <2>1. ep.path = [t \in DOMAIN ep.path |-> ep.path[t]]
    BY LenProperties DEF WellFormed
  <2> QED BY <2>1 DEF Range
<1>3. ASSUME NEW k \in 1 .. N, NEW v \in V PROVE Fill(k, v) \in V
  <2>1. Text(k) \in X
    OBVIOUS
  <2> HIDE DEF X
  <2>2. [t \in DOMAIN ep.path |-> IF v[t] = Braced[ep.params[k].name] THEN Text(k) ELSE v[t]] \in V
    BY <2>1
  <2> HIDE DEF V
  <2> QED BY <2>2 DEF Filling
<1>4. \E f : f = [k \in 0 .. N |-> IF k = 0 THEN ep.path ELSE Fill(k, f[k - 1])]
  <2> DEFINE base == ep.path
  <2>1. base \in V
    BY <1>2
  <2> HIDE DEF N, V, Fill
  <2>2. step \in Steps(N, V)
    BY <1>3 DEF Steps
  <2>3. PICK f \in [0 .. N -> V] : IsIteration(f, N, base, step)
    <3> HIDE DEF step, base
    <3> QED BY <1>1, <2>1, <2>2, Recursion
  <2>4. \A k \in 1 .. N : k - 1 \in 0 .. N /\ f[k - 1] \in V
    BY <1>1
  <2>5. \A k \in 1 .. N : f[k] = Fill(k, f[k - 1])
    BY <2>3, <2>4 DEF IsIteration
  <2>6. \A k \in 0 .. N : f[k] = IF k = 0 THEN ep.path ELSE Fill(k, f[k - 1])
    BY <1>1, <2>3, <2>5 DEF IsIteration
  <2> QED BY <2>6
<1>5. after = [k \in 0 .. N |-> IF k = 0 THEN ep.path ELSE Fill(k, after[k - 1])]
  <2> HIDE DEF N, Fill
  <2> QED BY <1>4
<1>6. PathOf(ep, args) = after[N]
  BY DEF PathOf, Filling
<1> HIDE DEF after, V, Fill, N
<1>7. after[0] = ep.path /\ \A k \in 1 .. N : after[k] = Fill(k, after[k - 1])
  BY <1>1, <1>5
<1> DEFINE S == {k \in Nat : k <= N => after[k] \in V}
<1>8. 0 \in S
  BY <1>1, <1>2, <1>7
<1>9. ASSUME NEW m \in Nat, m \in S PROVE m + 1 \in S
  <2> SUFFICES ASSUME m + 1 <= N PROVE after[m + 1] \in V
    OBVIOUS
  <2>1. m + 1 \in 1 .. N /\ (m + 1) - 1 = m /\ after[m] \in V
    BY <1>1, <1>9
  <2>2. after[m + 1] = Fill(m + 1, after[m])
    BY <1>7, <2>1
  <2> QED BY <1>3, <2>1, <2>2
<1>10. after[N] \in V
  <2> HIDE DEF S
  <2>1. N \in S
    BY <1>1, <1>8, <1>9, Induction
  <2> QED BY <1>1, <2>1 DEF S
<1>11. PathOf(ep, args) = [t \in DOMAIN ep.path |-> PathOf(ep, args)[t]]
  BY <1>6, <1>10 DEF V
<1> QED BY <1>6, <1>7, <1>11 DEF N, Fill

\* Placeholders of parameters with arguments are filled, the others stay.
LEMMA PathIsFilled ==
  ASSUME NEW ep, WellFormed(ep), NEW args \in PlainArguments(ep), NEW s \in DOMAIN ep.path
  PROVE  /\ (\A p \in ParamsIn(ep, "path") : p.name \in DOMAIN args => Braced[p.name] # ep.path[s])
              => PathOf(ep, args)[s] = ep.path[s]
         /\ \A p \in ParamsIn(ep, "path") : p.name \in DOMAIN args /\ Braced[p.name] = ep.path[s]
              => PathOf(ep, args)[s] = args[p.name].text
<1> DEFINE N == Len(ep.params)
           Name(k) == ep.params[k].name
           Text(k) == GetString(args, Name(k))
           Given(k) == ep.params[k].in = "path" /\ Name(k) \in DOMAIN args
           Fill(k, v) == Filling(ep, args, k, v)
<1>1. N \in Nat /\ DOMAIN ep.params = 1 .. N
  BY LenProperties DEF WellFormed
<1>2. ASSUME NEW k \in 1 .. N, Given(k)
      PROVE  /\ Text(k) = args[Name(k)].text /\ Text(k) # "" /\ Text(k) \notin Placeholders
             /\ Name(k) \in DOMAIN Braced /\ Braced[Name(k)] \in Placeholders
  <2>1. Text(k) = args[Name(k)].text /\ Text(k) # "" /\ Text(k) \notin Placeholders
    <3> DEFINE n == Name(k)
    <3>1. n \in DOMAIN args
      BY <1>2
    <3> HIDE DEF n
    <3>2. GetString(args, n) = args[n].text /\ args[n].text # "" /\ args[n].text \notin Placeholders
      BY <3>1, PlainIsFound
    <3> QED BY <3>2 DEF n
  <2>2. Name(k) \in DOMAIN Braced
    BY <1>2 DEF WellFormed
  <2> QED BY <2>1, <2>2 DEF Placeholders
<1>3. ASSUME NEW k \in 1 .. N, ~ Given(k)
      PROVE  Text(k) = "" \/ ep.params[k].in # "path"
  <2> DEFINE n == Name(k)
  <2> HIDE DEF n
  <2>1. n \notin DOMAIN args => GetString(args, n) = ""
    BY PlainIsFound
  <2> QED BY <1>3, <2>1 DEF n
<1>7. PICK after :
        /\ after[0] = ep.path
        /\ \A k \in 1 .. N : after[k] = Fill(k, after[k - 1])
        /\ PathOf(ep, args) = after[N]
  BY PathByParameters
<1>8. PathOf(ep, args) = after[N]
  BY <1>7
<1> DEFINE Untouched(k) == (\A j \in 1 .. k : Given(j) => Braced[Name(j)] # ep.path[s])
                             => after[k][s] = ep.path[s]
           Filled(k) == \A j \in 1 .. k : Given(j) /\ Braced[Name(j)] = ep.path[s]
                             => after[k][s] = args[Name(j)].text
           S == {k \in Nat : k <= N => Untouched(k) /\ Filled(k)}
<1>9. 0 \in S
  <2>1. after[0] = ep.path
    <3> HIDE DEF N, Fill
    <3> QED BY <1>1, <1>7
  <2> HIDE DEF N, Given, Name
  <2> QED BY <1>1, <2>1
<1>10. ASSUME NEW m \in Nat, m \in S PROVE m + 1 \in S
  <2> SUFFICES ASSUME m + 1 <= N PROVE Untouched(m + 1) /\ Filled(m + 1)
    OBVIOUS
  <2> DEFINE k == m + 1
  <2>1. /\ k \in 1 .. N /\ k \in 0 .. N /\ k # 0 /\ k - 1 = m
        /\ \A j \in 1 .. k : j = k \/ j \in 1 .. m
        /\ \A j \in 1 .. m : j \in 1 .. k
        /\ \A j \in 1 .. k : j \in 1 .. N
    <3> HIDE DEF N
    <3> QED BY <1>1
  <2>2. Untouched(m) /\ Filled(m)
    <3> HIDE DEF Untouched, Filled, N
    <3> QED BY <1>1, <1>10
  <2>3. after[k] = Fill(k, after[m])
    <3> HIDE DEF N, Fill
    <3> QED BY <1>7, <2>1
  <2>4. CASE ~ Given(k)
    <3>1. after[k] = after[m]
      <4> HIDE DEF k
      <4> QED BY <1>3, <2>1, <2>3, <2>4 DEF Filling
    <3> HIDE DEF k, Given, Name
    <3> QED BY <2>1, <2>2, <2>4, <3>1
  <2>5. CASE Given(k)
    <3>1. after[k][s] = IF after[m][s] = Braced[Name(k)] THEN args[Name(k)].text ELSE after[m][s]
      <4>1. Text(k) = args[Name(k)].text /\ Text(k) # "" /\ ep.params[k].in = "path"
        BY <1>2, <2>1, <2>5
      <4> HIDE DEF k
      <4> QED BY <2>3, <4>1 DEF Filling
    <3>2. \A j \in 1 .. N : Given(j) =>
            /\ args[Name(j)].text \notin Placeholders
            /\ Name(j) \in DOMAIN Braced /\ Braced[Name(j)] \in Placeholders
      <4> HIDE DEF N
      <4> QED BY <1>2
    <3> HIDE DEF k, Given, Name, N
    <3>3. Untouched(k)
      BY <2>1, <2>2, <2>5, <3>1
    <3>4. ASSUME NEW j \in 1 .. k, Given(j), Braced[Name(j)] = ep.path[s]
          PROVE  after[k][s] = args[Name(j)].text
      <4>1. CASE \E h \in 1 .. m : Given(h) /\ Braced[Name(h)] = ep.path[s]
        <5>1. PICK h \in 1 .. m : Given(h) /\ Braced[Name(h)] = ep.path[s]
          BY <4>1
        <5>2. Name(h) = Name(j)
          BY <2>1, <3>2, <3>4, <5>1, BracedAssumption
        <5>3. after[m][s] = args[Name(j)].text
          BY <2>2, <5>1, <5>2
        <5>4. after[m][s] # Braced[Name(k)]
          BY <2>1, <2>5, <3>2, <3>4, <5>3
        <5> QED BY <3>1, <5>3, <5>4
      <4>2. CASE ~ \E h \in 1 .. m : Given(h) /\ Braced[Name(h)] = ep.path[s]
        <5>1. j = k
          BY <2>1, <3>4, <4>2
        <5>2. after[m][s] = ep.path[s]
          BY <2>2, <4>2
        <5> QED BY <3>1, <3>4, <5>1, <5>2
      <4> QED BY <4>1, <4>2
    <3>5. Filled(k)
      BY <3>4
    <3> QED BY <3>3, <3>5 DEF k
  <2> QED BY <2>4, <2>5
<1>11. Untouched(N) /\ Filled(N)
  <2> HIDE DEF S
  <2>1. N \in S
    BY <1>1, <1>9, <1>10, Induction
  <2> HIDE DEF Untouched, Filled, N
  <2> QED BY <1>1, <2>1 DEF S
<1>12. ASSUME NEW k \in 1 .. N, ep.params[k].in = "path" PROVE ep.params[k] \in ParamsIn(ep, "path")
  BY <1>1, <1>12 DEF ParamsIn
<1>13. ASSUME NEW p \in ParamsIn(ep, "path") PROVE \E k \in 1 .. N : p = ep.params[k] /\ p.in = "path"
  BY <1>1 DEF ParamsIn
<1>14. ASSUME \A p \in ParamsIn(ep, "path") : p.name \in DOMAIN args => Braced[p.name] # ep.path[s]
       PROVE  PathOf(ep, args)[s] = ep.path[s]
  <2>1. \A j \in 1 .. N : Given(j) => Braced[Name(j)] # ep.path[s]
    BY <1>12, <1>14
  <2> HIDE DEF N, Given, Name
  <2> QED BY <1>8, <1>11, <2>1
<1>15. ASSUME NEW p \in ParamsIn(ep, "path"), p.name \in DOMAIN args, Braced[p.name] = ep.path[s]
       PROVE  PathOf(ep, args)[s] = args[p.name].text
  <2>1. PICK k \in 1 .. N : p = ep.params[k] /\ p.in = "path"
    BY <1>13
  <2>2. Given(k) /\ Name(k) = p.name
    BY <1>15, <2>1
  <2> HIDE DEF N, Given, Name
  <2> QED BY <1>8, <1>11, <1>15, <2>2
<1> QED BY <1>14, <1>15

\* Only a placeholder without an argument keeps a request from being sent.
LEMMA PlainIsSent ==
  ASSUME NEW ep, WellFormed(ep), NEW args \in PlainArguments(ep)
  PROVE  Handle(ep, args).kind = IF Complete(ep, args) THEN "sent" ELSE "refused"
<1> DEFINE Stuck == \E s \in DOMAIN ep.path : PathOf(ep, args)[s] \in WithBrace
<1>1. Handle(ep, args).kind = IF Stuck THEN "refused" ELSE "sent"
  BY DEF Handle
<1>2. ASSUME Complete(ep, args), NEW s \in DOMAIN ep.path PROVE PathOf(ep, args)[s] \notin WithBrace
  <2>1. CASE \E p \in ParamsIn(ep, "path") : p.name \in DOMAIN args /\ Braced[p.name] = ep.path[s]
    <3>1. PICK p \in ParamsIn(ep, "path") : p.name \in DOMAIN args /\ Braced[p.name] = ep.path[s]
      BY <2>1
    <3>2. PathOf(ep, args)[s] = args[p.name].text
      BY <3>1, PathIsFilled
    <3>3. args[p.name].text \notin WithBrace
      BY <3>1, PlainIsFound
    <3> QED BY <3>2, <3>3
  <2>2. CASE \A p \in ParamsIn(ep, "path") : p.name \in DOMAIN args => Braced[p.name] # ep.path[s]
    <3>1. PathOf(ep, args)[s] = ep.path[s]
      BY <2>2, PathIsFilled
    <3>2. ep.path[s] \notin WithBrace
      BY <1>2, <2>2 DEF Complete
    <3> QED BY <3>1, <3>2
  <2> QED BY <2>1, <2>2
<1>3. ASSUME ~ Complete(ep, args) PROVE Stuck
  <2>1. PICK s \in DOMAIN ep.path :
          /\ ep.path[s] \in WithBrace
          /\ \A p \in ParamsIn(ep, "path") : p.name \in DOMAIN args => Braced[p.name] # ep.path[s]
    BY <1>3 DEF Complete
  <2>2. PathOf(ep, args)[s] = ep.path[s]
    BY <2>1, PathIsFilled
  <2> QED BY <2>1, <2>2
<1> QED BY <1>1, <1>2, <1>3

\* The path of a request that is sent has a text without a slash in every place.
LEMMA SentPathIsSlots ==
  ASSUME NEW ep, WellFormed(ep), NEW args \in PlainArguments(ep)
  PROVE  PathOf(ep, args) \in [DOMAIN ep.path -> Segments]
<1>1. PathOf(ep, args) = [t \in DOMAIN ep.path |-> PathOf(ep, args)[t]]
  BY PathByParameters
<1>2. ASSUME NEW s \in DOMAIN ep.path PROVE PathOf(ep, args)[s] \in Segments
  <2>1. CASE \E p \in ParamsIn(ep, "path") : p.name \in DOMAIN args /\ Braced[p.name] = ep.path[s]
    <3>1. PICK p \in ParamsIn(ep, "path") : p.name \in DOMAIN args /\ Braced[p.name] = ep.path[s]
      BY <2>1
    <3>2. PathOf(ep, args)[s] = args[p.name].text
      BY <3>1, PathIsFilled
    <3>3. args[p.name].text \in Segments
      BY <3>1, PlainIsFound
    <3> QED BY <3>2, <3>3
  <2>2. CASE \A p \in ParamsIn(ep, "path") : p.name \in DOMAIN args => Braced[p.name] # ep.path[s]
    <3>1. PathOf(ep, args)[s] = ep.path[s]
      BY <2>2, PathIsFilled
    <3>2. ep.path[s] \in Segments
      BY LenProperties DEF WellFormed
    <3> QED BY <3>1, <3>2
  <2> QED BY <2>1, <2>2
<1> QED BY <1>1, <1>2

\* What an argument says can be read off the request.
LEMMA ArgumentIsInRequest ==
  ASSUME NEW ep, WellFormed(ep),
         NEW args \in PlainArguments(ep), NEW other \in PlainArguments(ep),
         Handle(ep, args) = Handle(ep, other), Handle(ep, args).kind = "sent",
         NEW n \in DOMAIN args
  PROVE  n \in DOMAIN other /\ Meaning(ep, args, n) = Meaning(ep, other, n)
<1>1. /\ PathOf(ep, args) = PathOf(ep, other)
      /\ QueryOf(ep, args) = QueryOf(ep, other)
      /\ BodyOf(ep, args) = BodyOf(ep, other)
  <2>1. ASSUME NEW a, Handle(ep, a).kind = "sent"
        PROVE  /\ Handle(ep, a).path = Joined[PathOf(ep, a)]
               /\ Handle(ep, a).query = QueryOf(ep, a)
               /\ Handle(ep, a).body = BodyOf(ep, a)
    BY <2>1 DEF Handle
  <2>2. Joined[PathOf(ep, args)] = Joined[PathOf(ep, other)]
    BY <2>1
  <2>3. PathOf(ep, args) = PathOf(ep, other)
    BY <2>2, SentPathIsSlots DEF WellFormed
  <2> QED BY <2>1, <2>3
<1>2. Complete(ep, other)
  BY PlainIsSent
<1>3. GetString(args, n) = args[n].text /\ GetString(args, n) # ""
  <2>1. GetString(args, n) = args[n].text /\ args[n].text # ""
    BY PlainIsFound
  <2> QED BY <2>1
<1>4. n \in DOMAIN other => GetString(other, n) = other[n].text
  BY PlainIsFound
<1>5. n \notin DOMAIN other => GetString(other, n) = ""
  BY DEF GetString
<1>6. ASSUME n \in DOMAIN other, other[n].text = args[n].text
      PROVE  Meaning(ep, args, n) = Meaning(ep, other, n)
  <2>1. args[n] = Spelled(args[n].text) /\ other[n] = Spelled(other[n].text)
    BY <1>6, PlainIsFound
  <2> QED BY <1>6, <2>1 DEF Meaning
<1>7. CASE \E p \in ParamsIn(ep, "path") : p.name = n
  <2>1. PICK k \in DOMAIN ep.params : ep.params[k].in = "path" /\ ep.params[k].name = n
    BY <1>7 DEF ParamsIn
  <2>2. \A j \in DOMAIN ep.params : ep.params[j].in = "path" =>
          ep.params[j].name \in DOMAIN Braced /\ Braced[ep.params[j].name] \in Range(ep.path)
    BY LenProperties DEF WellFormed
  <2>3. PICK s \in DOMAIN ep.path : ep.path[s] = Braced[n]
    BY <2>1, <2>2 DEF Range
  <2>4. n \in DOMAIN Braced /\ ep.path[s] \in WithBrace
    BY <2>1, <2>2, <2>3, BracedAssumption DEF Placeholders
  <2>5. PathOf(ep, args)[s] = args[n].text
    <3>1. PICK p \in ParamsIn(ep, "path") : p.name = n
      BY <1>7
    <3>2. p.name \in DOMAIN args /\ Braced[p.name] = ep.path[s]
      BY <2>3, <3>1
    <3>3. PathOf(ep, args)[s] = args[p.name].text
      BY <3>1, <3>2, PathIsFilled
    <3> QED BY <3>1, <3>3
  <2>6. PICK q \in ParamsIn(ep, "path") : q.name \in DOMAIN other /\ Braced[q.name] = ep.path[s]
    BY <1>2, <2>4 DEF Complete
  <2>7. q.name = n
    <3>1. q.name \in DOMAIN Braced
      BY <2>2 DEF ParamsIn
    <3> QED BY <2>3, <2>4, <2>6, <3>1, BracedAssumption
  <2>8. PathOf(ep, other)[s] = other[q.name].text
    BY <2>6, PathIsFilled
  <2> QED BY <1>1, <1>6, <2>5, <2>6, <2>7, <2>8
<1>8. CASE \E p \in ParamsIn(ep, "query") : p.name = n
  <2>1. n \in DOMAIN QueryOf(ep, args) /\ QueryOf(ep, args)[n] = GetString(args, n)
    BY <1>3, <1>8 DEF QueryOf
  <2>2. GetString(other, n) # "" /\ QueryOf(ep, other)[n] = GetString(other, n)
    BY <1>1, <2>1 DEF QueryOf
  <2> QED BY <1>1, <1>3, <1>4, <1>5, <1>6, <2>1, <2>2
<1>9. CASE /\ \E b \in ep.body : b.name = n
           /\ ~ \E p \in ParamsIn(ep, "path") \union ParamsIn(ep, "query") : p.name = n
  <2>1. \A a : n \in DOMAIN BodyOf(ep, a) =>
          /\ GetString(a, n) # ""
          /\ BodyOf(ep, a)[n] = Converted(TypeIn(ep.body, n), GetString(a, n))
    BY DEF BodyOf
  <2>2. n \in DOMAIN BodyOf(ep, args)
    BY <1>3, <1>9 DEF BodyOf
  <2>3. n \in DOMAIN other
    BY <1>1, <1>5, <2>1, <2>2
  <2>4. Converted(TypeIn(ep.body, n), args[n].text) = Converted(TypeIn(ep.body, n), other[n].text)
    BY <1>1, <1>3, <1>4, <2>1, <2>2, <2>3
  <2> QED BY <1>9, <2>3, <2>4 DEF Meaning
<1>10. \/ \E p \in ParamsIn(ep, "path") : p.name = n
       \/ \E p \in ParamsIn(ep, "query") : p.name = n
       \/ \E b \in ep.body : b.name = n
  <2>1. n \in DOMAIN Declared(ep)
    BY PlainIsFound
  <2> QED BY <2>1 DEF Declared
<1> QED BY <1>7, <1>8, <1>9, <1>10

\* Plain arguments that make the same request say the same.
LEMMA RequestsDiffer ==
  ASSUME NEW ep, WellFormed(ep), NEW args \in PlainArguments(ep), NEW other \in PlainArguments(ep),
         Handle(ep, args) = Handle(ep, other), Handle(ep, args).kind = "sent"
  PROVE  SameMeaning(ep, args, other)
<1>1. \A n \in DOMAIN args : n \in DOMAIN other /\ Meaning(ep, args, n) = Meaning(ep, other, n)
  BY ArgumentIsInRequest
<1>2. \A n \in DOMAIN other : n \in DOMAIN args
  BY ArgumentIsInRequest
<1> QED BY <1>1, <1>2 DEF SameMeaning

\* No plain argument is lost, and none is mixed up with one that says something else,
\* whatever the parameters of the operation and the properties of its body.
THEOREM ArgumentsArrive == Spec => []StringArgumentsArrive
<1>1. Inv => StringArgumentsArrive
  <2> SUFFICES ASSUME Inv, call.tool \in DOMAIN tools,
                      call.args \in PlainArguments(tools[call.tool])
               PROVE  /\ request.kind = IF Complete(tools[call.tool], call.args)
                                          THEN "sent" ELSE "refused"
                      /\ \A other \in PlainArguments(tools[call.tool]) :
                           request.kind = "sent" /\ Handle(tools[call.tool], other) = request =>
                             SameMeaning(tools[call.tool], call.args, other)
    BY DEF StringArgumentsArrive
  <2> DEFINE ep == tools[call.tool]
  <2>1. request = Handle(ep, call.args)
    BY DEF Inv
  <2>2. WellFormed(ep)
    <3>1. phase = "serving" /\ tools = Generated
      BY DEF Inv, NoTools
    <3>2. PICK j \in 1 .. i - 1 : tools[call.tool] = endpoints[j]
      BY <3>1, GeneratedFromResults
    <3>3. j \in DOMAIN endpoints
      BY ListOfEndpoints DEF Inv, LoopInv
    <3> QED BY <3>2, <3>3, ListOfEndpoints, ParsedIsWellFormed DEF Inv
  <2> HIDE DEF ep
  <2>3. call.args \in PlainArguments(ep)
    BY DEF ep
  <2>4. request.kind = IF Complete(ep, call.args) THEN "sent" ELSE "refused"
    BY <2>1, <2>2, <2>3, PlainIsSent
  <2>5. \A other \in PlainArguments(ep) :
          request.kind = "sent" /\ Handle(ep, other) = request => SameMeaning(ep, call.args, other)
    BY <2>1, <2>2, <2>3, RequestsDiffer
  <2> QED BY <2>4, <2>5 DEF ep
<1> QED BY NamesInOrder, <1>1, PTL
=============================================================================
