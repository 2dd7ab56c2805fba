-------------------------- MODULE MappedDns_proofs --------------------------
(***************************************************************************)
(* DnsInv, AnswersHold and NameKept for every cache size and set of names. *)
(* The step that matters is Replace: the head of the list has all other    *)
(* nodes behind it, so Max - 1 of them, and the new name makes Max.        *)
(***************************************************************************)
EXTENDS MappedDns, FiniteSetTheorems, TLAPS

\* In a request every name answered so far was used at one of its questions,
\* so fewer names than questions came after it.  Between requests there is none.
AnswersFresh ==
  /\ ~open => answers = {}
  /\ \A a \in answers : /\ a[1] \in Nodes /\ a[2] = idx[a[1]]
                            /\ Cardinality(others[a[1]]) < asked

IInv == DnsInv /\ AnswersFresh

\* Sets of names are finite.
LEMMA NamesFinite == ASSUME NEW S \in SUBSET Names
                     PROVE  IsFiniteSet(S) /\ Cardinality(S) \in Nat
  BY FS_Subset, FS_CardinalityType, DnsAssumption

\* One more name makes a set larger by at most one.
LEMMA OneMore ==
  ASSUME NEW S \in SUBSET Names, NEW n \in Names
  PROVE  Cardinality(S \cup {n}) = IF n \in S THEN Cardinality(S) ELSE Cardinality(S) + 1
  BY FS_AddElement, NamesFinite

\* One name less makes it smaller by one.
LEMMA OneLess ==
  ASSUME NEW S \in SUBSET Names, NEW n \in S
  PROVE  Cardinality(S \ {n}) = Cardinality(S) - 1
  BY FS_RemoveElement, NamesFinite

-----------------------------------------------------------------------------
(* What the steps do to the nodes *)

LEMMA HitNodes == ASSUME NEW n \in Names, Hit(n), DnsInv
                  PROVE  Nodes' = Nodes
  BY DEF Hit, Nodes

LEMMA GrowNodes == ASSUME NEW n \in Names, Grow(n), DnsInv
                   PROVE  Nodes' = Nodes \cup {n}
  BY DnsAssumption DEF Grow, Nodes, DnsInv, TypeOK, NoIdx

LEMMA ReplaceNodes ==
  ASSUME NEW n \in Names, n \notin Nodes, DnsInv, NEW f \in Nodes,
         idx' = [idx EXCEPT ![n] = idx[f], ![f] = NoIdx]
  PROVE  Nodes' = (Nodes \ {f}) \cup {n}
  BY DnsAssumption DEF Nodes, DnsInv, TypeOK, NoIdx

\* The head of the list has Max other names behind it once a new one comes.
LEMMA HeadIsOld ==
  ASSUME NEW n \in Names, n \notin Nodes, NEW f \in Nodes, First(f), use = Max,
         DnsInv, Used(n)
  PROVE  Cardinality(others[f]) = Max - 1 /\ Cardinality(others'[f]) = Max
<1>1. Nodes \subseteq Names
  BY DEF Nodes
<1>2. others[f] = Nodes \ {f}
  BY DEF DnsInv, ListInOrder, First
<1>3. Cardinality(Nodes) = Max
  BY DEF DnsInv, RecordsMatch
<1>4. Cardinality(others[f]) = Max - 1
  BY <1>1, <1>2, <1>3, OneLess
<1>5. others'[f] = others[f] \cup {n} /\ n \notin others[f]
  BY <1>1, <1>2 DEF Used
<1>6. others[f] \in SUBSET Names
  BY <1>1, <1>2
<1> QED
  BY <1>4, <1>5, <1>6, OneMore, DnsAssumption

-----------------------------------------------------------------------------
(* DnsInv is inductive *)

LEMMA InitInv == Init => IInv
<1> SUFFICES ASSUME Init PROVE IInv
  OBVIOUS
<1>1. Nodes = {}
  BY DEF Init, Nodes
<1>2. Cardinality(Nodes) = 0
  BY <1>1, FS_EmptySet
<1>3. TypeOK
  <2>1. NoIdx \in 0..Max /\ 0 \in 0..Max /\ 0 \in 0..MaxQuestions
    BY DnsAssumption DEF NoIdx
  <2> QED
    BY <2>1 DEF Init, TypeOK
<1>4. RecordsMatch
  BY <1>1, <1>2, DnsAssumption DEF Init, RecordsMatch
<1>5. ListInOrder
  BY <1>1 DEF Init, ListInOrder
<1>6. AnswersFresh
  BY DEF Init, AnswersFresh
<1> QED
  BY <1>3, <1>4, <1>5, <1>6 DEF IInv, DnsInv

LEMMA FindType == ASSUME NEW n \in Names, Find(n), DnsInv
                  PROVE  /\ use' \in 0..Max /\ idx' \in [Names -> 0..Max]
                         /\ later' \in [Names -> SUBSET Names]
                         /\ records' \in [0..(Max - 1) -> Names \cup {NoName}]
                         /\ others' \in [Names -> SUBSET Names]
<1>1. others' \in [Names -> SUBSET Names]
  BY DEF Find, Used, DnsInv, TypeOK
<1>2. AtTail(n) \in [Names -> SUBSET Names]
  BY DEF AtTail, DnsInv, TypeOK
<1>3. CASE Hit(n)
  BY <1>1, <1>2, <1>3 DEF Hit, DnsInv, TypeOK
<1>4. CASE Grow(n)
  BY <1>1, <1>2, <1>4, DnsAssumption DEF Grow, DnsInv, TypeOK
<1>5. CASE Replace(n)
  <2>1. PICK f \in Names :
          /\ later' = [m \in Names |-> IF m = f THEN {} ELSE AtTail(n)[m] \ {f}]
          /\ idx' = [idx EXCEPT ![n] = idx[f], ![f] = NoIdx]
          /\ records' = [records EXCEPT ![idx[f]] = n]
    BY <1>5 DEF Replace
  <2>2. later' \in [Names -> SUBSET Names]
    BY <1>2, <2>1
  <2> QED
    BY <1>1, <1>5, <2>1, <2>2, DnsAssumption DEF Replace, DnsInv, TypeOK, NoIdx
<1> QED
  BY <1>3, <1>4, <1>5 DEF Find

LEMMA HitMatch == ASSUME NEW n \in Names, Hit(n), DnsInv
                  PROVE  RecordsMatch'
<1>1. Nodes' = Nodes
  BY HitNodes
<1> QED
  BY <1>1 DEF Hit, DnsInv, RecordsMatch

LEMMA GrowMatch == ASSUME NEW n \in Names, Grow(n), DnsInv
                   PROVE  RecordsMatch'
<1>1. Nodes' = Nodes \cup {n} /\ n \notin Nodes /\ Nodes \subseteq Names
  BY GrowNodes DEF Grow, Nodes
<1>2. Cardinality(Nodes') = use'
  BY <1>1, OneMore DEF Grow, DnsInv, RecordsMatch
<1>3. \A i \in 0..(Max - 1) : IF i < use' THEN records'[i] \in Names /\ idx'[records'[i]] = i
                                          ELSE records'[i] = NoName
  <2> SUFFICES ASSUME NEW i \in 0..(Max - 1)
               PROVE  IF i < use' THEN records'[i] \in Names /\ idx'[records'[i]] = i
                                  ELSE records'[i] = NoName
    OBVIOUS
  <2>1. CASE i = use
    BY <2>1, DnsAssumption DEF Grow, DnsInv, TypeOK
  <2>2. CASE i < use
    <3>1. records[i] \in Names /\ idx[records[i]] = i
      BY <2>2 DEF DnsInv, RecordsMatch
    <3>2. records[i] # n
      BY <3>1, DnsAssumption DEF Grow, Nodes, NoIdx
    <3> QED
      BY <2>2, <3>1, <3>2, DnsAssumption DEF Grow, DnsInv, TypeOK
  <2>3. CASE i > use
    <3>1. records[i] = NoName /\ use \in 0..Max
      BY <2>3 DEF DnsInv, TypeOK, RecordsMatch
    <3> QED
      BY <2>3, <3>1, DnsAssumption DEF Grow, DnsInv, TypeOK
  <2> QED
    BY <2>1, <2>2, <2>3, DnsAssumption DEF DnsInv, TypeOK
<1>4. ASSUME NEW m \in Nodes' PROVE idx'[m] < use' /\ records'[idx'[m]] = m
  <2>1. CASE m = n
    BY <2>1, DnsAssumption DEF Grow, DnsInv, TypeOK
  <2>2. CASE m # n
    <3>1. m \in Nodes /\ idx[m] < use /\ records[idx[m]] = m
      BY <1>1, <1>4, <2>2 DEF DnsInv, RecordsMatch
    <3>2. m \in Names /\ idx[m] \in 0..Max /\ use \in 0..Max
      BY <1>1, <3>1 DEF DnsInv, TypeOK
    <3>3. idx'[m] = idx[m] /\ use' = use + 1 /\ records' = [records EXCEPT ![use] = n]
      BY <2>2, <3>2 DEF Grow, DnsInv, TypeOK
    <3>4. records'[idx[m]] = records[idx[m]]
      BY <3>1, <3>2, <3>3, DnsAssumption DEF DnsInv, TypeOK
    <3> QED
      BY <3>1, <3>2, <3>3, <3>4, DnsAssumption
  <2> QED
    BY <2>1, <2>2
<1> QED
  BY <1>2, <1>3, <1>4 DEF RecordsMatch

LEMMA ReplaceMatch == ASSUME NEW n \in Names, Replace(n), DnsInv
                      PROVE  RecordsMatch'
<1>1. PICK f \in Names : /\ First(f)
                         /\ idx' = [idx EXCEPT ![n] = idx[f], ![f] = NoIdx]
                         /\ records' = [records EXCEPT ![idx[f]] = n]
  BY DEF Replace
<1>2. f \in Nodes /\ n \notin Nodes /\ n # f /\ Nodes \subseteq Names /\ use = Max /\ use' = Max
  BY <1>1 DEF First, Nodes, Replace
<1>3. Nodes' = (Nodes \ {f}) \cup {n}
  BY <1>1, <1>2, ReplaceNodes
<1>4. idx[f] \in 0..(Max - 1) /\ records[idx[f]] = f
  BY <1>2, DnsAssumption DEF DnsInv, TypeOK, RecordsMatch
<1>5. Cardinality(Nodes') = use'
  <2>1. Cardinality(Nodes \ {f}) = Max - 1
    BY <1>2, OneLess DEF DnsInv, RecordsMatch
  <2> QED
    BY <1>2, <1>3, <2>1, OneMore, DnsAssumption
<1>6. ASSUME NEW i \in 0..(Max - 1)
      PROVE  records'[i] \in Names /\ idx'[records'[i]] = i
  <2>1. CASE i = idx[f]
    BY <1>1, <1>2, <1>4, <2>1, DnsAssumption DEF DnsInv, TypeOK
  <2>2. CASE i # idx[f]
    <3>1. records[i] \in Names /\ idx[records[i]] = i /\ i # NoIdx
      BY <1>2, DnsAssumption DEF DnsInv, RecordsMatch, NoIdx
    <3>2. records[i] # n /\ records[i] # f
      BY <1>2, <2>2, <3>1 DEF Nodes
    <3> QED
      BY <1>1, <2>2, <3>1, <3>2, DnsAssumption DEF DnsInv, TypeOK
  <2> QED
    BY <2>1, <2>2
<1>7. ASSUME NEW m \in Nodes' PROVE idx'[m] < use' /\ records'[idx'[m]] = m
  <2>1. CASE m = n
    BY <1>1, <1>2, <1>4, <2>1, DnsAssumption DEF DnsInv, TypeOK
  <2>2. CASE m # n
    <3>1. m \in Nodes /\ m # f
      BY <1>3, <2>2, <1>7
    <3>2. idx[m] \in 0..(Max - 1) /\ records[idx[m]] = m
      BY <1>2, <3>1, DnsAssumption DEF DnsInv, TypeOK, RecordsMatch
    <3>3. idx'[m] = idx[m] /\ idx[m] # idx[f]
      BY <1>1, <1>2, <1>4, <2>2, <3>1, <3>2 DEF DnsInv, TypeOK
    <3> QED
      BY <1>1, <1>2, <3>2, <3>3, DnsAssumption DEF DnsInv, TypeOK
  <2> QED
    BY <2>1, <2>2
<1>8. \A i \in 0..(Max - 1) : i < use'
  BY <1>2, DnsAssumption
<1> QED
  BY <1>5, <1>6, <1>7, <1>8 DEF RecordsMatch

\* A name of the list goes to its tail, or a new one does.
LEMMA TailInOrder ==
  ASSUME NEW n \in Names, DnsInv, later' = AtTail(n), Used(n),
         Nodes' = Nodes \cup {n}
  PROVE  ListInOrder'
<1>1. Nodes \subseteq Names
  BY DEF Nodes
<1>2. ASSUME NEW m \in Nodes' PROVE later'[m] \subseteq Nodes' \ {m} /\ others'[m] = later'[m]
  BY <1>1, <1>2 DEF AtTail, Used, DnsInv, ListInOrder
<1>3. ASSUME NEW m \in Names \ Nodes' PROVE later'[m] = {}
  BY <1>3 DEF AtTail
<1>4. ASSUME NEW m \in Nodes', NEW k \in Nodes', m # k
      PROVE  m \in later'[k] <=> k \notin later'[m]
  BY <1>1, <1>4 DEF AtTail, DnsInv, ListInOrder
<1> QED
  BY <1>2, <1>3, <1>4 DEF ListInOrder

LEMMA FindInOrder == ASSUME NEW n \in Names, Find(n), DnsInv
                     PROVE  ListInOrder'
<1>1. CASE Hit(n)
  <2>1. Nodes' = Nodes \cup {n}
    BY <1>1, HitNodes DEF Hit
  <2> QED
    BY <1>1, <2>1, TailInOrder DEF Hit, Find
<1>2. CASE Grow(n)
  BY <1>2, GrowNodes, TailInOrder DEF Grow, Find
<1>3. CASE Replace(n)
  <2>1. PICK f \in Names :
          /\ First(f)
          /\ later' = [m \in Names |-> IF m = f THEN {} ELSE AtTail(n)[m] \ {f}]
          /\ idx' = [idx EXCEPT ![n] = idx[f], ![f] = NoIdx]
    BY <1>3 DEF Replace
  <2>2. f \in Nodes /\ n \notin Nodes /\ Nodes \subseteq Names
    BY <1>3, <2>1 DEF First, Nodes, Replace
  <2>3. Nodes' = (Nodes \ {f}) \cup {n}
    BY <2>1, <2>2, ReplaceNodes
  <2>4. \A m \in Nodes : m # f => f \notin later[m]
    BY <2>1, <2>2 DEF First, DnsInv, ListInOrder
  <2>5. ASSUME NEW m \in Nodes' PROVE later'[m] \subseteq Nodes' \ {m} /\ others'[m] = later'[m]
    <3>1. CASE m = n
      BY <2>1, <2>2, <3>1 DEF AtTail, Used, Find
    <3>2. CASE m # n
      <4>1. m \in Nodes /\ m # f /\ m \in Names
        BY <2>2, <2>3, <2>5, <3>2
      <4>2. later'[m] = (later[m] \cup {n}) \ {f}
        BY <2>1, <3>2, <4>1 DEF AtTail
      <4>3. others'[m] = others[m] \cup {n} /\ others[m] = later[m] /\ later[m] \subseteq Nodes \ {m}
        BY <3>2, <4>1 DEF Used, Find, DnsInv, ListInOrder
      <4> QED
        BY <2>2, <2>3, <2>4, <3>2, <4>1, <4>2, <4>3
    <3> QED
      BY <3>1, <3>2
  <2>6. ASSUME NEW m \in Names \ Nodes' PROVE later'[m] = {}
    BY <2>1, <2>2, <2>3, <2>6 DEF AtTail
  <2>7. ASSUME NEW m \in Nodes', NEW k \in Nodes', m # k
        PROVE  m \in later'[k] <=> k \notin later'[m]
    <3>1. m \in Names /\ k \in Names /\ m # f /\ k # f
      BY <2>2, <2>3, <2>7
    <3>2. m \in later'[k] <=> m \in AtTail(n)[k]
      BY <2>1, <3>1
    <3>3. k \in later'[m] <=> k \in AtTail(n)[m]
      BY <2>1, <3>1
    <3>4. m \in AtTail(n)[k] <=> k \notin AtTail(n)[m]
      BY <2>2, <2>3, <2>7, <3>1 DEF AtTail, DnsInv, ListInOrder
    <3> QED
      BY <3>2, <3>3, <3>4
  <2> QED
    BY <2>5, <2>6, <2>7 DEF ListInOrder
<1> QED
  BY <1>1, <1>2, <1>3 DEF Find

\* A name used keeps or gets an index, and every other node keeps its own
\* unless Max names came after it.
LEMMA FindKeeps ==
  ASSUME NEW n \in Names, Find(n), DnsInv
  PROVE  /\ n \in Nodes' /\ others'[n] = {}
         /\ \A m \in Nodes : m # n /\ Cardinality(others[m]) < Max - 1
                               => m \in Nodes' /\ idx'[m] = idx[m]
         /\ \A m \in Nodes : Cardinality(others'[m]) < Max
                               => m \in Nodes' /\ idx'[m] = idx[m]
<1>0. others'[n] = {}
  BY DEF Find, Used
<1>1. CASE Hit(n)
  BY <1>0, <1>1, HitNodes DEF Hit
<1>2. CASE Grow(n)
  <2>1. Nodes' = Nodes \cup {n}
    BY <1>2, GrowNodes
  <2>2. \A m \in Nodes : m \in Names /\ m # n
    BY <1>2 DEF Grow, Nodes
  <2> QED
    BY <1>0, <1>2, <2>1, <2>2 DEF Grow, DnsInv, TypeOK
<1>3. CASE Replace(n)
  <2>1. PICK f \in Names : First(f) /\ idx' = [idx EXCEPT ![n] = idx[f], ![f] = NoIdx]
    BY <1>3 DEF Replace
  <2>2. f \in Nodes /\ n \notin Nodes /\ Nodes \subseteq Names /\ use = Max
    BY <1>3, <2>1 DEF First, Nodes, Replace
  <2>3. Nodes' = (Nodes \ {f}) \cup {n}
    BY <2>1, <2>2, ReplaceNodes
  <2>4. Cardinality(others[f]) = Max - 1 /\ Cardinality(others'[f]) = Max
    BY <2>1, <2>2, HeadIsOld DEF Find
  <2>5. \A m \in Nodes : m # f => m \in Nodes' /\ idx'[m] = idx[m]
    BY <2>1, <2>2, <2>3 DEF DnsInv, TypeOK
  <2>6. ~(Max - 1 < Max - 1) /\ ~(Max < Max)
    BY DnsAssumption
  <2> QED
    BY <1>0, <2>3, <2>4, <2>5, <2>6
<1> QED
  BY <1>1, <1>2, <1>3 DEF Find

-----------------------------------------------------------------------------
LEMMA NameStep == ASSUME IInv, NEW n \in Names, HandleName(n)
                  PROVE  IInv'
<1>1. Find(n) /\ DnsInv /\ open /\ asked < MaxQuestions
  BY DEF HandleName, IInv
<1>2. /\ use' \in 0..Max /\ idx' \in [Names -> 0..Max]
      /\ later' \in [Names -> SUBSET Names]
      /\ records' \in [0..(Max - 1) -> Names \cup {NoName}]
      /\ others' \in [Names -> SUBSET Names]
  BY <1>1, FindType
<1>3. /\ asked' = asked + 1 /\ answers' = answers \cup {<<n, idx'[n]>>} /\ open' = open
      /\ asked \in 0..MaxQuestions
  BY DEF HandleName, IInv, DnsInv, TypeOK
<1>4. idx'[n] \in 0..Max
  BY <1>2
<1>5. asked' \in 0..MaxQuestions /\ answers' \subseteq Names \X (0..Max) /\ open' \in BOOLEAN
  BY <1>1, <1>3, <1>4, DnsAssumption DEF DnsInv, TypeOK
<1>6. TypeOK'
  BY <1>2, <1>5 DEF TypeOK
<1>7. RecordsMatch'
  BY <1>1, HitMatch, GrowMatch, ReplaceMatch DEF Find
<1>8. ListInOrder'
  BY <1>1, FindInOrder
<1>9. AnswersFresh'
  <2> SUFFICES ASSUME NEW a \in answers'
               PROVE  /\ a[1] \in Nodes' /\ a[2] = idx'[a[1]]
                      /\ Cardinality(others'[a[1]]) < asked'
    BY <1>1, <1>3 DEF AnswersFresh
  <2>1. CASE a = <<n, idx'[n]>> \/ a[1] = n
    <3>1. n \in Nodes' /\ others'[n] = {}
      BY <1>1, FindKeeps
    <3>2. Cardinality(others'[n]) < asked'
      BY <1>3, <1>5, <3>1, FS_EmptySet, DnsAssumption
    <3>3. a[1] = n
      BY <2>1
    <3>4. CASE a = <<n, idx'[n]>>
      BY <3>1, <3>2, <3>4
    <3>5. CASE a \in answers
      <4>1. n \in Nodes /\ a[2] = idx[n]
        BY <3>3, <3>5 DEF IInv, AnswersFresh
      <4>2. idx'[n] = idx[n]
        BY <1>1, <4>1 DEF Find, Hit, Grow, Replace
      <4> QED
        BY <3>1, <3>2, <3>3, <4>1, <4>2
    <3> QED
      BY <1>3, <2>1, <3>4, <3>5
  <2>2. CASE a \in answers /\ a[1] # n
    <3>1. a[1] \in Nodes /\ a[2] = idx[a[1]] /\ Cardinality(others[a[1]]) < asked
      BY <2>2 DEF IInv, AnswersFresh
    <3>2. a[1] \in Names /\ others[a[1]] \in SUBSET Names
      BY <3>1 DEF Nodes, IInv, DnsInv, TypeOK
    <3>3. Cardinality(others[a[1]]) \in Nat
      BY <3>2, NamesFinite
    <3>4. Cardinality(others[a[1]]) < Max - 1
      BY <1>1, <1>3, <3>1, <3>3, DnsAssumption
    <3>5. a[1] \in Nodes' /\ idx'[a[1]] = idx[a[1]]
      BY <1>1, <2>2, <3>1, <3>4, FindKeeps
    <3>6. others'[a[1]] = others[a[1]] \cup {n}
      BY <1>1, <2>2, <3>2 DEF Find, Used
    <3>7. Cardinality(others'[a[1]]) < asked'
      BY <1>3, <1>5, <3>1, <3>2, <3>3, <3>6, OneMore
    <3> QED
      BY <3>1, <3>5, <3>7
  <2> QED
    BY <1>3, <2>1, <2>2
<1> QED
  BY <1>6, <1>7, <1>8, <1>9 DEF IInv, DnsInv

LEMMA LookupStep == ASSUME IInv, NEW i \in 0..(Max - 1), Lookup(i)
                    PROVE  IInv' /\ idx' = idx /\ records' = records
<1> DEFINE n == records[i]
<1>1. n \in Names /\ n \in Nodes /\ DnsInv
  BY DnsAssumption DEF Lookup, IInv, DnsInv, RecordsMatch, Nodes, NoIdx
<1>2. later' = AtTail(n) /\ Used(n) /\ UNCHANGED <<use, idx, records, open, asked, answers>> /\ ~open
  BY DEF Lookup, request
<1>3. Nodes' = Nodes
  BY <1>2 DEF Nodes
<1>4. Nodes' = Nodes \cup {n}
  BY <1>1, <1>3
<1>5. TypeOK'
  BY <1>1, <1>2 DEF DnsInv, TypeOK, AtTail, Used
<1>6. RecordsMatch'
  BY <1>2, <1>3 DEF IInv, DnsInv, RecordsMatch
<1>7. ListInOrder'
  BY <1>1, <1>2, <1>4, TailInOrder
<1>8. AnswersFresh'
  BY <1>2 DEF IInv, AnswersFresh
<1> QED
  BY <1>2, <1>5, <1>6, <1>7, <1>8 DEF IInv, DnsInv

\* A step that only starts, extends or ends a request.
LEMMA RequestStep == ASSUME IInv, HandleBegin \/ HandleOther \/ HandleEnd
                     PROVE  IInv' /\ idx' = idx /\ records' = records
<1>1. UNCHANGED <<use, idx, later, records, others>>
  BY DEF HandleBegin, HandleOther, HandleEnd, cache
<1>2. Nodes' = Nodes
  BY <1>1 DEF Nodes
<1>3. RecordsMatch' /\ ListInOrder'
  BY <1>1, <1>2 DEF IInv, DnsInv, RecordsMatch, ListInOrder
<1>4. CASE HandleBegin \/ HandleEnd
  <2>1. open' \in BOOLEAN /\ asked' = 0 /\ answers' = {}
    BY <1>4 DEF HandleBegin, HandleEnd
  <2>2. TypeOK'
    BY <1>1, <2>1, DnsAssumption DEF IInv, DnsInv, TypeOK
  <2>3. AnswersFresh'
    BY <2>1 DEF AnswersFresh
  <2> QED
    BY <1>1, <1>3, <2>2, <2>3 DEF IInv, DnsInv
<1>5. CASE HandleOther
  <2>1. asked' = asked + 1 /\ asked < MaxQuestions /\ open /\ UNCHANGED <<open, answers>>
    BY <1>5 DEF HandleOther
  <2>2. asked \in 0..MaxQuestions
    BY DEF IInv, DnsInv, TypeOK
  <2>3. TypeOK'
    BY <1>1, <2>1, <2>2, DnsAssumption DEF IInv, DnsInv, TypeOK
  <2>4. \A a \in answers : Cardinality(others[a[1]]) \in Nat
    <3> SUFFICES ASSUME NEW a \in answers PROVE Cardinality(others[a[1]]) \in Nat
      OBVIOUS
    <3>1. others[a[1]] \in SUBSET Names
      BY DEF IInv, AnswersFresh, DnsInv, TypeOK, Nodes
    <3> QED
      BY <3>1, NamesFinite
  <2>5. AnswersFresh'
    BY <1>1, <1>2, <2>1, <2>2, <2>4 DEF IInv, AnswersFresh
  <2> QED
    BY <1>1, <1>3, <2>3, <2>5 DEF IInv, DnsInv
<1> QED
  BY <1>1, <1>4, <1>5

LEMMA NextInv == IInv /\ [Next]_vars => IInv'
<1> SUFFICES ASSUME IInv, [Next]_vars PROVE IInv'
  OBVIOUS
<1>1. CASE HandleBegin \/ HandleOther \/ HandleEnd
  BY <1>1, RequestStep
<1>2. ASSUME NEW n \in Names, HandleName(n) PROVE IInv'
  BY <1>2, NameStep
<1>3. ASSUME NEW i \in 0..(Max - 1), Lookup(i) PROVE IInv'
  BY <1>3, LookupStep
<1>4. CASE UNCHANGED vars
  BY <1>4 DEF vars, cache, request, IInv, DnsInv, TypeOK, RecordsMatch, ListInOrder, AnswersFresh, Nodes
<1> QED
  BY <1>1, <1>2, <1>3, <1>4 DEF Next

-----------------------------------------------------------------------------
\* Tree, records and list of the mapped DNS agree, whatever the cache size
\* (hev-mapped-dns.c:102-154, 261-279).
THEOREM DnsInvariance == Spec => []DnsInv
<1>1. IInv => DnsInv
  BY DEF IInv
<1> QED
  BY <1>1, InitInv, NextInv, PTL DEF Spec

\* Every address in an answer leads to the name it was asked for, as long as
\* the cache is not smaller than a request (hev-mapped-dns.c:208-239).
THEOREM AnswersHoldAlways == Spec => []AnswersHold
<1>1. IInv => AnswersHold
  <2> SUFFICES ASSUME IInv, NEW a \in answers
               PROVE  a[2] < Max /\ records[a[2]] = a[1]
    BY DEF AnswersHold
  <2>1. a[1] \in Nodes /\ a[2] = idx[a[1]]
    BY DEF IInv, AnswersFresh
  <2>2. idx[a[1]] < use /\ records[idx[a[1]]] = a[1] /\ use \in 0..Max /\ idx[a[1]] \in 0..Max
    BY <2>1 DEF IInv, DnsInv, RecordsMatch, TypeOK, Nodes
  <2> QED
    BY <2>1, <2>2, DnsAssumption
<1> QED
  BY <1>1, InitInv, NextInv, PTL DEF Spec

\* A name keeps its address until Max other names were used
\* (hev-mapped-dns.c:121-122, 141-147, 275-276).
THEOREM NameKeptAlways == Spec => NameKept
<1> DEFINE Kept == \A n \in Nodes : Cardinality(others'[n]) < Max
                     => idx'[n] = idx[n] /\ records'[idx[n]] = n
<1>1. ASSUME IInv, IInv', [Next]_vars PROVE [Kept]_vars
  <2> SUFFICES ASSUME Next, NEW m \in Nodes, Cardinality(others'[m]) < Max
               PROVE  idx'[m] = idx[m] /\ records'[idx[m]] = m
    BY <1>1
  <2>1. records[idx[m]] = m
    BY <1>1 DEF IInv, DnsInv, RecordsMatch
  <2>2. CASE HandleBegin \/ HandleOther \/ HandleEnd
    BY <1>1, <2>1, <2>2, RequestStep
  <2>3. ASSUME NEW n \in Names, HandleName(n) PROVE idx'[m] = idx[m] /\ records'[idx[m]] = m
    <3>1. Find(n) /\ DnsInv
      BY <1>1, <2>3 DEF HandleName, IInv
    <3>2. m \in Nodes' /\ idx'[m] = idx[m]
      BY <3>1, FindKeeps
    <3>3. records'[idx'[m]] = m
      BY <1>1, <3>2 DEF IInv, DnsInv, RecordsMatch
    <3> QED
      BY <3>2, <3>3
  <2>4. ASSUME NEW i \in 0..(Max - 1), Lookup(i) PROVE idx'[m] = idx[m] /\ records'[idx[m]] = m
    BY <1>1, <2>1, <2>4, LookupStep
  <2> QED
    BY <2>2, <2>3, <2>4 DEF Next
<1> QED
  BY <1>1, InitInv, NextInv, PTL DEF Spec, NameKept
=============================================================================
