-------------------------- MODULE FormatParsingProofs --------------------------
(***************************************************************************)
(* Proofs about FormatParsing, for every document and every table of        *)
(* formats.  What the recursive conversion of XML computes is proved by the *)
(* least counterexample: a set of naturals that is not empty has a least    *)
(* member.                                                                 *)
(***************************************************************************)
EXTENDS FormatParsing, FiniteSetTheorems, SequenceTheorems,
        WellFoundedInduction, TLAPS

(* A set of natural numbers that is not empty has a least member.          *)
LEMMA LeastMember ==
  ASSUME NEW T, T \subseteq Nat, T # {}
  PROVE  \E x \in T : \A y \in T : x <= y
<1> DEFINE below == OpToRel(<, Nat)
<1>1. IsWellFoundedOn(below, Nat)
  BY NatLessThanWellFounded
<1>2. \A x, y \in Nat : y < x => <<y, x>> \in below
  BY DEF OpToRel
<1> HIDE DEF below
<1>3. PICK x \in T : \A y \in T : ~ (<<y, x>> \in below)
  BY <1>1, WFMin
<1>4. ASSUME NEW y \in T PROVE x <= y
  <2>1. ~ (y < x)  BY <1>2, <1>3
  <2> QED  BY <2>1
<1> QED  BY <1>3, <1>4
-----------------------------------------------------------------------------
(* The dictionaries after each of the first last children of e.            *)
IsMerge(result, e, values, last) ==
  result = [n \in 0..last |->
              IF n = 0 THEN Attributes(e)
              ELSE Added(result[n - 1], e.children[n].tag, values[n])]

(* The loop over the children is defined for every number of them.         *)
LEMMA MergeExists ==
  ASSUME NEW e, NEW values, NEW last \in Nat
  PROVE  \E result : IsMerge(result, e, values, last)
<1> DEFINE T == {k \in Nat : ~ \E result : IsMerge(result, e, values, k)}
<1> SUFFICES ASSUME T # {} PROVE FALSE
  OBVIOUS
<1>1. PICK k \in T : \A n \in T : k <= n
  <2> HIDE DEF T
  <2>1. T \subseteq Nat  BY DEF T
  <2> QED  BY <2>1, LeastMember
<1>2. CASE k = 0
  <2>1. IsMerge([n \in 0..0 |-> Attributes(e)], e, values, 0)
    BY DEF IsMerge
  <2> QED  BY <1>2, <2>1
<1>3. CASE k # 0
  <2>1. k \in Nat /\ k - 1 \in Nat /\ ~ (k <= k - 1)
    BY <1>3
  <2>2. PICK before : IsMerge(before, e, values, k - 1)
    BY <1>1, <2>1
  <2> DEFINE result == [n \in 0..k |->
                          IF n < k THEN before[n]
                          ELSE Added(before[k - 1], e.children[k].tag, values[k])]
  <2>3. ASSUME NEW n \in 0..k
        PROVE  result[n] = IF n = 0 THEN Attributes(e)
                           ELSE Added(result[n - 1], e.children[n].tag, values[n])
    <3>1. CASE n = k
      <4>1. result[n] = Added(before[k - 1], e.children[k].tag, values[k])
        BY <3>1
      <4>2. k - 1 \in 0..k /\ k - 1 < k  BY <2>1
      <4>3. result[n - 1] = before[k - 1]  BY <3>1, <4>2
      <4> QED  BY <3>1, <1>3, <4>1, <4>3
    <3>2. CASE n # k
      <4>1. n \in 0..(k - 1) /\ n < k  BY <3>2, <2>1
      <4>2. before[n] = IF n = 0 THEN Attributes(e)
                        ELSE Added(before[n - 1], e.children[n].tag, values[n])
        BY <2>2, <4>1 DEF IsMerge
      <4>3. result[n] = before[n]  BY <4>1
      <4>4. n # 0 => result[n - 1] = before[n - 1]
        <5>1. n # 0 => n - 1 \in 0..k /\ n - 1 < k  BY <4>1, <2>1
        <5> QED  BY <5>1
      <4> QED  BY <4>2, <4>3, <4>4
    <3> QED  BY <3>1, <3>2
  <2>4. IsMerge(result, e, values, k)
    <3>1. result = [n \in 0..k |-> result[n]]
      OBVIOUS
    <3> HIDE DEF result
    <3> QED  BY <2>3, <3>1 DEF IsMerge
  <2> QED  BY <2>4
<1> QED  BY <1>2, <1>3

(* Merged is the last of the dictionaries.                                 *)
LEMMA MergedIsLast ==
  ASSUME NEW e, Len(e.children) \in Nat, NEW values
  PROVE  \E result : /\ IsMerge(result, e, values, Len(e.children))
                     /\ Merged(e, values) = result[Len(e.children)]
<1> DEFINE the == CHOOSE result : IsMerge(result, e, values, Len(e.children))
<1>1. IsMerge(the, e, values, Len(e.children))
  <2>1. \E result : IsMerge(result, e, values, Len(e.children))
    BY MergeExists
  <2> QED  BY <2>1
<1>2. Merged(e, values) = the[Len(e.children)]
  BY DEF Merged, IsMerge
<1> QED  BY <1>1, <1>2
-----------------------------------------------------------------------------
(* How many of the first children of e have a tag: the next one raises its *)
(* own count by one and leaves the others alone.                           *)
LEMMA AlikeFinite ==
  ASSUME NEW e, NEW tag, NEW n \in Nat
  PROVE  /\ IsFiniteSet(Alike(e, tag, n))
         /\ Cardinality(Alike(e, tag, n)) \in Nat
<1>1. IsFiniteSet(1..n)  BY FS_Interval
<1>2. Alike(e, tag, n) \in SUBSET (1..n)  BY DEF Alike
<1> QED  BY <1>1, <1>2, FS_Subset, FS_CardinalityType

LEMMA AlikeNext ==
  ASSUME NEW e, NEW tag, NEW n \in Nat
  PROVE  Cardinality(Alike(e, tag, n + 1)) =
           IF e.children[n + 1].tag = tag THEN Cardinality(Alike(e, tag, n)) + 1
           ELSE Cardinality(Alike(e, tag, n))
<1>1. CASE e.children[n + 1].tag = tag
  <2>1. Alike(e, tag, n + 1) = Alike(e, tag, n) \union {n + 1}
    BY <1>1 DEF Alike
  <2>2. n + 1 \notin Alike(e, tag, n)
    BY DEF Alike
  <2> QED  BY <1>1, <2>1, <2>2, AlikeFinite, FS_AddElement
<1>2. CASE e.children[n + 1].tag # tag
  <2>1. Alike(e, tag, n + 1) = Alike(e, tag, n)
    BY <1>2 DEF Alike
  <2> QED  BY <1>2, <2>1
<1> QED  BY <1>1, <1>2

LEMMA AlikeCounts ==
  ASSUME NEW e, NEW tag, NEW n \in Nat, NEW i \in Alike(e, tag, n)
  PROVE  Cardinality(Alike(e, tag, i)) \in 1..Cardinality(Alike(e, tag, n))
<1>1. i \in Nat /\ i \in Alike(e, tag, i) /\ Alike(e, tag, i) \in SUBSET Alike(e, tag, n)
  BY DEF Alike
<1>2. /\ IsFiniteSet(Alike(e, tag, i)) /\ Cardinality(Alike(e, tag, i)) \in Nat
      /\ IsFiniteSet(Alike(e, tag, n)) /\ Cardinality(Alike(e, tag, n)) \in Nat
  BY <1>1, AlikeFinite
<1>3. Cardinality(Alike(e, tag, i)) # 0
  BY <1>1, <1>2, FS_EmptySet
<1>4. Cardinality(Alike(e, tag, i)) <= Cardinality(Alike(e, tag, n))
  BY <1>1, <1>2, FS_Subset
<1> QED  BY <1>2, <1>3, <1>4
-----------------------------------------------------------------------------
(* What the dictionary holds after the first n children of e: the values   *)
(* of each tag in order, and the attributes.                               *)
AttributeKeys(e) == {key \in {"@attributes"} : e.attributes # "none"}
Files(d, e, values, n) ==
  /\ DOMAIN d = {e.children[i].tag : i \in 1..n} \union AttributeKeys(e)
  /\ e.attributes # "none" => d["@attributes"] = [text |-> e.attributes]
  /\ \A i \in 1..n :
       LET tag == e.children[i].tag
       IN  /\ Filed(d, tag) \in Seq({values[j] : j \in DOMAIN values})
           /\ Len(Filed(d, tag)) = Cardinality(Alike(e, tag, n))
           /\ Filed(d, tag)[Cardinality(Alike(e, tag, i))] = values[i]

(* A list of one entry becomes a list of two.                              *)
LEMMA AppendToOne ==
  ASSUME NEW x, NEW y
  PROVE  Append(<<x>>, y) = <<x, y>>
<1>1. <<x>> \in Seq({x, y}) /\ <<x, y>> \in Seq({x, y})
  OBVIOUS
<1>2. Append(<<x>>, y) \in Seq({x, y}) /\ Len(Append(<<x>>, y)) = 2
  BY <1>1
<1>3. \A i \in 1..2 : Append(<<x>>, y)[i] = <<x, y>>[i]
  BY <1>1
<1> QED  BY <1>1, <1>2, <1>3, SeqEqual

(* One more child is filed after those of its tag and disturbs nothing.    *)
LEMMA AddedFiles ==
  ASSUME NEW e \in Elements, NEW n \in Nat, n + 1 <= Len(e.children),
         NEW values, DOMAIN values = 1..Len(e.children),
         \A i \in DOMAIN values : "list" \notin DOMAIN values[i],
         NEW d, Files(d, e, values, n)
  PROVE  Files(Added(d, e.children[n + 1].tag, values[n + 1]), e, values, n + 1)
<1> DEFINE new == e.children[n + 1].tag
           value == values[n + 1]
           V == {values[j] : j \in DOMAIN values}
           after == Added(d, new, value)
<1>1. /\ e.children \in Seq(Elements) /\ Len(e.children) \in Nat
      /\ DOMAIN e.children = 1..Len(e.children)
      /\ \A i \in 1..Len(e.children) : e.children[i].tag \notin {"@attributes", "#text"}
  BY TreeAssumption, NameAssumption
<1>2. n + 1 \in 1..Len(e.children) /\ value \in V /\ "list" \notin DOMAIN value
  BY <1>1
<1>3. \A k : k \in 1..(n + 1) <=> k \in 1..n \/ k = n + 1
  OBVIOUS
<1>4. DOMAIN after = DOMAIN d \union {new}
  BY DEF Added, With
<1>5. DOMAIN after = {e.children[i].tag : i \in 1..(n + 1)} \union AttributeKeys(e)
  <2>1. DOMAIN d = {e.children[i].tag : i \in 1..n} \union AttributeKeys(e)
    BY DEF Files
  <2> HIDE DEF after
  <2> QED  BY <1>3, <1>4, <2>1
<1>6. \A key \in DOMAIN d : key # new => after[key] = d[key]
  BY DEF Added, With
<1>7. e.attributes # "none" => after["@attributes"] = [text |-> e.attributes]
  <2>1. e.attributes # "none" => "@attributes" \in DOMAIN d
    BY DEF Files, AttributeKeys
  <2>2. new # "@attributes"
    BY <1>1, <1>2
  <2> HIDE DEF after
  <2> QED  BY <1>6, <2>1, <2>2 DEF Files
<1>8. /\ Filed(after, new) \in Seq(V)
      /\ Len(Filed(after, new)) = Cardinality(Alike(e, new, n + 1))
      /\ Filed(after, new)[Cardinality(Alike(e, new, n + 1))] = value
      /\ \A i \in 1..n : e.children[i].tag = new =>
           Filed(after, new)[Cardinality(Alike(e, new, i))] = values[i]
  <2>1. CASE new \notin DOMAIN d
    <3>1. \A i \in 1..n : e.children[i].tag # new
      BY <2>1 DEF Files
    <3>2. Cardinality(Alike(e, new, n)) = 0
      <4>1. Alike(e, new, n) = {}  BY <3>1 DEF Alike
      <4> QED  BY <4>1, FS_EmptySet
    <3>3. Cardinality(Alike(e, new, n + 1)) = 1
      BY <3>2, AlikeNext
    <3>4. after[new] = value
      BY <2>1 DEF Added, With
    <3>5. Filed(after, new) = <<value>>
      BY <3>4, <1>2 DEF Filed
    <3> HIDE DEF after
    <3> QED  BY <1>2, <3>1, <3>3, <3>5
  <2>2. CASE new \in DOMAIN d
    <3>1. PICK before \in 1..n : e.children[before].tag = new
      <4>1. new \notin AttributeKeys(e)  BY <1>1, <1>2 DEF AttributeKeys
      <4> QED  BY <2>2, <4>1 DEF Files
    <3> DEFINE filed == Filed(d, new)
    <3>2. /\ filed \in Seq(V)
          /\ Len(filed) = Cardinality(Alike(e, new, n))
          /\ \A i \in 1..n : e.children[i].tag = new =>
               filed[Cardinality(Alike(e, new, i))] = values[i]
      BY <3>1 DEF Files
    <3>3. after[new] = [list |-> Append(filed, value)]
      <4>1. CASE "list" \in DOMAIN d[new]
        BY <2>2, <4>1 DEF Added, With, Filed
      <4>2. CASE "list" \notin DOMAIN d[new]
        <5>1. after[new] = [list |-> <<d[new], value>>] /\ filed = <<d[new]>>
          BY <2>2, <4>2 DEF Added, With, Filed
        <5>2. Append(<<d[new]>>, value) = <<d[new], value>>
          BY AppendToOne
        <5> QED  BY <5>1, <5>2
      <4> QED  BY <4>1, <4>2
    <3>4. Filed(after, new) = Append(filed, value)
      <4> HIDE DEF after, filed
      <4> QED  BY <3>3 DEF Filed
    <3>5. Cardinality(Alike(e, new, n + 1)) = Len(filed) + 1
      BY <3>2, AlikeNext
    <3>6. \A i \in 1..n : e.children[i].tag = new =>
            Cardinality(Alike(e, new, i)) \in 1..Len(filed)
      <4> SUFFICES ASSUME NEW i \in 1..n, e.children[i].tag = new
                   PROVE  Cardinality(Alike(e, new, i)) \in 1..Len(filed)
        OBVIOUS
      <4>1. i \in Alike(e, new, n)  BY DEF Alike
      <4> QED  BY <3>2, <4>1, AlikeCounts
    <3>7. /\ Append(filed, value) \in Seq(V)
          /\ Len(Append(filed, value)) = Len(filed) + 1
          /\ \A i \in 1..Len(filed) : Append(filed, value)[i] = filed[i]
          /\ Append(filed, value)[Len(filed) + 1] = value
      <4> HIDE DEF filed, value, V
      <4> QED  BY <1>2, <3>2
    <3> HIDE DEF after, filed, value, V, new
    <3> QED  BY <3>2, <3>4, <3>5, <3>6, <3>7
  <2> QED  BY <2>1, <2>2
<1>9. ASSUME NEW i \in 1..n, e.children[i].tag # new
      PROVE  LET tag == e.children[i].tag
             IN  /\ Filed(after, tag) \in Seq(V)
                 /\ Len(Filed(after, tag)) = Cardinality(Alike(e, tag, n + 1))
                 /\ Filed(after, tag)[Cardinality(Alike(e, tag, i))] = values[i]
  <2> DEFINE tag == e.children[i].tag
  <2>1. tag \in DOMAIN d
    BY DEF Files
  <2>2. Filed(after, tag) = Filed(d, tag)
    <3> HIDE DEF after, new
    <3> QED  BY <1>6, <1>9, <2>1 DEF Filed
  <2>3. Cardinality(Alike(e, tag, n + 1)) = Cardinality(Alike(e, tag, n))
    BY <1>9, AlikeNext
  <2>4. /\ Filed(d, tag) \in Seq(V)
        /\ Len(Filed(d, tag)) = Cardinality(Alike(e, tag, n))
        /\ Filed(d, tag)[Cardinality(Alike(e, tag, i))] = values[i]
    BY DEF Files
  <2> HIDE DEF after, V
  <2> QED  BY <2>2, <2>3, <2>4
<1>10. \A i \in 1..(n + 1) :
         LET tag == e.children[i].tag
         IN  /\ Filed(after, tag) \in Seq(V)
             /\ Len(Filed(after, tag)) = Cardinality(Alike(e, tag, n + 1))
             /\ Filed(after, tag)[Cardinality(Alike(e, tag, i))] = values[i]
  <2> HIDE DEF after, V
  <2> QED  BY <1>3, <1>8, <1>9
<1> QED  BY <1>5, <1>7, <1>10 DEF Files

(* After all children their values are filed.                              *)
LEMMA MergedFiles ==
  ASSUME NEW e \in Elements, NEW values, DOMAIN values = 1..Len(e.children),
         \A i \in DOMAIN values : "list" \notin DOMAIN values[i]
  PROVE  Files(Merged(e, values), e, values, Len(e.children))
<1>1. Len(e.children) \in Nat
  BY TreeAssumption
<1>2. PICK result : /\ IsMerge(result, e, values, Len(e.children))
                    /\ Merged(e, values) = result[Len(e.children)]
  BY <1>1, MergedIsLast
<1> DEFINE T == {n \in 0..Len(e.children) : ~ Files(result[n], e, values, n)}
<1>3. T = {}
  <2> SUFFICES ASSUME T # {} PROVE FALSE
    OBVIOUS
  <2>1. PICK n \in T : \A m \in T : n <= m
    <3> HIDE DEF T
    <3>1. T \subseteq Nat  BY DEF T
    <3> QED  BY <3>1, LeastMember
  <2>2. n \in 0..Len(e.children) /\ ~ Files(result[n], e, values, n)
    OBVIOUS
  <2>3. CASE n = 0
    <3>1. result[0] = Attributes(e)
      BY <1>1, <1>2 DEF IsMerge
    <3>2. Files(Attributes(e), e, values, 0)
      BY DEF Files, Attributes, AttributeKeys
    <3> QED  BY <2>2, <2>3, <3>1, <3>2
  <2>4. CASE n # 0
    <3>1. n - 1 \in Nat /\ n - 1 \in 0..Len(e.children) /\ ~ (n <= n - 1) /\ n - 1 + 1 = n
      BY <1>1, <2>2, <2>4
    <3>2. Files(result[n - 1], e, values, n - 1)
      BY <2>1, <3>1
    <3>3. result[n] = Added(result[n - 1], e.children[n].tag, values[n])
      BY <1>2, <2>2, <2>4 DEF IsMerge
    <3>4. Files(Added(result[n - 1], e.children[n - 1 + 1].tag, values[n - 1 + 1]),
                e, values, n - 1 + 1)
      <4>1. n - 1 + 1 <= Len(e.children)  BY <1>1, <2>2, <3>1
      <4> QED  BY <3>1, <3>2, <4>1, AddedFiles
    <3> QED  BY <2>2, <3>1, <3>3, <3>4
  <2> QED  BY <2>3, <2>4
<1>4. Len(e.children) \in 0..Len(e.children)
  BY <1>1
<1> QED  BY <1>2, <1>3, <1>4
-----------------------------------------------------------------------------
(* A conversion of all elements of less than n levels.                     *)
Shallow(n) == {e \in Elements : Depth[e] < n}
IsConversion(g, D) ==
  g = [e \in D |-> Converted(e, [i \in DOMAIN e.children |-> g[e.children[i]]])]

(* The children of an element are shallower than it.                       *)
LEMMA ChildrenShallow ==
  ASSUME NEW e \in Elements, NEW i \in DOMAIN e.children
  PROVE  /\ e.children[i] \in Elements
         /\ Depth[e.children[i]] \in Nat /\ Depth[e] \in Nat
         /\ Depth[e.children[i]] < Depth[e]
  BY TreeAssumption

(* Two conversions agree wherever both are defined.                        *)
LEMMA ConversionUnique ==
  ASSUME NEW m \in Nat, NEW n \in Nat, m <= n, NEW g, NEW h,
         IsConversion(g, Shallow(m)), IsConversion(h, Shallow(n)),
         NEW e \in Shallow(m)
  PROVE  g[e] = h[e]
<1> DEFINE T == {k \in Nat : \E x \in Shallow(m) : Depth[x] = k /\ g[x] # h[x]}
<1> SUFFICES ASSUME T # {} PROVE FALSE
  <2>1. Depth[e] \in Nat  BY TreeAssumption DEF Shallow
  <2> QED  BY <2>1
<1>1. PICK k \in T : \A j \in T : k <= j
  <2> HIDE DEF T
  <2>1. T \subseteq Nat  BY DEF T
  <2> QED  BY <2>1, LeastMember
<1>2. PICK x \in Shallow(m) : Depth[x] = k /\ g[x] # h[x]
  OBVIOUS
<1>3. x \in Elements /\ k \in Nat /\ k < m /\ x \in Shallow(n)
  <2>1. x \in Elements /\ Depth[x] \in Nat /\ Depth[x] < m
    BY TreeAssumption DEF Shallow
  <2> QED  BY <1>2, <2>1 DEF Shallow
<1>4. ASSUME NEW i \in DOMAIN x.children
      PROVE  g[x.children[i]] = h[x.children[i]]
  <2>1. /\ x.children[i] \in Elements
        /\ Depth[x.children[i]] \in Nat /\ Depth[x.children[i]] < k
    BY <1>2, <1>3, ChildrenShallow
  <2>2. x.children[i] \in Shallow(m)
    BY <1>3, <2>1 DEF Shallow
  <2>3. Depth[x.children[i]] \notin T
    BY <1>1, <1>3, <2>1
  <2> QED  BY <2>1, <2>2, <2>3
<1>5. [i \in DOMAIN x.children |-> g[x.children[i]]] = [i \in DOMAIN x.children |-> h[x.children[i]]]
  BY <1>4
<1>6. /\ g[x] = Converted(x, [i \in DOMAIN x.children |-> g[x.children[i]]])
      /\ h[x] = Converted(x, [i \in DOMAIN x.children |-> h[x.children[i]]])
  BY <1>2, <1>3 DEF IsConversion
<1> QED  BY <1>2, <1>5, <1>6

(* The elements of any number of levels have a conversion.                 *)
LEMMA ConversionExists ==
  ASSUME NEW n \in Nat
  PROVE  \E g : IsConversion(g, Shallow(n))
<1> DEFINE T == {k \in Nat : ~ \E g : IsConversion(g, Shallow(k))}
<1> SUFFICES ASSUME T # {} PROVE FALSE
  OBVIOUS
<1>1. PICK k \in T : \A j \in T : k <= j
  <2> HIDE DEF T
  <2>1. T \subseteq Nat  BY DEF T
  <2> QED  BY <2>1, LeastMember
<1>2. CASE k = 0
  <2>1. Shallow(0) = {}
    BY TreeAssumption DEF Shallow
  <2>2. IsConversion([e \in {} |-> e], {})
    BY DEF IsConversion
  <2> QED  BY <1>2, <2>1, <2>2
<1>3. CASE k # 0
  <2>1. k \in Nat /\ k - 1 \in Nat /\ ~ (k <= k - 1)
    BY <1>3
  <2>2. PICK g : IsConversion(g, Shallow(k - 1))
    BY <1>1, <2>1
  <2> DEFINE h == [e \in Shallow(k) |->
                     Converted(e, [i \in DOMAIN e.children |-> g[e.children[i]]])]
  <2>3. ASSUME NEW e \in Shallow(k)
        PROVE  h[e] = Converted(e, [i \in DOMAIN e.children |-> h[e.children[i]]])
    <3>1. e \in Elements /\ Depth[e] < k
      BY DEF Shallow
    <3>2. ASSUME NEW i \in DOMAIN e.children
          PROVE  h[e.children[i]] = g[e.children[i]]
      <4> DEFINE c == e.children[i]
      <4>1. c \in Shallow(k - 1) /\ c \in Shallow(k)
        BY <2>1, <3>1, ChildrenShallow DEF Shallow
      <4>2. g[c] = Converted(c, [j \in DOMAIN c.children |-> g[c.children[j]]])
        <5> HIDE DEF c
        <5> QED  BY <2>2, <4>1 DEF IsConversion
      <4>3. h[c] = Converted(c, [j \in DOMAIN c.children |-> g[c.children[j]]])
        <5> HIDE DEF c
        <5> QED  BY <4>1
      <4> QED  BY <4>2, <4>3
    <3>3. [i \in DOMAIN e.children |-> h[e.children[i]]] = [i \in DOMAIN e.children |-> g[e.children[i]]]
      <4> HIDE DEF h
      <4> QED  BY <3>2
    <3>4. h[e] = Converted(e, [i \in DOMAIN e.children |-> g[e.children[i]]])
      OBVIOUS
    <3> HIDE DEF h
    <3> QED  BY <3>3, <3>4
  <2>4. IsConversion(h, Shallow(k))
    <3>1. h = [e \in Shallow(k) |-> h[e]]
      OBVIOUS
    <3> HIDE DEF h
    <3> QED  BY <2>3, <3>1 DEF IsConversion
  <2> QED  BY <2>4
<1> QED  BY <1>2, <1>3

(* The conversion of documents is defined: it is what _element_to_dict     *)
(* makes of an element and of the conversions of its children.             *)
THEOREM ConversionDefined ==
  \A e \in Elements :
    ElementToDict[e] =
      Converted(e, [i \in DOMAIN e.children |-> ElementToDict[e.children[i]]])
<1> DEFINE upTo(n) == CHOOSE g : IsConversion(g, Shallow(n))
           all == [e \in Elements |-> upTo(Depth[e] + 1)[e]]
<1>1. ASSUME NEW n \in Nat
      PROVE  IsConversion(upTo(n), Shallow(n))
  BY ConversionExists
<1>2. ASSUME NEW e \in Elements
      PROVE  all[e] = Converted(e, [i \in DOMAIN e.children |-> all[e.children[i]]])
  <2> DEFINE g == upTo(Depth[e] + 1)
  <2>1. Depth[e] \in Nat /\ Depth[e] + 1 \in Nat /\ e \in Shallow(Depth[e] + 1)
    BY TreeAssumption DEF Shallow
  <2>2. IsConversion(g, Shallow(Depth[e] + 1))
    <3> HIDE DEF upTo
    <3> QED  BY <1>1, <2>1
  <2>3. ASSUME NEW i \in DOMAIN e.children
        PROVE  all[e.children[i]] = g[e.children[i]]
    <3> DEFINE c == e.children[i]
    <3>1. /\ c \in Elements /\ Depth[c] + 1 \in Nat /\ Depth[c] + 1 <= Depth[e] + 1
          /\ c \in Shallow(Depth[c] + 1)
      BY ChildrenShallow DEF Shallow
    <3>2. all[c] = upTo(Depth[c] + 1)[c]
      <4> HIDE DEF upTo, c
      <4> QED  BY <3>1
    <3>3. IsConversion(upTo(Depth[c] + 1), Shallow(Depth[c] + 1))
      <4> HIDE DEF upTo, c
      <4> QED  BY <1>1, <3>1
    <3>4. upTo(Depth[c] + 1)[c] = g[c]
      <4> HIDE DEF upTo, c, g
      <4> QED  BY <2>1, <2>2, <3>1, <3>3, ConversionUnique
    <3> HIDE DEF upTo, g, all
    <3> QED  BY <3>2, <3>4
  <2>4. [i \in DOMAIN e.children |-> all[e.children[i]]] = [i \in DOMAIN e.children |-> g[e.children[i]]]
    <3> HIDE DEF all, g
    <3> QED  BY <2>3
  <2>5. all[e] = g[e]
    <3> HIDE DEF upTo
    <3> QED  OBVIOUS
  <2>6. g[e] = Converted(e, [i \in DOMAIN e.children |-> g[e.children[i]]])
    <3> HIDE DEF g
    <3> QED  BY <2>1, <2>2 DEF IsConversion
  <2> HIDE DEF all, g
  <2> QED  BY <2>4, <2>5, <2>6
<1>3. IsConversion(all, Elements)
  <2>1. all = [e \in Elements |-> all[e]]
    OBVIOUS
  <2> HIDE DEF all
  <2> QED  BY <1>2, <2>1 DEF IsConversion
<1>4. IsConversion(ElementToDict, Elements)
  <2>1. \E f : IsConversion(f, Elements)
    BY <1>3
  <2>2. ElementToDict = CHOOSE f : IsConversion(f, Elements)
    BY DEF ElementToDict, IsConversion
  <2> QED  BY <2>1, <2>2
<1> QED  BY <1>4 DEF IsConversion
-----------------------------------------------------------------------------
(* What a body has become by each stage of its way to the schema.          *)
ParsingInv ==
  /\ source \in Sources /\ header \in Headers
  /\ written \in Written /\ element \in Elements
  /\ stage \in {"resolve", "parse", "validate", "done"}
  /\ stage # "resolve" => format \in Formats
  /\ stage \in {"resolve", "parse"} => payload = "none" /\ verdict = "none"
  /\ stage \in {"validate", "done"} => payload \in Readings(format, written)
  /\ payload = "root" => root = ElementToDict[element]
  /\ verdict = "accepted" => stage = "done" /\ TRUE \in Verdicts(source, payload, conforming)

(* Whatever is declared and whatever the header says, some parser is chosen.*)
LEMMA ResolvedFormat ==
  ASSUME NEW s \in Sources, NEW h \in Headers
  PROVE  ResolveFormat(s, h) \in Formats
<1>1. Declared[s] \in Parsed \union {"AUTO"}
  BY DeclaredAssumption
<1>2. h \in DOMAIN Mime => Mime[h] \in Formats
  BY MimeAssumption
<1>3. Parsed \subseteq Formats /\ "JSON" \in Formats
  BY DEF Parsed, Formats
<1> QED  BY <1>1, <1>2, <1>3 DEF ResolveFormat

(* Each stage adds what it has found out to what is known of the body.     *)
THEOREM ParsingInvariant == Spec => []ParsingInv
<1>1. Init => ParsingInv
  BY DEF Init, ParsingInv
<1>2. ParsingInv /\ [Next]_vars => ParsingInv'
  <2> SUFFICES ASSUME ParsingInv, [Next]_vars PROVE ParsingInv'
    OBVIOUS
  <2>1. CASE Resolve
    BY <2>1, ResolvedFormat DEF Resolve, ParsingInv, body
  <2>2. CASE Parse
    <3>1. /\ stage = "parse" /\ payload' \in Readings(format, written)
          /\ stage' \in {"validate", "done"} /\ verdict' \in {"none", "refused", "failed"}
          /\ payload' = "root" => root' = ElementToDict[element]
          /\ UNCHANGED <<source, header, written, conforming, element, format>>
      BY <2>2 DEF Parse, body, ParsingInv
    <3> QED  BY <3>1 DEF ParsingInv
  <2>3. CASE Validate
    <3>1. /\ stage = "validate" /\ stage' = "done"
          /\ verdict' = "accepted" => TRUE \in Verdicts(source, payload, conforming)
          /\ UNCHANGED <<source, header, written, conforming, element, format, payload, root>>
      BY <2>3 DEF Validate, body
    <3> QED  BY <3>1 DEF ParsingInv
  <2>4. CASE UNCHANGED vars
    BY <2>4 DEF ParsingInv, vars, body
  <2> QED  BY <2>1, <2>2, <2>3, <2>4 DEF Next, Quiescent
<1> QED  BY <1>1, <1>2, PTL DEF Spec

(* The conversion of any document, however wide and deep, keeps the values *)
(* of all children under their tags in order, the attributes and the text. *)
THEOREM XmlComplete == Spec => []XmlKeepsEveryChild
<1>1. ASSUME NEW e \in Elements, e.children # << >>
      PROVE  LET d == ElementToDict[e].dict
                 last == Len(e.children)
             IN  /\ DOMAIN d = {e.children[i].tag : i \in 1..last}
                                  \union {key \in {"@attributes"} : e.attributes # "none"}
                                  \union {key \in {"#text"} : Stripped(e) # ""}
                 /\ e.attributes # "none" => d["@attributes"] = [text |-> e.attributes]
                 /\ Stripped(e) # "" => d["#text"] = [text |-> Stripped(e)]
                 /\ \A i \in 1..last :
                      LET tag == e.children[i].tag
                      IN  /\ Len(Filed(d, tag)) = Cardinality(Alike(e, tag, last))
                          /\ Filed(d, tag)[Cardinality(Alike(e, tag, i))] =
                               ElementToDict[e.children[i]]
  <2> DEFINE values == [i \in DOMAIN e.children |-> ElementToDict[e.children[i]]]
             merged == Merged(e, values)
             d == WithText(merged, e)
             last == Len(e.children)
  <2>1. /\ last \in Nat /\ DOMAIN e.children = 1..last
        /\ \A i \in 1..last : e.children[i] \in Elements
    BY TreeAssumption
  <2>2. ASSUME NEW i \in 1..last
        PROVE  "list" \notin DOMAIN values[i]
    <3> DEFINE c == e.children[i]
               below == [j \in DOMAIN c.children |-> ElementToDict[c.children[j]]]
    <3>1. values[i] = Converted(c, below)
      BY <2>1, ConversionDefined
    <3>2. Converted(c, below) \in
            {[text |-> Stripped(c)], [dict |-> WithText(Merged(c, below), c)]}
      BY DEF Converted
    <3> HIDE DEF values, c, below
    <3> QED  BY <3>1, <3>2
  <2>3. Files(merged, e, values, last)
    <3>1. DOMAIN values = 1..last  BY <2>1
    <3> HIDE DEF values
    <3> QED  BY <2>2, <3>1, MergedFiles
  <2>4. ElementToDict[e].dict = d
    <3>1. ElementToDict[e] = Converted(e, values)
      BY ConversionDefined
    <3> HIDE DEF values
    <3> QED  BY <1>1, <3>1 DEF Converted
  <2>5. \A i \in 1..last : e.children[i].tag \notin {"@attributes", "#text"}
    BY <2>1, NameAssumption
  <2>6. DOMAIN d = DOMAIN merged \union {key \in {"#text"} : Stripped(e) # ""}
    <3> HIDE DEF merged
    <3> QED  BY DEF WithText, With
  <2>7. Stripped(e) # "" => d["#text"] = [text |-> Stripped(e)]
    <3> HIDE DEF merged
    <3> QED  BY DEF WithText, With
  <2>8. \A key \in DOMAIN merged : key # "#text" => d[key] = merged[key]
    <3> HIDE DEF merged
    <3> QED  BY DEF WithText, With
  <2>9. DOMAIN merged = {e.children[i].tag : i \in 1..last}
                          \union {key \in {"@attributes"} : e.attributes # "none"}
    <3> HIDE DEF merged, values, last
    <3> QED  BY <2>3 DEF Files, AttributeKeys
  <2>10. e.attributes # "none" => d["@attributes"] = [text |-> e.attributes]
    <3> HIDE DEF merged, values, last, d
    <3> QED  BY <2>3, <2>8, <2>9 DEF Files
  <2>11. ASSUME NEW i \in 1..last, NEW tag, tag = e.children[i].tag
         PROVE  /\ Len(Filed(d, tag)) = Cardinality(Alike(e, tag, last))
                /\ Filed(d, tag)[Cardinality(Alike(e, tag, i))] =
                     ElementToDict[e.children[i]]
    <3>1. d[tag] = merged[tag]
      <4> HIDE DEF merged, values, last, d
      <4> QED  BY <2>5, <2>8, <2>9, <2>11
    <3>2. Filed(d, tag) = Filed(merged, tag)
      <4> HIDE DEF merged, d
      <4> QED  BY <3>1 DEF Filed
    <3>3. values[i] = ElementToDict[e.children[i]]
      BY <2>1
    <3> HIDE DEF merged, values, last, d
    <3> QED  BY <2>3, <2>11, <3>2, <3>3 DEF Files
  <2> HIDE DEF d, merged, values
  <2> QED  BY <2>4, <2>6, <2>7, <2>9, <2>10, <2>11
<1>2. ParsingInv => XmlKeepsEveryChild
  BY <1>1 DEF ParsingInv, XmlKeepsEveryChild
<1> QED  BY <1>2, ParsingInvariant, PTL
=============================================================================
