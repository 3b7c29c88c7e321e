---------------------------- MODULE PlanRulesProofs ----------------------------
(***************************************************************************)
(* For any limits, resource, plan and rights: what validation admits. A    *)
(* code is "ok" exactly when every rule it stands for holds, which is      *)
(* proved rule by rule from the members up; from it follow that validation *)
(* is idempotent, that an admitted plan uses visible members only, and     *)
(* that rights can only deny.                                              *)
(*                                                                         *)
(* The lemmas about Catalog come first: lists keep their order and names   *)
(* when members are picked from them, a registered resource carries what   *)
(* its declaration said, and a registered enumeration reads every token as *)
(* one value. The operators that fold over a list are recursive functions; *)
(* that such a function exists is shown by least counterexample, since the *)
(* theorems of the library that say so take an operator as a parameter.    *)
(***************************************************************************)
EXTENDS PlanRules, FiniteSetTheorems, TLAPS

-----------------------------------------------------------------------------
(* Sequences *)

\* A set of numbers that is not empty has a least one.
LEMMA LeastExists ==
  ASSUME NEW S \in SUBSET Nat, S # {}
  PROVE  \E i \in S : \A j \in S : i <= j
<1>1. PICK i \in S : \A j \in S : ~(<<j, i>> \in OpToRel(<, Nat))
  BY NatLessThanWellFounded, WFMin
<1>2. ASSUME NEW j \in S  PROVE i <= j
  <2>1. ~(j < i)
    <3>1. SUFFICES ASSUME j < i  PROVE <<j, i>> \in OpToRel(<, Nat)
      BY <1>1
    <3>. QED  BY <3>1 DEF OpToRel
  <2>. QED  BY <2>1
<1>. QED  BY <1>2

\* The rank of a member of K is a number from 1 to its size, and no other member
\* has it.
LEMMA RankInRange ==
  ASSUME NEW K \in SUBSET Nat, IsFiniteSet(K), NEW i \in K
  PROVE  /\ IsFiniteSet({j \in K : j <= i})
         /\ Cardinality({j \in K : j <= i}) \in 1..Cardinality(K)
<1>. DEFINE upTo == {j \in K : j <= i}
<1>1. upTo \in SUBSET K /\ i \in upTo
  OBVIOUS
<1>. HIDE DEF upTo
<1>2. Cardinality(K) \in Nat /\ IsFiniteSet(upTo) /\ Cardinality(upTo) <= Cardinality(K)
  BY <1>1, FS_Subset, FS_CardinalityType
<1>3. Cardinality(upTo) \in Nat /\ Cardinality(upTo) # 0
  BY <1>1, <1>2, FS_CardinalityType, FS_EmptySet
<1>4. Cardinality(upTo) \in 1..Cardinality(K)
  BY <1>2, <1>3
<1>. QED  BY <1>2, <1>4 DEF upTo

\* Two members of K have different ranks.
LEMMA RankInjective ==
  ASSUME NEW K \in SUBSET Nat, IsFiniteSet(K), NEW i \in K, NEW k \in K,
         Cardinality({j \in K : j <= i}) = Cardinality({j \in K : j <= k})
  PROVE  i = k
<1>. DEFINE upTo(x) == {j \in K : j <= x}
<1>1. ASSUME NEW x \in K, NEW y \in K, x < y
      PROVE  Cardinality(upTo(x)) # Cardinality(upTo(y))
  <2>0. ~(y <= x) /\ y <= y /\ \A j \in K : j <= x => j <= y
    BY <1>1
  <2>1. upTo(x) \in SUBSET upTo(y) /\ y \in upTo(y) /\ y \notin upTo(x)
    BY <2>0, Zenon
  <2>2. IsFiniteSet(upTo(y)) /\ upTo(x) # upTo(y)
    BY <2>1, RankInRange
  <2>. HIDE DEF upTo
  <2>. QED  BY <2>1, <2>2, FS_Subset
<1>2. ~(i < k) /\ ~(k < i)
  BY <1>1
<1>. QED  BY <1>2

\* Positions are numbered without a gap: ranks are as many as members.
LEMMA PositionsExist ==
  ASSUME NEW K \in SUBSET Nat, IsFiniteSet(K), NEW n \in 1..Cardinality(K)
  PROVE  \E i \in K : Cardinality({j \in K : j <= i}) = n
<1>. DEFINE m == Cardinality(K)
            rank == [i \in K |-> Cardinality({j \in K : j <= i})]
<1>1. rank \in [K -> 1..m]
  BY RankInRange
<1>2. IsInjective(rank)
  BY RankInjective DEF IsInjective
<1>3. IsFiniteSet(1..m) /\ Cardinality(1..m) = m
  BY FS_CardinalityType, FS_Interval
<1>. HIDE DEF rank, m
<1>4. rank \in Injection(K, 1..m)
  BY <1>1, <1>2 DEF Injection
<1>5. rank \in Surjection(K, 1..m)
  BY <1>3, <1>4, FS_Injection DEF m
<1>6. PICK i \in K : rank[i] = n
  BY <1>5 DEF Surjection, m
<1>. QED  BY <1>6 DEF rank

\* A selection is a sequence whose members are those at the positions chosen,
\* each of them once and in their order.
LEMMA Selection ==
  ASSUME NEW s, NEW K \in SUBSET Nat, IsFiniteSet(K)
  PROVE  LET t == AtPositions(s, K) IN
         /\ Cardinality(K) \in Nat /\ DOMAIN t = 1..Cardinality(K)
         /\ Len(t) = Cardinality(K) /\ t = [n \in 1..Len(t) |-> t[n]]
         /\ \A n \in DOMAIN t : \E i \in K : t[n] = s[i]
         /\ \A i \in K : \E n \in DOMAIN t : t[n] = s[i]
         /\ (\A i, j \in K : s[i] = s[j] => i = j) =>
              \A n, m \in DOMAIN t : t[n] = t[m] => n = m
<1>. DEFINE t == AtPositions(s, K)
            position(n) == CHOOSE i \in K : Cardinality({j \in K : j <= i}) = n
<1>1. Cardinality(K) \in Nat
  BY FS_CardinalityType
<1>2. t = [n \in 1..Cardinality(K) |-> s[position(n)]]
  BY DEF AtPositions
<1>3. /\ DOMAIN t = 1..Cardinality(K) /\ Len(t) = Cardinality(K)
      /\ t = [n \in 1..Len(t) |-> t[n]]
  <2>. HIDE DEF position
  <2>. QED  BY <1>1, <1>2
<1>4. ASSUME NEW n \in DOMAIN t
      PROVE  /\ position(n) \in K /\ t[n] = s[position(n)]
             /\ Cardinality({j \in K : j <= position(n)}) = n
  <2>1. \E i \in K : Cardinality({j \in K : j <= i}) = n
    BY <1>3, PositionsExist
  <2>. QED  BY <1>2, <1>3, <2>1
<1>5. ASSUME NEW i \in K  PROVE \E n \in DOMAIN t : position(n) = i
  <2>. DEFINE n == Cardinality({j \in K : j <= i})
  <2>1. n \in 1..Cardinality(K)
    BY RankInRange
  <2>2. ASSUME NEW k \in K, Cardinality({j \in K : j <= k}) = n  PROVE k = i
    BY <2>2, RankInjective
  <2>. QED  BY <1>3, <1>4, <2>1, <2>2
<1>. HIDE DEF position, t
<1>6. ASSUME \A i, j \in K : s[i] = s[j] => i = j,
             NEW n \in DOMAIN t, NEW m \in DOMAIN t, t[n] = t[m]
      PROVE  n = m
  <2>1. PICK i \in K, j \in K : i = position(n) /\ j = position(m)
    BY <1>4, <1>6
  <2>2. t[n] = s[i] /\ t[m] = s[j]
    BY <1>4, <1>6, <2>1
  <2>3. i = j
    BY <1>6, <2>2
  <2>4. position(n) = position(m)
    BY <2>1, <2>3
  <2>5. /\ Cardinality({k \in K : k <= position(n)}) = n
        /\ Cardinality({k \in K : k <= position(m)}) = m
    BY <1>4, <1>6
  <2>. QED  BY <2>4, <2>5
<1>7. \A n \in DOMAIN t : \E i \in K : t[n] = s[i]
  BY <1>4
<1>8. \A i \in K : \E n \in DOMAIN t : t[n] = s[i]
  BY <1>4, <1>5
<1>. QED  BY <1>1, <1>3, <1>6, <1>7, <1>8 DEF t

\* The entries of a list at some of its positions are a list of exactly those
\* entries, which are distinct where the entries were.
LEMMA SelectionOfList ==
  ASSUME NEW s, IsList(s), NEW K \in SUBSET DOMAIN s
  PROVE  LET t == AtPositions(s, K) IN
         /\ IsList(t)
         /\ \A n \in DOMAIN t : \E i \in K : t[n] = s[i]
         /\ \A i \in K : \E n \in DOMAIN t : t[n] = s[i]
         /\ K = {} => t = <<>>
         /\ K # {} => t # <<>>
         /\ (\A i, j \in K : s[i] = s[j] => i = j) =>
              \A n, m \in DOMAIN t : t[n] = t[m] => n = m
<1>. DEFINE t == AtPositions(s, K)
<1>1. K \in SUBSET Nat /\ IsFiniteSet(K)
  <2>1. DOMAIN s = 1..Len(s) /\ Len(s) \in Nat
    BY DEF IsList
  <2>2. IsFiniteSet(DOMAIN s)
    BY <2>1, FS_Interval
  <2>. QED  BY <2>1, <2>2, FS_Subset
<1>2. /\ Cardinality(K) \in Nat /\ DOMAIN t = 1..Cardinality(K)
      /\ Len(t) = Cardinality(K) /\ t = [n \in 1..Len(t) |-> t[n]]
      /\ \A n \in DOMAIN t : \E i \in K : t[n] = s[i]
      /\ \A i \in K : \E n \in DOMAIN t : t[n] = s[i]
      /\ (\A i, j \in K : s[i] = s[j] => i = j) =>
           \A n, m \in DOMAIN t : t[n] = t[m] => n = m
  BY <1>1, Selection
<1>. HIDE DEF t
<1>3. IsList(t)
  BY <1>2 DEF IsList
<1>4. K = {} => t = <<>>
  <2>1. K = {} => Cardinality(K) = 0
    BY FS_EmptySet
  <2>. QED  BY <1>2, <2>1
<1>5. K # {} => t # <<>>
  <2>1. K # {} => Cardinality(K) # 0
    BY <1>1, FS_EmptySet
  <2>. QED  BY <1>2, <2>1
<1>. QED  BY <1>2, <1>3, <1>4, <1>5 DEF t

\* A list over a set is a sequence over it.
LEMMA ListIsSeq ==
  ASSUME NEW s, NEW S, IsList(s), \A i \in DOMAIN s : s[i] \in S
  PROVE  s \in Seq(S)
<1>1. Len(s) \in Nat /\ s \in [1..Len(s) -> S]
  <2>1. s = [i \in 1..Len(s) |-> s[i]] /\ DOMAIN s = 1..Len(s)
    BY DEF IsList
  <2>. QED  BY <2>1 DEF IsList
<1>. QED  BY <1>1

\* A sequence is a list, and its entries are members of its set.
LEMMA SeqIsList ==
  ASSUME NEW S, NEW s \in Seq(S)
  PROVE  IsList(s) /\ \A i \in DOMAIN s : s[i] \in S
BY DEF IsList

\* What FlattenSeq builds up, one list after the other.
JoinsUpTo(seqs, n, f) ==
  f = [i \in 1..n |-> IF i = 1 THEN seqs[i] ELSE f[i - 1] \o seqs[i]]

\* The function that joins the first n lists of a list of lists exists.
LEMMA JoinedExists ==
  ASSUME NEW seqs, NEW N \in Nat, NEW n \in 1..N
  PROVE  \E f : JoinsUpTo(seqs, n, f)
<1>. DEFINE T == {k \in 1..N : ~\E f : JoinsUpTo(seqs, k, f)}
<1>1. SUFFICES T = {}
  BY DEF T
<1>2. SUFFICES ASSUME T # {} PROVE FALSE
  OBVIOUS
<1>3. T \in SUBSET Nat
  OBVIOUS
<1>. HIDE DEF T
<1>4. PICK k \in T : \A j \in T : k <= j
  BY <1>2, <1>3, LeastExists
<1>5. k \in 1..N /\ ~\E f : JoinsUpTo(seqs, k, f)
  BY <1>4 DEF T
<1>6. CASE k = 1
  <2>1. JoinsUpTo(seqs, k, [i \in 1..1 |-> seqs[i]])
    BY <1>6 DEF JoinsUpTo
  <2>. QED  BY <1>5, <2>1
<1>7. CASE k # 1
  <2>1. PICK m \in 1..N : k = m + 1 /\ k - 1 = m /\ ~(k <= m)
    BY <1>5, <1>7
  <2>2. m \notin T
    BY <1>4, <2>1
  <2>3. PICK f : JoinsUpTo(seqs, m, f)
    BY <2>2 DEF T
  <2>. DEFINE g == [i \in 1..k |-> IF i = k THEN f[m] \o seqs[k] ELSE f[i]]
  <2>4. ASSUME NEW i \in 1..k
        PROVE  g[i] = IF i = 1 THEN seqs[i] ELSE g[i - 1] \o seqs[i]
    <3>1. CASE i = k
      <4>0. m \in 1..k /\ m # k
        BY <1>5, <2>1
      <4>1. g[i] = f[m] \o seqs[k] /\ g[m] = f[m]
        BY <3>1, <4>0
      <4>. QED  BY <1>7, <2>1, <3>1, <4>1
    <3>2. CASE i # k
      <4>1. i \in 1..m /\ g[i] = f[i]
        BY <2>1, <3>2
      <4>2. f[i] = IF i = 1 THEN seqs[i] ELSE f[i - 1] \o seqs[i]
        BY <2>3, <4>1 DEF JoinsUpTo
      <4>3. i # 1 => g[i - 1] = f[i - 1]
        BY <2>1, <4>1
      <4>. QED  BY <4>1, <4>2, <4>3
    <3>. QED  BY <3>1, <3>2
  <2>5. JoinsUpTo(seqs, k, g)
    <3>1. g = [i \in 1..k |-> g[i]]
      OBVIOUS
    <3>. HIDE DEF g
    <3>. QED  BY <2>4, <3>1 DEF JoinsUpTo
  <2>. QED  BY <1>5, <2>5
<1>. QED  BY <1>6, <1>7

\* Every entry of a list of lists is an entry of the joined list, and conversely.
LEMMA Flattened ==
  ASSUME NEW seqs, NEW S, IsList(seqs), \A i \in DOMAIN seqs : seqs[i] \in Seq(S)
  PROVE  FlattenSeq(seqs) \in Seq(S)
<1>. DEFINE N == Len(seqs)
            f == CHOOSE g : JoinsUpTo(seqs, N, g)
            T == {n \in 1..N : f[n] \notin Seq(S)}
<1>1. N \in Nat /\ DOMAIN seqs = 1..N
  BY DEF IsList
<1>2. CASE N = 0
  <2>1. FlattenSeq(seqs) = seqs
    BY <1>2 DEF FlattenSeq
  <2>. QED  BY <1>1, <1>2, <2>1, ListIsSeq
<1>3. CASE N # 0
  <2>1. FlattenSeq(seqs) = f[N]
    BY <1>3 DEF FlattenSeq, JoinsUpTo
  <2>2. JoinsUpTo(seqs, N, f)
    <3>1. N \in 1..N
      BY <1>1, <1>3
    <3>2. \E g : JoinsUpTo(seqs, N, g)
      BY <1>1, <3>1, JoinedExists
    <3>. QED  BY <3>2
  <2>. HIDE DEF f, N
  <2>3. T = {}
    <3>1. SUFFICES ASSUME T # {} PROVE FALSE
      OBVIOUS
    <3>2. T \in SUBSET Nat
      BY <1>1
    <3>3. PICK k \in T : \A j \in T : k <= j
      BY <3>1, <3>2, LeastExists
    <3>4. k \in 1..N /\ f[k] \notin Seq(S) /\ seqs[k] \in Seq(S)
      BY <1>1, <3>3
    <3>5. f[k] = IF k = 1 THEN seqs[k] ELSE f[k - 1] \o seqs[k]
      BY <2>2, <3>4 DEF JoinsUpTo
    <3>6. k # 1
      BY <3>4, <3>5
    <3>7. PICK m \in 1..N : k - 1 = m /\ ~(k <= m)
      BY <3>4, <3>6, <1>1
    <3>8. f[m] \in Seq(S)
      BY <3>3, <3>7
    <3>9. f[m] \o seqs[k] \in Seq(S)
      BY <3>4, <3>8
    <3>. QED  BY <3>4, <3>5, <3>6, <3>7, <3>9
  <2>4. f[N] \in Seq(S)
    BY <1>1, <1>3, <2>3
  <2>. QED  BY <2>1, <2>4
<1>. QED  BY <1>2, <1>3

-----------------------------------------------------------------------------
(* Members by name *)

\* The member that has a name of a list is in the list.
LEMMA NamedMember ==
  ASSUME NEW members, NEW n \in Names(members)
  PROVE  \E i \in DOMAIN members : Named(members, n) = members[i] /\ members[i].name = n
BY DEF Names, Named

\* Where names are given once, a member is found under its own.
LEMMA NamedUnique ==
  ASSUME NEW members, Distinct([i \in DOMAIN members |-> members[i].name]),
         NEW i \in DOMAIN members
  PROVE  members[i].name \in Names(members) /\ Named(members, members[i].name) = members[i]
<1>1. members[i].name \in Names(members)
  BY DEF Names
<1>2. PICK j \in DOMAIN members :
        Named(members, members[i].name) = members[j] /\ members[j].name = members[i].name
  BY <1>1, NamedMember
<1>3. j = i
  BY <1>2 DEF Distinct
<1>. QED  BY <1>1, <1>2, <1>3

-----------------------------------------------------------------------------
(* What registration promises *)

\* Of a binding that is not nullable every step is a column or a foreign key that
\* is never null.
LEMMA BindingNeverEmpty ==
  ASSUME NEW model, NEW config, FieldAccepted(model, config), ~config.nullable,
         IsList(config.binding), NEW j \in DOMAIN config.binding
  PROVE  LET c == Schema[Owners(model, config.binding)[j]][config.binding[j]]
         IN ~c.null /\ c.kind \in {"column", "forward"}
<1>. DEFINE path == config.binding
            owner == Owners(model, path)
            n == Len(path)
            columns == [i \in 1..n |-> Schema[owner[i]][path[i]]]
            b == ResolveFieldPath(model, path)
<1>1. /\ b.found /\ config.type \in FieldTypes
      /\ BindingTypeMatches(config.type, GetFieldType(b.column)) /\ ~b.nullable
  BY DEF FieldAccepted
<1>. HIDE DEF owner
<1>2. n > 0 /\ Leads(owner, path)
  BY <1>1 DEF ResolveFieldPath, owner
<1>3. /\ b.column = columns[n]
      /\ b.nullable = (\/ \E i \in 1..n : NullableColumn(columns[i])
                       \/ \E i \in 1..n - 1 : ToMany(columns[i]))
  BY <1>2 DEF ResolveFieldPath, owner
<1>4. n \in Nat /\ j \in 1..n
  BY DEF IsList
<1>5. owner[j] \in DOMAIN Schema /\ path[j] \in DOMAIN Schema[owner[j]]
  BY <1>2 DEF Leads
<1>6. columns[j] = Schema[owner[j]][path[j]] /\ columns[j].kind \in Kinds
  BY <1>4, <1>5, SchemaAssumption
<1>7. ~NullableColumn(columns[j])
  BY <1>1, <1>3, <1>4
<1>8. CASE j = n
  <2>1. b.column = columns[j] /\ GetFieldType(columns[j]) # "relation"
    BY <1>1, <1>3, <1>8 DEF BindingTypeMatches, FieldTypes
  <2>2. columns[j].kind = "column"
    BY <2>1 DEF GetFieldType
  <2>. QED  BY <1>6, <1>7, <2>2 DEF NullableColumn, owner
<1>9. CASE j # n
  <2>1. j \in 1..n - 1
    BY <1>4, <1>9
  <2>2. ~ToMany(columns[j])
    BY <1>1, <1>3, <2>1
  <2>. QED  BY <1>6, <1>7, <2>2 DEF NullableColumn, ToMany, Kinds, owner
<1>. QED  BY <1>8, <1>9

\* A resolved binding traverses finitely many joins.
LEMMA EdgesFinite ==
  ASSUME NEW model, NEW path, IsList(path), ResolveFieldPath(model, path).found
  PROVE  IsFiniteSet(ResolveFieldPath(model, path).edges)
<1>. DEFINE owner == Owners(model, path)
            n == Len(path)
            columns == [i \in 1..n |-> Schema[owner[i]][path[i]]]
            joined == {i \in 1..n : i < n \/ columns[i].kind \notin {"column", "forward"}}
            prefix == [i \in joined |-> SubSeq(path, 1, i)]
            edges == {SubSeq(path, 1, i) : i \in joined}
<1>. HIDE DEF owner
<1>1. n > 0 /\ Leads(owner, path)
  BY DEF ResolveFieldPath, owner
<1>2. ResolveFieldPath(model, path).edges = edges
  BY <1>1 DEF ResolveFieldPath, owner
<1>3. IsFiniteSet(joined)
  <2>1. n \in Nat /\ joined \in SUBSET (1..n)
    BY DEF IsList
  <2>2. IsFiniteSet(1..n)
    BY <2>1, FS_Interval
  <2>. QED  BY <2>1, <2>2, FS_Subset
<1>4. prefix \in Surjection(joined, edges)
  <2>. HIDE DEF joined
  <2>. QED  BY DEF Surjection
<1>5. IsFiniteSet(edges)
  <2>. HIDE DEF joined, prefix, edges
  <2>. QED  BY <1>3, <1>4, FS_Surjection
<1>. QED  BY <1>2, <1>5

\* A text that one value of an enumeration accepts means that value: no other one
\* accepts it.
LEMMA EnumTokensAgree ==
  ASSUME NEW values, EnumUnambiguous(values), NEW v \in ToSet(values), NEW t \in EnumTokens(v),
         NEW w \in ToSet(values), t \in EnumTokens(w)
  PROVE  w = v
BY DEF EnumUnambiguous, ToSet

\* What a registered field keeps of its declaration.
LEMMA BuiltField ==
  ASSUME NEW decl, NEW default, DeclarationAccepted(decl, default), IsList(decl.fields)
  PROVE  LET built == BuildResource(decl, default) IN
         /\ IsList(built.fields) /\ built.name = decl.name /\ built.model = decl.model
         /\ DOMAIN built.fields = DOMAIN decl.fields
         /\ \A i \in DOMAIN decl.fields :
              LET f == built.fields[i]
                  config == decl.fields[i]
              IN /\ f.name = config.name /\ f.binding = config.binding
                 /\ f.nullable = config.nullable /\ f.enum = config.enum
                 /\ f.type = config.type
                 /\ f.edges = ResolveFieldPath(decl.model, config.binding).edges
                 /\ FieldAccepted(decl.model, config)
<1>1. DOMAIN decl.fields = 1..Len(decl.fields) /\ Len(decl.fields) \in Nat
  BY DEF IsList
<1>. DEFINE spec(config) == BuildFieldSpec(decl.model, config)
<1>2. BuildResource(decl, default).fields = [i \in DOMAIN decl.fields |-> spec(decl.fields[i])]
  BY DEF BuildResource, Fields
<1>3. ASSUME NEW config
      PROVE  /\ spec(config).name = config.name /\ spec(config).binding = config.binding
             /\ spec(config).nullable = config.nullable /\ spec(config).enum = config.enum
             /\ spec(config).type = config.type
             /\ spec(config).edges = ResolveFieldPath(decl.model, config.binding).edges
  BY DEF BuildFieldSpec
<1>4. \A i \in DOMAIN decl.fields : FieldAccepted(decl.model, decl.fields[i])
  BY DEF DeclarationAccepted
<1>5. /\ BuildResource(decl, default).name = decl.name
      /\ BuildResource(decl, default).model = decl.model
  BY DEF BuildResource
<1>. HIDE DEF spec
<1>. QED  BY <1>1, <1>2, <1>3, <1>4, <1>5 DEF IsList

\* A registered metric keeps its name.
LEMMA BuiltMetrics ==
  ASSUME NEW decl, NEW default, DeclarationAccepted(decl, default), IsList(decl.metrics)
  PROVE  LET metrics == BuildResource(decl, default).metrics IN
         /\ IsList(metrics)
         /\ Distinct([i \in DOMAIN metrics |-> metrics[i].name])
<1>. DEFINE built(metric) == BuildMetric(decl.model, metric)
            n == Len(decl.metrics)
            metrics == BuildResource(decl, default).metrics
<1>1. n \in Nat /\ DOMAIN decl.metrics = 1..n
  BY DEF IsList
<1>2. metrics = [i \in 1..n |-> built(decl.metrics[i])]
  BY <1>1 DEF BuildResource
<1>3. ASSUME NEW metric  PROVE built(metric).name = metric.name
  BY DEF BuildMetric
<1>4. Distinct([i \in DOMAIN decl.metrics |-> decl.metrics[i].name])
  BY DEF DeclarationAccepted
<1>. HIDE DEF built, metrics
<1>5. DOMAIN metrics = 1..n /\ Len(metrics) = n
      /\ \A i \in 1..n : metrics[i].name = decl.metrics[i].name
  BY <1>1, <1>2, <1>3
<1>6. IsList(metrics)
  <2>1. metrics = [i \in 1..n |-> metrics[i]]
    BY <1>2
  <2>. QED  BY <1>1, <1>5, <2>1 DEF IsList
<1>7. Distinct([i \in DOMAIN metrics |-> metrics[i].name])
  <2>1. \A i, j \in 1..n : decl.metrics[i].name = decl.metrics[j].name => i = j
    BY <1>1, <1>4 DEF Distinct
  <2>2. \A i, j \in 1..n : metrics[i].name = metrics[j].name => i = j
    BY <1>5, <2>1
  <2>. QED  BY <1>5, <2>2 DEF Distinct
<1>. QED  BY <1>6, <1>7 DEF metrics

\* A new member under a new name leaves the others where they were.
LEMMA NamedAfterAppend ==
  ASSUME NEW S, NEW members \in Seq(S), NEW x,
         Distinct([i \in DOMAIN members |-> members[i].name]), x.name \notin Names(members)
  PROVE  LET more == Append(members, x) IN
         /\ Distinct([i \in DOMAIN more |-> more[i].name])
         /\ \A n \in Names(members) : n \in Names(more) /\ Named(more, n) = Named(members, n)
<1>. DEFINE more == Append(members, x)
            k == Len(members)
<1>1. k \in Nat /\ DOMAIN members = 1..k /\ DOMAIN more = 1..k + 1
      /\ (\A i \in 1..k : more[i] = members[i]) /\ more[k + 1] = x
  OBVIOUS
<1>. HIDE DEF more
<1>2. \A i \in 1..k : members[i].name # x.name
  BY <1>1 DEF Names
<1>3. \A i, j \in 1..k : members[i].name = members[j].name => i = j
  BY <1>1 DEF Distinct
<1>4. \A i, j \in 1..k + 1 : more[i].name = more[j].name => i = j
  <2>1. \A i \in 1..k + 1 : i \in 1..k \/ i = k + 1
    BY <1>1
  <2>. QED  BY <1>1, <1>2, <1>3, <2>1
<1>5. Distinct([i \in DOMAIN more |-> more[i].name])
  BY <1>1, <1>4 DEF Distinct
<1>6. ASSUME NEW n \in Names(members)
      PROVE  n \in Names(more) /\ Named(more, n) = Named(members, n)
  <2>1. PICK i \in 1..k : Named(members, n) = members[i] /\ members[i].name = n
    BY <1>1, NamedMember
  <2>2. i \in DOMAIN more /\ more[i] = members[i]
    BY <1>1
  <2>. QED  BY <1>5, <2>1, <2>2, NamedUnique
<1>. QED  BY <1>5, <1>6 DEF more

\* Members under distinct names, some of them chosen by position.
LEMMA SelectedByName ==
  ASSUME NEW s, IsList(s), Distinct([i \in DOMAIN s |-> s[i].name]), NEW K \in SUBSET DOMAIN s
  PROVE  LET t == AtPositions(s, K) IN
         /\ IsList(t) /\ Distinct([n \in DOMAIN t |-> t[n].name])
         /\ \A n \in DOMAIN t : \E i \in K : t[n] = s[i]
         /\ \A i \in DOMAIN s : (s[i].name \in Names(t)) <=> (i \in K)
         /\ \A i \in K : Named(t, s[i].name) = s[i]
<1>. DEFINE t == AtPositions(s, K)
<1>1. \A i, j \in DOMAIN s : s[i].name = s[j].name => i = j
  BY DEF Distinct
<1>2. \A i, j \in K : s[i] = s[j] => i = j
  BY <1>1
<1>3. /\ IsList(t)
      /\ \A n \in DOMAIN t : \E i \in K : t[n] = s[i]
      /\ \A i \in K : \E n \in DOMAIN t : t[n] = s[i]
      /\ \A n, m \in DOMAIN t : t[n] = t[m] => n = m
  BY <1>2, SelectionOfList
<1>. HIDE DEF t
<1>4. Distinct([n \in DOMAIN t |-> t[n].name])
  <2>1. \A n, m \in DOMAIN t : t[n].name = t[m].name => t[n] = t[m]
    BY <1>1, <1>3
  <2>. QED  BY <1>3, <2>1 DEF Distinct
<1>5. \A i \in DOMAIN s : (s[i].name \in Names(t)) <=> (i \in K)
  <2>1. ASSUME NEW i \in DOMAIN s, s[i].name \in Names(t)  PROVE i \in K
    BY <1>1, <1>3, <2>1 DEF Names
  <2>2. ASSUME NEW i \in K  PROVE s[i].name \in Names(t)
    BY <1>3 DEF Names
  <2>. QED  BY <2>1, <2>2
<1>6. \A i \in K : Named(t, s[i].name) = s[i]
  BY <1>3, <1>4, NamedUnique
<1>. QED  BY <1>3, <1>4, <1>5, <1>6 DEF t

\* Members each made into one of the same name.
LEMMA MappedByName ==
  ASSUME NEW t, Distinct([i \in DOMAIN t |-> t[i].name]), NEW u, DOMAIN u = DOMAIN t,
         \A i \in DOMAIN t : u[i].name = t[i].name
  PROVE  /\ Distinct([i \in DOMAIN u |-> u[i].name]) /\ Names(u) = Names(t)
         /\ \A i \in DOMAIN t : Named(u, t[i].name) = u[i]
<1>1. Distinct([i \in DOMAIN u |-> u[i].name])
  BY DEF Distinct
<1>2. Names(u) = Names(t)
  BY DEF Names
<1>3. \A i \in DOMAIN t : Named(u, t[i].name) = u[i]
  BY <1>1, NamedUnique
<1>. QED  BY <1>1, <1>2, <1>3

-----------------------------------------------------------------------------
(* The first check that fails *)

\* The first failure of some checks is "ok" exactly when they all are.
LEMMA NoFailure ==
  ASSUME NEW codes, DOMAIN codes \subseteq Nat
  PROVE  FirstFailure(codes) = "ok" <=> \A i \in DOMAIN codes : codes[i] = "ok"
<1>. DEFINE failures == {i \in DOMAIN codes : codes[i] # "ok"}
<1>1. CASE failures = {}
  BY <1>1 DEF FirstFailure
<1>2. CASE failures # {}
  <2>1. \E i \in failures : \A j \in failures : i <= j
    BY <1>2, LeastExists
  <2>. QED  BY <1>2, <2>1 DEF FirstFailure
<1>. QED  BY <1>1, <1>2

\* A first failure is the code of one of the checks.
LEMMA SomeFailure ==
  ASSUME NEW codes, DOMAIN codes \subseteq Nat, FirstFailure(codes) # "ok"
  PROVE  \E i \in DOMAIN codes : FirstFailure(codes) = codes[i]
<1>. DEFINE failures == {i \in DOMAIN codes : codes[i] # "ok"}
<1>1. CASE failures = {}
  BY <1>1 DEF FirstFailure
<1>2. CASE failures # {}
  <2>1. \E i \in failures : \A j \in failures : i <= j
    BY <1>2, LeastExists
  <2>. QED  BY <1>2, <2>1 DEF FirstFailure
<1>. QED  BY <1>1, <1>2

\* NoFailure of a list of two, four and six checks written out.
LEMMA NoFailureOfTwo ==
  ASSUME NEW a, NEW b
  PROVE  FirstFailure(<<a, b>>) = "ok" <=> a = "ok" /\ b = "ok"
<1>1. DOMAIN <<a, b>> = 1..2
  OBVIOUS
<1>. QED  BY <1>1, NoFailure

\* Four checks.
LEMMA NoFailureOfFour ==
  ASSUME NEW a, NEW b, NEW c, NEW d
  PROVE  FirstFailure(<<a, b, c, d>>) = "ok" <=> a = "ok" /\ b = "ok" /\ c = "ok" /\ d = "ok"
<1>. DEFINE codes == <<a, b, c, d>>
<1>1. /\ DOMAIN codes = 1..4 /\ codes[1] = a /\ codes[2] = b /\ codes[3] = c /\ codes[4] = d
  OBVIOUS
<1>. HIDE DEF codes
<1>. QED  BY <1>1, NoFailure DEF codes

\* Six checks.
LEMMA NoFailureOfSix ==
  ASSUME NEW a, NEW b, NEW c, NEW d, NEW e, NEW f
  PROVE  FirstFailure(<<a, b, c, d, e, f>>) = "ok" <=>
           a = "ok" /\ b = "ok" /\ c = "ok" /\ d = "ok" /\ e = "ok" /\ f = "ok"
<1>. DEFINE codes == <<a, b, c, d, e, f>>
<1>1. /\ DOMAIN codes = 1..6 /\ codes[1] = a /\ codes[2] = b /\ codes[3] = c /\ codes[4] = d
      /\ codes[5] = e /\ codes[6] = f
  OBVIOUS
<1>2. (\A i \in DOMAIN codes : codes[i] = "ok") <=>
        a = "ok" /\ b = "ok" /\ c = "ok" /\ d = "ok" /\ e = "ok" /\ f = "ok"
  BY <1>1
<1>3. DOMAIN codes \subseteq Nat
  BY <1>1
<1>. HIDE DEF codes
<1>. QED  BY <1>2, <1>3, NoFailure DEF codes

\* A check is "ok" exactly when its condition holds.
LEMMA CheckOk ==
  ASSUME NEW holds \in BOOLEAN, NEW code, code # "ok"
  PROVE  Check(holds, code) = "ok" <=> holds
BY DEF Check

-----------------------------------------------------------------------------
(* Canonical scalars *)

\* What registration makes certain of an enumeration.
EnumHolds(field) ==
  field.type = "enum" =>
    /\ EnumUnambiguous(field.enum.values)
    /\ \A v \in ToSet(field.enum.values) : IsScalar(v.value) /\ v.value.py \in {"str", "int"}

\* An accepted text of an enumeration stands for one value, and that value for
\* itself.
LEMMA CanonicalEnum ==
  ASSUME NEW field, field.type = "enum", EnumHolds(field),
         NEW v, EnumValueOf(field.enum, v) # {}
  PROVE  \E e \in ToSet(field.enum.values) :
           /\ CanonicalScalar(field, v) = e.value
           /\ EnumValueOf(field.enum, e.value) = {e.value}
<1>. DEFINE values == ToSet(field.enum.values)
<1>1. EnumUnambiguous(field.enum.values)
  BY DEF EnumHolds
<1>2. PICK e \in values : v \in EnumTokens(e)
  BY DEF EnumValueOf
<1>3. EnumValueOf(field.enum, v) = {e.value}
  BY <1>1, <1>2, EnumTokensAgree DEF EnumValueOf
<1>4. e.value \in EnumTokens(e)
  BY DEF EnumTokens
<1>5. EnumValueOf(field.enum, e.value) = {e.value}
  BY <1>1, <1>4, EnumTokensAgree DEF EnumValueOf
<1>6. CanonicalScalar(field, v) = e.value
  BY <1>3 DEF CanonicalScalar, DateTypes
<1>. QED  BY <1>5, <1>6

\* The canonical form of an accepted scalar is accepted and canonical.
LEMMA CanonicalIsStable ==
  ASSUME NEW field, EnumHolds(field), NEW v, IsScalar(v), ScalarAccepted(field, v)
  PROVE  LET c == CanonicalScalar(field, v) IN
         /\ IsScalar(c) /\ ScalarAccepted(field, c) /\ CanonicalScalar(field, c) = c
         /\ v.py # "null" => c.py # "null"
         /\ field.type = "string" => c = v
         /\ field.type \in DateTypes => c.py = v.py /\ c.reads = v.reads /\ c.value = v.value
<1>. DEFINE c == CanonicalScalar(field, v)
<1>1. CASE field.type = "float"
  <2>1. c = [v EXCEPT !.py = "float", !.reads = "number", !.spelling = 0]
    BY <1>1 DEF CanonicalScalar, DateTypes
  <2>2. c = [py |-> "float", reads |-> "number", value |-> v.value, spelling |-> 0]
    BY <2>1 DEF IsScalar
  <2>. HIDE DEF c
  <2>3. CanonicalScalar(field, c) = c
    BY <1>1, <2>2 DEF CanonicalScalar, DateTypes
  <2>. QED  BY <1>1, <2>2, <2>3 DEF IsScalar, ScalarAccepted, DateTypes, c
<1>2. CASE field.type = "enum"
  <2>1. EnumValueOf(field.enum, v) # {}
    BY <1>2 DEF ScalarAccepted
  <2>2. PICK e \in ToSet(field.enum.values) :
          c = e.value /\ EnumValueOf(field.enum, e.value) = {e.value}
    BY <1>2, <2>1, CanonicalEnum
  <2>3. IsScalar(e.value) /\ e.value.py \in {"str", "int"}
    BY <1>2 DEF EnumHolds
  <2>4. CanonicalScalar(field, e.value) = e.value
    BY <1>2, <2>2 DEF CanonicalScalar, DateTypes
  <2>5. ScalarAccepted(field, e.value)
    BY <1>2, <2>2 DEF ScalarAccepted
  <2>. QED  BY <1>2, <2>2, <2>3, <2>4, <2>5 DEF DateTypes
<1>3. CASE field.type = "uuid"
  <2>1. c = [v EXCEPT !.spelling = 0]
    BY <1>3 DEF CanonicalScalar, DateTypes
  <2>2. c = [py |-> v.py, reads |-> v.reads, value |-> v.value, spelling |-> 0]
    BY <2>1 DEF IsScalar
  <2>. HIDE DEF c
  <2>3. CanonicalScalar(field, c) = c
    BY <1>3, <2>2 DEF CanonicalScalar, DateTypes
  <2>. QED  BY <1>3, <2>2, <2>3 DEF IsScalar, ScalarAccepted, ReadsAs, DateTypes, c
<1>4. CASE field.type \in DateTypes \cup {"time"}
  <2>1. c = NormalizeTemporal(field.type, v)
    BY <1>4 DEF CanonicalScalar, DateTypes
  <2>2. c = v \/ c = [py |-> v.py, reads |-> v.reads, value |-> v.value, spelling |-> 0]
    BY <2>1 DEF IsScalar, NormalizeTemporal
  <2>3. NormalizeTemporal(field.type, c) = c
    BY <2>1 DEF NormalizeTemporal, IsScalar
  <2>. HIDE DEF c
  <2>4. CanonicalScalar(field, c) = c
    BY <1>4, <2>3 DEF CanonicalScalar, DateTypes
  <2>5. c.py = v.py /\ c.reads = v.reads /\ c.value = v.value /\ IsScalar(c)
    BY <2>2 DEF IsScalar
  <2>6. ScalarAccepted(field, c)
    BY <1>4, <2>5 DEF ScalarAccepted, ReadsAs, DateTypes
  <2>. QED  BY <1>4, <2>4, <2>5, <2>6 DEF DateTypes, c
<1>5. CASE field.type \notin {"float", "enum", "uuid", "time"} \cup DateTypes
  <2>1. c = v
    BY <1>5 DEF CanonicalScalar, DateTypes
  <2>. QED  BY <1>5, <2>1 DEF DateTypes
<1>. QED  BY <1>1, <1>2, <1>3, <1>4, <1>5

-----------------------------------------------------------------------------
(* Canonical filters *)

Unvalued == {"isnull", "last_n_days", "last_n_months"}
CanonicalItems(field, items) == [i \in DOMAIN items |-> CanonicalScalar(field, items[i])]

\* Putting the canonical values in changes nothing else of a filter.
LEMMA NormalFilterShape ==
  ASSUME NEW field, NEW f, IsFilter(f), EnumHolds(field),
         \A v \in ToSet(f.value.items) : ScalarAccepted(field, v)
  PROVE  LET items == CanonicalItems(field, f.value.items)
             g == [f EXCEPT !.value.items = items] IN
         /\ g = [field |-> f.field, op |-> f.op,
                 value |-> [list |-> f.value.list, items |-> items]]
         /\ IsFilter(g)
         /\ Len(items) = Len(f.value.items) /\ DOMAIN items = DOMAIN f.value.items
         /\ CanonicalItems(field, items) = items
<1>. DEFINE old == f.value.items
            n == Len(old)
            items == CanonicalItems(field, old)
            g == [f EXCEPT !.value.items = items]
<1>1. n \in Nat /\ DOMAIN old = 1..n
  BY DEF IsFilter, IsList
<1>2. \A i \in 1..n : old[i] \in ToSet(old)
  BY <1>1 DEF ToSet
<1>3. \A i \in 1..n : /\ IsScalar(old[i]) /\ ScalarAccepted(field, old[i])
                      /\ IsScalar(CanonicalScalar(field, old[i]))
                      /\ CanonicalScalar(field, CanonicalScalar(field, old[i]))
                           = CanonicalScalar(field, old[i])
  BY <1>2, CanonicalIsStable DEF IsFilter
<1>4. items = [i \in 1..n |-> CanonicalScalar(field, old[i])]
  BY <1>1 DEF CanonicalItems
<1>5. Len(items) = n /\ DOMAIN items = 1..n
  BY <1>1, <1>4
<1>6. CanonicalItems(field, items) = items
  BY <1>3, <1>4, <1>5 DEF CanonicalItems
<1>7. g = [field |-> f.field, op |-> f.op, value |-> [list |-> f.value.list, items |-> items]]
  BY DEF IsFilter
<1>8. IsList(items) /\ \A v \in ToSet(items) : IsScalar(v)
  <2>. HIDE DEF items
  <2>. QED  BY <1>1, <1>3, <1>4, <1>5 DEF IsList, ToSet
<1>. HIDE DEF items, g
<1>9. IsFilter(g)
  BY <1>1, <1>5, <1>7, <1>8 DEF IsFilter
<1>. QED  BY <1>1, <1>5, <1>6, <1>7, <1>9 DEF items, g

\* Normalising a filter keeps its field, operator and number of values, leaves a
\* filter that parses and is accepted, and does nothing the second time.
LEMMA NormalFilter ==
  ASSUME NEW field, NEW f, EnumHolds(field), IsFilter(f), ValueParses(f.op, f.value),
         f.op \in OperatorsOf(field.type), FilterValueAccepted(field, f)
  PROVE  LET g == NormalizeFilter(field, f) IN
         /\ IsFilter(g) /\ g.field = f.field /\ g.op = f.op /\ g.value.list = f.value.list
         /\ Len(g.value.items) = Len(f.value.items)
         /\ ValueParses(g.op, g.value) /\ FilterValueAccepted(field, g)
         /\ NormalizeFilter(field, g) = g
<1>. DEFINE old == f.value.items
            n == Len(old)
            items == CanonicalItems(field, old)
            g == NormalizeFilter(field, f)
            h == [f EXCEPT !.value.items = items]
<1>0. n \in Nat /\ DOMAIN old = 1..n /\ \A v \in ToSet(old) : IsScalar(v)
  BY DEF IsFilter, IsList
<1>1. CASE g = f
  BY <1>1
<1>2. CASE g # f
  <2>1. f.op \notin Unvalued /\ g = h
    BY <1>2 DEF NormalizeFilter, Unvalued, CanonicalItems
  <2>2. CASE f.op = "date_range"
    <3>1. field.type \in DateTypes
      BY <2>2 DEF OperatorsOf
    <3>2. RangeAccepted(field, old)
      BY <2>2 DEF FilterValueAccepted
    <3>3. \A v \in ToSet(old) : ReadsAs(field.type, v) /\ ScalarAccepted(field, v)
      BY <3>1, <3>2 DEF RangeAccepted, ScalarAccepted, DateTypes
    <3>4. /\ h = [field |-> f.field, op |-> f.op,
                  value |-> [list |-> f.value.list, items |-> items]]
          /\ IsFilter(h) /\ Len(items) = n /\ DOMAIN items = DOMAIN old
          /\ CanonicalItems(field, items) = items
      BY <3>3, NormalFilterShape
    <3>5. \A i \in 1..n : items[i] = CanonicalScalar(field, old[i]) /\ old[i] \in ToSet(old)
      BY <1>0 DEF CanonicalItems, ToSet
    <3>6. \A i \in 1..n : /\ items[i].py = old[i].py /\ items[i].reads = old[i].reads
                          /\ items[i].value = old[i].value
      BY <1>0, <3>1, <3>3, <3>5, CanonicalIsStable
    <3>7. n = 2 /\ f.value.list /\ \A v \in ToSet(old) : v.py = "str" /\ v.reads # "empty"
      BY <2>2 DEF ValueParses
    <3>. HIDE DEF items, h
    <3>8. \A v \in ToSet(items) : \E i \in 1..n : v = items[i]
      BY <1>0, <3>4 DEF ToSet
    <3>9. ValueParses(f.op, h.value)
      BY <2>2, <3>4, <3>5, <3>6, <3>7, <3>8 DEF ValueParses
    <3>10. RangeAccepted(field, items)
      BY <3>2, <3>3, <3>5, <3>6, <3>7, <3>8 DEF RangeAccepted, ReadsAs
    <3>11. FilterValueAccepted(field, h)
      BY <2>2, <3>4, <3>10 DEF FilterValueAccepted
    <3>12. NormalizeFilter(field, h) = h
      BY <2>2, <3>4 DEF NormalizeFilter, CanonicalItems
    <3>. QED  BY <2>1, <3>4, <3>9, <3>11, <3>12
  <2>3. CASE f.op # "date_range"
    <3>3. \A v \in ToSet(old) : ScalarAccepted(field, v)
      BY <2>1, <2>3 DEF FilterValueAccepted, Unvalued
    <3>4. /\ h = [field |-> f.field, op |-> f.op,
                  value |-> [list |-> f.value.list, items |-> items]]
          /\ IsFilter(h) /\ Len(items) = n /\ DOMAIN items = DOMAIN old
          /\ CanonicalItems(field, items) = items
      BY <3>3, NormalFilterShape
    <3>5. \A i \in 1..n : items[i] = CanonicalScalar(field, old[i]) /\ old[i] \in ToSet(old)
      BY <1>0 DEF CanonicalItems, ToSet
    <3>6. \A i \in 1..n : /\ ScalarAccepted(field, items[i])
                          /\ old[i].py # "null" => items[i].py # "null"
                          /\ field.type = "string" => items[i] = old[i]
      BY <1>0, <3>3, <3>5, CanonicalIsStable
    <3>. HIDE DEF items, h
    <3>8. \A v \in ToSet(items) : \E i \in 1..n : v = items[i]
      BY <1>0, <3>4 DEF ToSet
    <3>9. ValueParses(f.op, h.value)
      <4>1. f.value.list \/ n = 1
        BY DEF IsFilter
      <4>2. CASE f.op = "in"
        BY <4>2, <1>0, <3>4 DEF ValueParses
      <4>3. CASE f.op \in {"contains", "icontains"}
        <5>1. field.type = "string"
          BY <4>3 DEF OperatorsOf, NumericTypes, DateTypes
        <5>2. ~f.value.list /\ old[1].py = "str" /\ old[1].reads # "empty"
          BY <4>3 DEF ValueParses
        <5>3. items[1] = old[1]
          BY <5>1, <5>2, <4>1, <3>6
        <5>. QED  BY <4>3, <5>2, <5>3, <3>4 DEF ValueParses
      <4>4. CASE f.op \notin {"in", "contains", "icontains"}
        <5>1. ~f.value.list /\ old[1].py # "null"
          BY <4>4, <2>1, <2>3 DEF ValueParses, Unvalued
        <5>2. items[1].py # "null"
          BY <5>1, <4>1, <3>6
        <5>. QED  BY <4>4, <2>1, <2>3, <5>1, <5>2, <3>4 DEF ValueParses, Unvalued
      <4>. QED  BY <4>2, <4>3, <4>4
    <3>11. FilterValueAccepted(field, h)
      BY <2>1, <2>3, <3>4, <3>6, <3>8 DEF FilterValueAccepted, Unvalued
    <3>12. NormalizeFilter(field, h) = h
      BY <2>1, <2>3, <3>4 DEF NormalizeFilter, CanonicalItems, Unvalued
    <3>. QED  BY <2>1, <3>4, <3>9, <3>11, <3>12
  <2>. QED  BY <2>2, <2>3
<1>. QED  BY <1>1, <1>2

-----------------------------------------------------------------------------
(* Each rule on its own *)

\* A plan passes the members' rules when every member it names does.
LEMMA MembersOk ==
  ASSUME NEW plan, IsPlan(plan), NEW resource, NEW P
  PROVE  MembersCode(plan, resource, P) = "ok" <=>
           /\ \A i \in DOMAIN plan.select : FieldUse(resource, plan.select[i], "select", P) = "ok"
           /\ \A i \in DOMAIN plan.filters : FilterUse(resource, plan.filters[i], P) = "ok"
           /\ \A i \in DOMAIN plan.group : GroupUse(resource, plan.group[i], P) = "ok"
           /\ MetricsCode(plan, resource, P) = "ok"
           /\ FanOutAccepted(plan, resource)
           /\ \A i \in DOMAIN plan.order : OrderUse(plan, resource, plan.order[i], P) = "ok"
<1>. DEFINE selects == [i \in DOMAIN plan.select |->
                          FieldUse(resource, plan.select[i], "select", P)]
            filters == [i \in DOMAIN plan.filters |-> FilterUse(resource, plan.filters[i], P)]
            groups == [i \in DOMAIN plan.group |-> GroupUse(resource, plan.group[i], P)]
            orders == [i \in DOMAIN plan.order |->
                         OrderUse(plan, resource, plan.order[i], P)]
<1>1. /\ DOMAIN plan.select \subseteq Nat /\ DOMAIN plan.filters \subseteq Nat
      /\ DOMAIN plan.group \subseteq Nat /\ DOMAIN plan.order \subseteq Nat
  <2>1. ASSUME NEW s, IsList(s)  PROVE DOMAIN s \subseteq Nat
    BY <2>1 DEF IsList
  <2>. QED  BY <2>1 DEF IsPlan
<1>2. /\ FirstFailure(selects) = "ok" <=> \A i \in DOMAIN selects : selects[i] = "ok"
      /\ FirstFailure(filters) = "ok" <=> \A i \in DOMAIN filters : filters[i] = "ok"
      /\ FirstFailure(groups) = "ok" <=> \A i \in DOMAIN groups : groups[i] = "ok"
      /\ FirstFailure(orders) = "ok" <=> \A i \in DOMAIN orders : orders[i] = "ok"
  BY <1>1, NoFailure
<1>3. Check(FanOutAccepted(plan, resource), "PlanInvalid") = "ok"
        <=> FanOutAccepted(plan, resource)
  BY DEF Check
<1>4. MembersCode(plan, resource, P) = "ok" <=>
        /\ FirstFailure(selects) = "ok" /\ FirstFailure(filters) = "ok"
        /\ FirstFailure(groups) = "ok" /\ MetricsCode(plan, resource, P) = "ok"
        /\ Check(FanOutAccepted(plan, resource), "PlanInvalid") = "ok"
        /\ FirstFailure(orders) = "ok"
  BY NoFailureOfSix DEF MembersCode
<1>. QED  BY <1>2, <1>3, <1>4

\* A metric is requested once, exists, and the caller has its right.
LEMMA MetricsOk ==
  ASSUME NEW plan, IsPlan(plan), NEW resource, NEW P
  PROVE  MetricsCode(plan, resource, P) = "ok" <=>
           \A i \in DOMAIN plan.metrics :
             /\ \A j \in 1..i - 1 : plan.metrics[j] # plan.metrics[i]
             /\ MetricUse(resource, plan.metrics[i], P) = "ok"
<1>. DEFINE codes == [i \in DOMAIN plan.metrics |->
                        IF \E j \in 1..i - 1 : plan.metrics[j] = plan.metrics[i]
                        THEN "PlanInvalid" ELSE MetricUse(resource, plan.metrics[i], P)]
<1>1. DOMAIN plan.metrics \subseteq Nat
  BY DEF IsPlan, IsList
<1>2. FirstFailure(codes) = "ok" <=> \A i \in DOMAIN codes : codes[i] = "ok"
  BY <1>1, NoFailure
<1>3. \A i \in DOMAIN plan.metrics : codes[i] = "ok" <=>
        /\ \A j \in 1..i - 1 : plan.metrics[j] # plan.metrics[i]
        /\ MetricUse(resource, plan.metrics[i], P) = "ok"
  OBVIOUS
<1>. QED  BY <1>2, <1>3 DEF MetricsCode

\* A metric may be requested exactly when it is registered, permitted and near.
LEMMA MetricUseOk ==
  ASSUME NEW resource, NEW name, NEW P
  PROVE  MetricUse(resource, name, P) = "ok" <=>
           /\ name \in Names(resource.metrics)
           /\ Named(resource.metrics, name).depth <= Limits.joins
           /\ PermissionSetAllows(P, Named(resource.metrics, name).perm)
<1>. DEFINE metric == Named(resource.metrics, name)
<1>1. CASE name \notin Names(resource.metrics)
  BY <1>1 DEF MetricUse
<1>2. CASE name \in Names(resource.metrics)
  <2>1. MetricUse(resource, name, P) =
          FirstFailure(<<Check(metric.depth <= Limits.joins, "PlanInvalid"),
                         Check(PermissionSetAllows(P, metric.perm), "PermissionDenied")>>)
    BY <1>2 DEF MetricUse
  <2>2. Check(metric.depth <= Limits.joins, "PlanInvalid") = "ok"
          <=> metric.depth <= Limits.joins
    BY DEF Check
  <2>3. Check(PermissionSetAllows(P, metric.perm), "PermissionDenied") = "ok"
          <=> PermissionSetAllows(P, metric.perm)
    BY DEF Check
  <2>. HIDE DEF metric
  <2>. QED  BY <1>2, <2>1, <2>2, <2>3, NoFailureOfTwo DEF metric
<1>. QED  BY <1>1, <1>2

\* A usable field is one the caller sees in the catalog.
LEMMA FieldUseOk ==
  ASSUME NEW resource, NEW name, NEW usage, NEW P
  PROVE  FieldUse(resource, name, usage, P) = "ok" <=>
           /\ name \in Names(resource.fields)
           /\ LET f == Named(resource.fields, name) IN
              /\ Cardinality(f.edges) <= Limits.joins
              /\ f.filterOnly => usage = "filter"
              /\ FieldCatalogVisible(f, P)
              /\ usage \in ResultUsages => f.resultVisible
<1>. DEFINE f == Named(resource.fields, name)
            joins == Cardinality(f.edges) <= Limits.joins
            only == f.filterOnly => usage = "filter"
            sensitive == f.sensitive => f.perm # None /\ PermissionSetAllows(P, f.perm)
            allowed == PermissionSetAllows(P, f.perm)
            visible == f.llmVisible \/ f.sensitive
            shown == usage \in ResultUsages => f.resultVisible
<1>1. CASE name \notin Names(resource.fields)
  BY <1>1 DEF FieldUse
<1>2. CASE name \in Names(resource.fields)
  <2>1. FieldUse(resource, name, usage, P) =
          FirstFailure(<<Check(joins, "BudgetExceeded"), Check(only, "PlanInvalid"),
                         Check(sensitive, "PermissionDenied"), Check(allowed, "PermissionDenied"),
                         Check(visible, "PermissionDenied"), Check(shown, "PermissionDenied")>>)
    BY <1>2 DEF FieldUse
  <2>2. /\ Check(joins, "BudgetExceeded") = "ok" <=> joins
        /\ Check(only, "PlanInvalid") = "ok" <=> only
        /\ Check(sensitive, "PermissionDenied") = "ok" <=> sensitive
        /\ Check(allowed, "PermissionDenied") = "ok" <=> allowed
        /\ Check(visible, "PermissionDenied") = "ok" <=> visible
        /\ Check(shown, "PermissionDenied") = "ok" <=> shown
    BY DEF Check
  <2>3. (sensitive /\ allowed /\ visible) <=> FieldCatalogVisible(f, P)
    BY DEF FieldCatalogVisible
  <2>4. FieldUse(resource, name, usage, P) = "ok" <=>
          joins /\ only /\ sensitive /\ allowed /\ visible /\ shown
    <3>. HIDE DEF joins, only, sensitive, allowed, visible, shown
    <3>. QED  BY <2>1, <2>2, NoFailureOfSix
  <2>. QED  BY <1>2, <2>3, <2>4
<1>. QED  BY <1>1, <1>2

\* A filter is admitted exactly when its field may be filtered with its operator.
LEMMA FilterUseOk ==
  ASSUME NEW resource, NEW f, NEW P
  PROVE  FilterUse(resource, f, P) = "ok" <=>
           /\ FieldUse(resource, f.field, "filter", P) = "ok"
           /\ f.op \in OperatorsOf(Named(resource.fields, f.field).type)
BY DEF FilterUse, Check

\* A grouping is admitted exactly when its field may be grouped by; only dates are
\* truncated.
LEMMA GroupUseOk ==
  ASSUME NEW resource, NEW g, NEW P
  PROVE  GroupUse(resource, g, P) = "ok" <=>
           /\ FieldUse(resource, g.field, "group_by", P) = "ok"
           /\ g.trunc # None => Named(resource.fields, g.field).type \in DateTypes
BY DEF GroupUse, Check

\* An ordering is admitted exactly when it names a requested metric, or a field that
\* is selected or grouped by and may be ordered by.
LEMMA OrderUseOk ==
  ASSUME NEW plan, NEW resource, NEW term, NEW P
  PROVE  OrderUse(plan, resource, term, P) = "ok" <=>
           IF term.field = None THEN term.metric \in ToSet(plan.metrics)
           ELSE /\ FieldUse(resource, term.field, "order_by", P) = "ok"
                /\ \/ term.field \in ToSet(plan.select)
                   \/ \E g \in ToSet(plan.group) : g.field = term.field
<1>. DEFINE use == FieldUse(resource, term.field, "order_by", P)
            placed == \/ term.field \in ToSet(plan.select)
                      \/ \E g \in ToSet(plan.group) : g.field = term.field
<1>1. CASE term.field = None
  BY <1>1 DEF OrderUse, Check
<1>2. CASE term.field # None
  <2>1. OrderUse(plan, resource, term, P) = FirstFailure(<<use, Check(placed, "PlanInvalid")>>)
    BY <1>2 DEF OrderUse
  <2>2. Check(placed, "PlanInvalid") = "ok" <=> placed
    BY DEF Check
  <2>. HIDE DEF use, placed
  <2>3. OrderUse(plan, resource, term, P) = "ok" <=> use = "ok" /\ placed
    BY <2>1, <2>2, NoFailureOfTwo
  <2>. QED  BY <1>2, <2>3 DEF use, placed
<1>. QED  BY <1>1, <1>2

\* A plan is admitted when the resource is permitted and every rule holds.
LEMMA AdmissionOk ==
  ASSUME NEW plan, NEW resource, NEW P
  PROVE  AdmissionCode(plan, resource, P) = "ok" <=>
           /\ PermissionSetAllows(P, resource.perm)
           /\ ShapeAccepted(plan)
           /\ LimitsCode(plan, resource) = "ok"
           /\ MembersCode(plan, resource, P) = "ok"
           /\ FiltersAccepted(plan, resource)
<1>. DEFINE limits == LimitsCode(plan, resource)
            members == MembersCode(plan, resource, P)
            permitted == PermissionSetAllows(P, resource.perm)
            shape == ShapeAccepted(plan)
            code == FirstFailure(<<Check(permitted, "PermissionDenied"),
                                   Check(shape, "PlanInvalid"), limits, members>>)
<1>1. permitted \in BOOLEAN /\ shape \in BOOLEAN /\ FiltersAccepted(plan, resource) \in BOOLEAN
  BY DEF PermissionSetAllows, ShapeAccepted, FiltersAccepted
<1>2. AdmissionCode(plan, resource, P) =
        IF code # "ok" THEN code ELSE Check(FiltersAccepted(plan, resource), "PlanInvalid")
  BY DEF AdmissionCode
<1>3. /\ Check(permitted, "PermissionDenied") = "ok" <=> permitted
      /\ Check(shape, "PlanInvalid") = "ok" <=> shape
      /\ Check(FiltersAccepted(plan, resource), "PlanInvalid") = "ok"
           <=> FiltersAccepted(plan, resource)
  BY <1>1, CheckOk
<1>4. code = "ok" <=> permitted /\ shape /\ limits = "ok" /\ members = "ok"
  <2>. HIDE DEF permitted, shape, limits, members
  <2>. QED  BY <1>3, NoFailureOfFour
<1>. QED  BY <1>2, <1>3, <1>4

\* The budgets of a plan and its repetitions.
LEMMA LimitsOk ==
  ASSUME NEW plan, NEW resource
  PROVE  LimitsCode(plan, resource) = "ok" <=>
           /\ /\ Len(plan.filters) <= Limits.filters
              /\ Len(plan.select) <= Limits.selected
              /\ Len(plan.order) <= Limits.order
              /\ Len(plan.metrics) <= Limits.metrics
              /\ Len(plan.group) <= Limits.group
           /\ plan.limit <= Limits.rows
           /\ \A f \in ToSet(plan.filters) : f.op = "in" => Len(f.value.items) <= Limits.inValues
           /\ FilterScalars(plan) <= Limits.values
           /\ Cardinality(RelationshipEdges(plan, resource)) <= Limits.edges
           /\ NoDuplicates(plan)
<1>. DEFINE sizes == /\ Len(plan.filters) <= Limits.filters
                     /\ Len(plan.select) <= Limits.selected
                     /\ Len(plan.order) <= Limits.order
                     /\ Len(plan.metrics) <= Limits.metrics
                     /\ Len(plan.group) <= Limits.group
            rows == plan.limit <= Limits.rows
            inValues == \A f \in ToSet(plan.filters) :
                          f.op = "in" => Len(f.value.items) <= Limits.inValues
            values == FilterScalars(plan) <= Limits.values
            edges == Cardinality(RelationshipEdges(plan, resource)) <= Limits.edges
            distinct == NoDuplicates(plan)
<1>1. LimitsCode(plan, resource) =
        FirstFailure(<<Check(sizes, "BudgetExceeded"), Check(rows, "BudgetExceeded"),
                       Check(inValues, "BudgetExceeded"), Check(values, "BudgetExceeded"),
                       Check(edges, "BudgetExceeded"), Check(distinct, "PlanInvalid")>>)
  BY DEF LimitsCode
<1>2. /\ Check(sizes, "BudgetExceeded") = "ok" <=> sizes
      /\ Check(rows, "BudgetExceeded") = "ok" <=> rows
      /\ Check(inValues, "BudgetExceeded") = "ok" <=> inValues
      /\ Check(values, "BudgetExceeded") = "ok" <=> values
      /\ Check(edges, "BudgetExceeded") = "ok" <=> edges
      /\ Check(distinct, "PlanInvalid") = "ok" <=> distinct
  BY DEF Check
<1>3. LimitsCode(plan, resource) = "ok" <=>
        sizes /\ rows /\ inValues /\ values /\ edges /\ distinct
  <2>. HIDE DEF sizes, rows, inValues, values, edges, distinct
  <2>. QED  BY <1>1, <1>2, NoFailureOfSix
<1>. QED  BY <1>3

-----------------------------------------------------------------------------
(* Canonical plans *)

\* What registration makes certain of a resource's fields.
EnumsHold(resource) == \A f \in ToSet(resource.fields) : EnumHolds(f)

\* The same filters but for the values they compare with.
SameFilters(old, new) ==
  /\ DOMAIN new = DOMAIN old /\ Len(new) = Len(old)
  /\ \A i \in DOMAIN old :
       /\ new[i].field = old[i].field /\ new[i].op = old[i].op
       /\ new[i].value.list = old[i].value.list
       /\ Len(new[i].value.items) = Len(old[i].value.items)

WithFilters(plan, filters) ==
  [resource |-> plan.resource, intent |-> plan.intent, select |-> plan.select,
   filters |-> filters, group |-> plan.group, metrics |-> plan.metrics,
   order |-> plan.order, limit |-> plan.limit]

\* An admitted plan filters on fields of the resource with their operators.
LEMMA AdmittedFilters ==
  ASSUME NEW plan, IsPlan(plan), NEW resource, EnumsHold(resource), NEW P,
         AdmissionCode(plan, resource, P) = "ok", NEW i \in DOMAIN plan.filters
  PROVE  LET f == plan.filters[i]
             field == Named(resource.fields, f.field)
         IN EnumHolds(field) /\ f.op \in OperatorsOf(field.type) /\ FilterValueAccepted(field, f)
<1>. DEFINE f == plan.filters[i]
            field == Named(resource.fields, f.field)
<1>1. FilterUse(resource, f, P) = "ok" /\ FiltersAccepted(plan, resource)
  BY AdmissionOk, MembersOk
<1>2. f.op \in OperatorsOf(field.type) /\ f.field \in Names(resource.fields)
  BY <1>1, FilterUseOk, FieldUseOk
<1>3. field \in ToSet(resource.fields)
  BY <1>2, NamedMember DEF ToSet
<1>4. f \in ToSet(plan.filters)
  BY DEF ToSet
<1>. QED  BY <1>1, <1>2, <1>3, <1>4 DEF EnumsHold, FiltersAccepted

\* The canonical form of an admitted plan parses, differs only in the values of
\* its filters, and is its own canonical form.
LEMMA NormalPlan ==
  ASSUME NEW plan, IsPlan(plan), Parses(plan), NEW resource, EnumsHold(resource), NEW P,
         AdmissionCode(plan, resource, P) = "ok"
  PROVE  LET q == NormalizeFilters(plan, resource) IN
         /\ q = WithFilters(plan, q.filters) /\ SameFilters(plan.filters, q.filters)
         /\ IsPlan(q) /\ Parses(q) /\ FiltersAccepted(q, resource)
         /\ NormalizeFilters(q, resource) = q
<1>. DEFINE old == plan.filters
            n == Len(old)
            Field(i) == Named(resource.fields, old[i].field)
            new == [i \in DOMAIN old |-> NormalizeFilter(Field(i), old[i])]
            q == NormalizeFilters(plan, resource)
<1>1. n \in Nat /\ DOMAIN old = 1..n
  BY DEF IsPlan, IsList
<1>2. \A i \in 1..n : old[i] \in ToSet(old)
  BY <1>1 DEF ToSet
<1>3. \A i \in 1..n :
        /\ IsFilter(old[i]) /\ old[i].op \in Operators /\ ValueParses(old[i].op, old[i].value)
        /\ EnumHolds(Field(i)) /\ old[i].op \in OperatorsOf(Field(i).type)
        /\ FilterValueAccepted(Field(i), old[i])
  BY <1>1, <1>2, AdmittedFilters DEF IsPlan, Parses
<1>4. \A i \in 1..n : LET g == NormalizeFilter(Field(i), old[i]) IN
        /\ IsFilter(g) /\ g.field = old[i].field /\ g.op = old[i].op
        /\ g.value.list = old[i].value.list /\ Len(g.value.items) = Len(old[i].value.items)
        /\ ValueParses(g.op, g.value) /\ FilterValueAccepted(Field(i), g)
        /\ NormalizeFilter(Field(i), g) = g
  BY <1>3, NormalFilter
<1>5. new = [i \in 1..n |-> NormalizeFilter(Field(i), old[i])]
  BY <1>1
<1>6. q = WithFilters(plan, new)
  BY DEF IsPlan, NormalizeFilters, WithFilters
<1>. HIDE DEF new, q
<1>7. q.filters = new
  BY <1>6 DEF WithFilters
<1>8. DOMAIN new = 1..n /\ Len(new) = n
  BY <1>1, <1>5
<1>9. \A i \in 1..n : new[i] = NormalizeFilter(Field(i), old[i])
  BY <1>5
<1>. HIDE DEF Field
<1>10. \A g \in ToSet(new) : \E i \in 1..n : g = new[i]
  BY <1>8 DEF ToSet
<1>11. SameFilters(old, new)
  BY <1>1, <1>4, <1>8, <1>9 DEF SameFilters
<1>12. IsPlan(q)
  <2>1. IsList(new)
    <3>1. new = [i \in 1..n |-> new[i]]
      BY <1>5, <1>9
    <3>. QED  BY <1>1, <1>8, <3>1 DEF IsList
  <2>2. \A g \in ToSet(new) : IsFilter(g)
    BY <1>4, <1>9, <1>10
  <2>. QED  BY <1>6, <2>1, <2>2 DEF IsPlan, WithFilters
<1>13. Parses(q)
  <2>1. \A g \in ToSet(new) : g.op \in Operators /\ ValueParses(g.op, g.value)
    BY <1>3, <1>4, <1>9, <1>10
  <2>. QED  BY <1>6, <2>1 DEF Parses, WithFilters
<1>14. \A i \in 1..n : Named(resource.fields, new[i].field) = Field(i)
  BY <1>4, <1>9 DEF Field
<1>15. FiltersAccepted(q, resource)
  BY <1>4, <1>7, <1>9, <1>10, <1>14 DEF FiltersAccepted
<1>16. NormalizeFilters(q, resource) = q
  <2>1. [i \in DOMAIN new |-> NormalizeFilter(Named(resource.fields, new[i].field), new[i])] = new
    <3>1. \A i \in 1..n : NormalizeFilter(Named(resource.fields, new[i].field), new[i]) = new[i]
      BY <1>4, <1>9, <1>14
    <3>2. new = [i \in 1..n |-> new[i]]
      BY <1>5, <1>9
    <3>. QED  BY <1>8, <3>1, <3>2
  <2>. QED  BY <1>6, <1>7, <2>1 DEF NormalizeFilters, WithFilters
<1>. QED  BY <1>6, <1>7, <1>11, <1>12, <1>13, <1>15, <1>16 DEF q

\* The rules before the values are compared look at nothing else of a filter.
LEMMA SameAdmission ==
  ASSUME NEW p, IsPlan(p), NEW q, IsPlan(q), q = WithFilters(p, q.filters),
         SameFilters(p.filters, q.filters), NoDuplicates(q),
         NEW resource, FiltersAccepted(q, resource), NEW P,
         AdmissionCode(p, resource, P) = "ok"
  PROVE  AdmissionCode(q, resource, P) = "ok"
<1>. DEFINE n == Len(p.filters)
<1>1. /\ q.resource = p.resource /\ q.intent = p.intent /\ q.select = p.select
      /\ q.group = p.group /\ q.metrics = p.metrics /\ q.order = p.order /\ q.limit = p.limit
  BY DEF WithFilters
<1>2. n \in Nat /\ DOMAIN p.filters = 1..n /\ DOMAIN q.filters = 1..n /\ Len(q.filters) = n
  BY DEF IsPlan, IsList, SameFilters
<1>3. \A i \in 1..n :
        /\ q.filters[i].field = p.filters[i].field /\ q.filters[i].op = p.filters[i].op
        /\ q.filters[i].value.list = p.filters[i].value.list
        /\ Len(q.filters[i].value.items) = Len(p.filters[i].value.items)
  BY <1>2 DEF SameFilters
<1>4. /\ ToSet(p.filters) = {p.filters[i] : i \in 1..n}
      /\ ToSet(q.filters) = {q.filters[i] : i \in 1..n}
  BY <1>2 DEF ToSet
<1>5. {f.field : f \in ToSet(q.filters)} = {f.field : f \in ToSet(p.filters)}
  BY <1>3, <1>4
<1>6. FieldReferences(q) = FieldReferences(p)
  BY <1>1, <1>5 DEF FieldReferences
<1>7. UsedFields(q, resource) = UsedFields(p, resource)
      /\ UsedMetrics(q, resource) = UsedMetrics(p, resource)
  BY <1>1, <1>6 DEF UsedFields, UsedMetrics
<1>8. RelationshipEdges(q, resource) = RelationshipEdges(p, resource)
  BY <1>7 DEF RelationshipEdges
<1>9. FilterScalars(q) = FilterScalars(p)
  <2>1. \A i \in 1..n : ScalarCount(q.filters[i]) = ScalarCount(p.filters[i])
    BY <1>3 DEF ScalarCount
  <2>2. UNION {{i} \X (1..ScalarCount(q.filters[i])) : i \in 1..n}
          = UNION {{i} \X (1..ScalarCount(p.filters[i])) : i \in 1..n}
    BY <2>1
  <2>. QED  BY <1>2, <2>2 DEF FilterScalars
<1>10. ShapeAccepted(q) /\ PermissionSetAllows(P, resource.perm)
  BY <1>1, AdmissionOk DEF ShapeAccepted
<1>11. LimitsCode(q, resource) = "ok"
  <2>1. LimitsCode(p, resource) = "ok"
    BY AdmissionOk
  <2>2. \A f \in ToSet(q.filters) : f.op = "in" => Len(f.value.items) <= Limits.inValues
    <3>1. \A f \in ToSet(p.filters) : f.op = "in" => Len(f.value.items) <= Limits.inValues
      BY <2>1, LimitsOk
    <3>. QED  BY <1>3, <1>4, <3>1
  <2>. QED  BY <1>1, <1>2, <1>8, <1>9, <2>1, <2>2, LimitsOk
<1>12. MembersCode(q, resource, P) = "ok"
  <2>1. MembersCode(p, resource, P) = "ok"
    BY AdmissionOk
  <2>2. \A i \in DOMAIN q.filters : FilterUse(resource, q.filters[i], P) = "ok"
    <3>1. \A i \in 1..n : FilterUse(resource, p.filters[i], P) = "ok"
      BY <1>2, <2>1, MembersOk
    <3>. QED  BY <1>2, <1>3, <3>1, FilterUseOk
  <2>3. MetricsCode(q, resource, P) = "ok"
    BY <1>1, <2>1, MembersOk DEF MetricsCode
  <2>4. FanOutAccepted(q, resource)
    <3>1. FanOutAccepted(p, resource)
      BY <2>1, MembersOk
    <3>. QED  BY <1>1, <1>7, <3>1, Zenon DEF FanOutAccepted
  <2>5. \A i \in DOMAIN q.order : OrderUse(q, resource, q.order[i], P) = "ok"
    <3>1. \A i \in DOMAIN p.order : OrderUse(p, resource, p.order[i], P) = "ok"
      BY <2>1, MembersOk
    <3>. QED  BY <1>1, <3>1, OrderUseOk
  <2>. QED  BY <1>1, <2>1, <2>2, <2>3, <2>4, <2>5, MembersOk
<1>. QED  BY <1>10, <1>11, <1>12, AdmissionOk

\* The default limit is a number of rows.
LEMMA Limited ==
  ASSUME NEW plan, IsPlan(plan), Parses(plan)
  PROVE  LET l == WithLimit(plan) IN
         /\ IsPlan(l) /\ Parses(l) /\ l.limit \in Int /\ l.limit >= 1 /\ WithLimit(l) = l
         /\ l.resource = plan.resource
<1>. DEFINE limit == IF plan.limit = None THEN DefaultLimit ELSE plan.limit
            l == WithLimit(plan)
<1>1. limit \in Int /\ limit >= 1 /\ limit # None
  BY LimitAssumption DEF DefaultLimit, Parses, IsPlan
<1>2. l = [resource |-> plan.resource, intent |-> plan.intent, select |-> plan.select,
           filters |-> plan.filters, group |-> plan.group, metrics |-> plan.metrics,
           order |-> plan.order, limit |-> limit]
  BY DEF IsPlan, WithLimit
<1>. HIDE DEF l, limit
<1>3. IsPlan(l) /\ Parses(l)
  BY <1>1, <1>2 DEF IsPlan, Parses
<1>4. WithLimit(l) = l
  BY <1>1, <1>2 DEF WithLimit
<1>. QED  BY <1>1, <1>2, <1>3, <1>4 DEF l

\* Whatever passes validation parses, asks for one row to MAX_ROWS, and passes
\* validation again unchanged under the same rights.
\* (validation.py: a preview, a suggestion or a saved plan that is sent back is
\* normalised to itself.)
THEOREM ValidationIsIdempotent ==
  ASSUME NEW plan, IsPlan(plan), Parses(plan), NEW resource, EnumsHold(resource), NEW P,
         ValidateForResource(plan, resource, P).code = "ok"
  PROVE  LET q == ValidateForResource(plan, resource, P).plan IN
         /\ IsPlan(q) /\ Parses(q) /\ q.limit \in 1..Limits.rows /\ q.resource = plan.resource
         /\ AdmissionCode(q, resource, P) = "ok"
         /\ ValidateForResource(q, resource, P) = [code |-> "ok", plan |-> q]
<1>. DEFINE l == WithLimit(plan)
            q == NormalizeFilters(l, resource)
<1>1. /\ IsPlan(l) /\ Parses(l) /\ l.limit \in Int /\ l.limit >= 1 /\ WithLimit(l) = l
      /\ l.resource = plan.resource
  BY Limited
<1>2. AdmissionCode(l, resource, P) = "ok" /\ NoDuplicates(q)
      /\ ValidateForResource(plan, resource, P) = [code |-> "ok", plan |-> q]
  BY DEF ValidateForResource
<1>. HIDE DEF l
<1>3. /\ q = WithFilters(l, q.filters) /\ SameFilters(l.filters, q.filters)
      /\ IsPlan(q) /\ Parses(q) /\ FiltersAccepted(q, resource)
      /\ NormalizeFilters(q, resource) = q
  BY <1>1, <1>2, NormalPlan
<1>. HIDE DEF q
<1>4. AdmissionCode(q, resource, P) = "ok"
  BY <1>1, <1>2, <1>3, SameAdmission
<1>5. q.limit = l.limit /\ q.resource = l.resource
  BY <1>3 DEF WithFilters
<1>6. q.limit \in 1..Limits.rows
  BY <1>1, <1>2, <1>5, AdmissionOk, LimitsOk, LimitAssumption
<1>7. WithLimit(q) = q
  BY <1>1, <1>3, <1>5, Limited, LimitAssumption DEF WithLimit, IsPlan
<1>8. ValidateForResource(q, resource, P) = [code |-> "ok", plan |-> q]
  BY <1>2, <1>3, <1>4, <1>7 DEF ValidateForResource
<1>. QED  BY <1>1, <1>2, <1>3, <1>4, <1>5, <1>6, <1>8

-----------------------------------------------------------------------------
(* Rights *)

\* What registration makes certain of the names of a resource's members.
MembersNamedOnce(resource) ==
  /\ Distinct([i \in DOMAIN resource.fields |-> resource.fields[i].name])
  /\ Distinct([i \in DOMAIN resource.metrics |-> resource.metrics[i].name])

\* Every field and metric an admitted plan names, wherever it names it, is one the
\* caller may see.  (validation.py checks each clause on its own.)
THEOREM AdmittedMembersAreVisible ==
  ASSUME NEW plan, IsPlan(plan), NEW resource, MembersNamedOnce(resource), NEW P,
         AdmissionCode(plan, resource, P) = "ok"
  PROVE  /\ \A f \in UsedFields(plan, resource) : FieldCatalogVisible(f, P)
         /\ \A k \in UsedMetrics(plan, resource) : PermissionSetAllows(P, k.perm)
<1>1. MembersCode(plan, resource, P) = "ok"
  BY AdmissionOk
<1>2. ASSUME NEW name \in FieldReferences(plan)
      PROVE  \E usage : FieldUse(resource, name, usage, P) = "ok"
  <2>1. CASE \E i \in DOMAIN plan.select : name = plan.select[i]
    BY <1>1, <2>1, MembersOk
  <2>2. CASE \E i \in DOMAIN plan.filters : name = plan.filters[i].field
    BY <1>1, <2>2, MembersOk, FilterUseOk
  <2>3. CASE \E i \in DOMAIN plan.group : name = plan.group[i].field
    BY <1>1, <2>3, MembersOk, GroupUseOk
  <2>4. CASE \E i \in DOMAIN plan.order : name = plan.order[i].field /\ name # None
    BY <1>1, <2>4, MembersOk, OrderUseOk
  <2>. QED  BY <2>1, <2>2, <2>3, <2>4 DEF FieldReferences, ToSet
<1>3. ASSUME NEW f \in UsedFields(plan, resource)  PROVE FieldCatalogVisible(f, P)
  <2>1. PICK i \in DOMAIN resource.fields : f = resource.fields[i]
    BY DEF UsedFields, ToSet
  <2>2. Named(resource.fields, f.name) = f
    BY <2>1, NamedUnique DEF MembersNamedOnce
  <2>3. PICK usage : FieldUse(resource, f.name, usage, P) = "ok"
    BY <1>2 DEF UsedFields
  <2>. QED  BY <2>2, <2>3, FieldUseOk
<1>4. ASSUME NEW k \in UsedMetrics(plan, resource)  PROVE PermissionSetAllows(P, k.perm)
  <2>1. PICK i \in DOMAIN resource.metrics : k = resource.metrics[i]
    BY DEF UsedMetrics, ToSet
  <2>2. Named(resource.metrics, k.name) = k
    BY <2>1, NamedUnique DEF MembersNamedOnce
  <2>3. PICK j \in DOMAIN plan.metrics : k.name = plan.metrics[j]
    BY DEF UsedMetrics, ToSet
  <2>4. MetricUse(resource, k.name, P) = "ok"
    BY <1>1, <2>3, MembersOk, MetricsOk
  <2>. QED  BY <2>2, <2>4, MetricUseOk
<1>. QED  BY <1>3, <1>4

\* The first failure is one of the failures there can be.
LEMMA FailureAmong ==
  ASSUME NEW codes, DOMAIN codes \subseteq Nat, NEW S,
         \A i \in DOMAIN codes : codes[i] \in S \cup {"ok"}
  PROVE  FirstFailure(codes) \in S \cup {"ok"}
BY SomeFailure

Denied == {"ok", "PermissionDenied"}

\* When each of two checks is "ok" or a denial, so is the first failure.
LEMMA DeniedOfTwo ==
  ASSUME NEW a \in Denied, NEW b \in Denied
  PROVE  FirstFailure(<<a, b>>) \in Denied
<1>1. DOMAIN <<a, b>> = 1..2 /\ \A i \in 1..2 : <<a, b>>[i] \in {"PermissionDenied"} \cup {"ok"}
  BY DEF Denied
<1>2. DOMAIN <<a, b>> \subseteq Nat
  BY <1>1
<1>. QED  BY <1>1, <1>2, FailureAmong DEF Denied

\* Four checks.
LEMMA DeniedOfFour ==
  ASSUME NEW a \in Denied, NEW b \in Denied, NEW c \in Denied, NEW d \in Denied
  PROVE  FirstFailure(<<a, b, c, d>>) \in Denied
<1>. DEFINE codes == <<a, b, c, d>>
<1>1. DOMAIN codes = 1..4 /\ \A i \in 1..4 : codes[i] \in {"PermissionDenied"} \cup {"ok"}
  BY DEF Denied
<1>2. DOMAIN codes \subseteq Nat
  BY <1>1
<1>. HIDE DEF codes
<1>. QED  BY <1>1, <1>2, FailureAmong DEF Denied, codes

\* Six checks.
LEMMA DeniedOfSix ==
  ASSUME NEW a \in Denied, NEW b \in Denied, NEW c \in Denied, NEW d \in Denied,
         NEW e \in Denied, NEW f \in Denied
  PROVE  FirstFailure(<<a, b, c, d, e, f>>) \in Denied
<1>. DEFINE codes == <<a, b, c, d, e, f>>
<1>1. DOMAIN codes = 1..6 /\ \A i \in 1..6 : codes[i] \in {"PermissionDenied"} \cup {"ok"}
  BY DEF Denied
<1>2. DOMAIN codes \subseteq Nat
  BY <1>1
<1>. HIDE DEF codes
<1>. QED  BY <1>1, <1>2, FailureAmong DEF Denied, codes

\* The same of a list of checks.
LEMMA DeniedOfList ==
  ASSUME NEW codes, DOMAIN codes \subseteq Nat, \A i \in DOMAIN codes : codes[i] \in Denied
  PROVE  FirstFailure(codes) \in Denied
<1>1. \A i \in DOMAIN codes : codes[i] \in {"PermissionDenied"} \cup {"ok"}
  BY DEF Denied
<1>. QED  BY <1>1, FailureAmong DEF Denied

\* A field that more rights would allow is denied, if anything.
LEMMA FieldDenied ==
  ASSUME NEW resource, NEW name, NEW usage, NEW Q, NEW P \in SUBSET Q,
         FieldUse(resource, name, usage, Q) = "ok"
  PROVE  FieldUse(resource, name, usage, P) \in Denied
<1>. DEFINE f == Named(resource.fields, name)
            joins == Cardinality(f.edges) <= Limits.joins
            only == f.filterOnly => usage = "filter"
            sensitive == f.sensitive => f.perm # None /\ PermissionSetAllows(P, f.perm)
            allowed == PermissionSetAllows(P, f.perm)
            visible == f.llmVisible \/ f.sensitive
            shown == usage \in ResultUsages => f.resultVisible
<1>1. name \in Names(resource.fields) /\ joins /\ only
  BY FieldUseOk
<1>2. FieldUse(resource, name, usage, P) =
        FirstFailure(<<Check(joins, "BudgetExceeded"), Check(only, "PlanInvalid"),
                       Check(sensitive, "PermissionDenied"), Check(allowed, "PermissionDenied"),
                       Check(visible, "PermissionDenied"), Check(shown, "PermissionDenied")>>)
  BY <1>1 DEF FieldUse
<1>3. /\ Check(joins, "BudgetExceeded") \in Denied /\ Check(only, "PlanInvalid") \in Denied
      /\ Check(sensitive, "PermissionDenied") \in Denied
      /\ Check(allowed, "PermissionDenied") \in Denied
      /\ Check(visible, "PermissionDenied") \in Denied
      /\ Check(shown, "PermissionDenied") \in Denied
  <2>. HIDE DEF joins, only, sensitive, allowed, visible, shown
  <2>. QED  BY <1>1 DEF Check, Denied
<1>. HIDE DEF joins, only, sensitive, allowed, visible, shown
<1>. QED  BY <1>2, <1>3, DeniedOfSix

\* A metric that more rights admit is refused, if at all, as unavailable.
LEMMA MetricDenied ==
  ASSUME NEW resource, NEW name, NEW Q, NEW P \in SUBSET Q, MetricUse(resource, name, Q) = "ok"
  PROVE  MetricUse(resource, name, P) \in Denied
<1>. DEFINE metric == Named(resource.metrics, name)
            deep == metric.depth <= Limits.joins
            allowed == PermissionSetAllows(P, metric.perm)
<1>1. name \in Names(resource.metrics) /\ deep
  BY MetricUseOk
<1>2. MetricUse(resource, name, P) =
        FirstFailure(<<Check(deep, "PlanInvalid"), Check(allowed, "PermissionDenied")>>)
  BY <1>1 DEF MetricUse
<1>. HIDE DEF deep, allowed
<1>3. Check(deep, "PlanInvalid") \in Denied /\ Check(allowed, "PermissionDenied") \in Denied
  BY <1>1 DEF Check, Denied
<1>. QED  BY <1>2, <1>3, DeniedOfTwo

\* Members that more rights admit are refused, if at all, as unavailable.
LEMMA MembersDenied ==
  ASSUME NEW plan, IsPlan(plan), NEW resource, NEW Q, NEW P \in SUBSET Q,
         MembersCode(plan, resource, Q) = "ok"
  PROVE  MembersCode(plan, resource, P) \in Denied
<1>1. /\ DOMAIN plan.select \subseteq Nat /\ DOMAIN plan.filters \subseteq Nat
      /\ DOMAIN plan.group \subseteq Nat /\ DOMAIN plan.metrics \subseteq Nat
      /\ DOMAIN plan.order \subseteq Nat
  <2>1. ASSUME NEW s, IsList(s)  PROVE DOMAIN s \subseteq Nat
    BY <2>1 DEF IsList
  <2>. QED  BY <2>1 DEF IsPlan
<1>2. \A i \in DOMAIN plan.select : FieldUse(resource, plan.select[i], "select", P) \in Denied
  BY MembersOk, FieldDenied
<1>3. \A i \in DOMAIN plan.filters : FilterUse(resource, plan.filters[i], P) \in Denied
  <2>1. ASSUME NEW i \in DOMAIN plan.filters
        PROVE  FilterUse(resource, plan.filters[i], P) \in Denied
    <3>1. /\ FieldUse(resource, plan.filters[i].field, "filter", Q) = "ok"
          /\ plan.filters[i].op
               \in OperatorsOf(Named(resource.fields, plan.filters[i].field).type)
      BY MembersOk, FilterUseOk
    <3>2. FieldUse(resource, plan.filters[i].field, "filter", P) \in Denied
      BY <3>1, FieldDenied
    <3>. QED  BY <3>1, <3>2 DEF FilterUse, Check, Denied
  <2>. QED  BY <2>1
<1>4. \A i \in DOMAIN plan.group : GroupUse(resource, plan.group[i], P) \in Denied
  <2>1. ASSUME NEW i \in DOMAIN plan.group
        PROVE  GroupUse(resource, plan.group[i], P) \in Denied
    <3>1. /\ FieldUse(resource, plan.group[i].field, "group_by", Q) = "ok"
          /\ plan.group[i].trunc # None =>
               Named(resource.fields, plan.group[i].field).type \in DateTypes
      BY MembersOk, GroupUseOk
    <3>2. FieldUse(resource, plan.group[i].field, "group_by", P) \in Denied
      BY <3>1, FieldDenied
    <3>. QED  BY <3>1, <3>2 DEF GroupUse, Check, Denied
  <2>. QED  BY <2>1
<1>5. MetricsCode(plan, resource, P) \in Denied
  <2>. DEFINE codes == [i \in DOMAIN plan.metrics |->
                          IF \E j \in 1..i - 1 : plan.metrics[j] = plan.metrics[i]
                          THEN "PlanInvalid" ELSE MetricUse(resource, plan.metrics[i], P)]
  <2>1. MetricsCode(plan, resource, Q) = "ok"
    BY MembersOk
  <2>2. \A i \in DOMAIN plan.metrics : codes[i] \in Denied
    BY <2>1, MetricsOk, MetricDenied
  <2>. QED  BY <1>1, <2>2, DeniedOfList DEF MetricsCode
<1>6. Check(FanOutAccepted(plan, resource), "PlanInvalid") \in Denied
  BY MembersOk DEF Check, Denied
<1>7. \A i \in DOMAIN plan.order : OrderUse(plan, resource, plan.order[i], P) \in Denied
  <2>1. ASSUME NEW i \in DOMAIN plan.order
        PROVE  OrderUse(plan, resource, plan.order[i], P) \in Denied
    <3>. DEFINE term == plan.order[i]
                placed == \/ term.field \in ToSet(plan.select)
                          \/ \E g \in ToSet(plan.group) : g.field = term.field
    <3>1. OrderUse(plan, resource, term, Q) = "ok"
      BY MembersOk
    <3>2. CASE term.field = None
      BY <3>1, <3>2 DEF OrderUse, Denied
    <3>3. CASE term.field # None
      <4>1. FieldUse(resource, term.field, "order_by", P) \in Denied
        BY <3>1, <3>3, OrderUseOk, FieldDenied
      <4>2. Check(placed, "PlanInvalid") \in Denied
        BY <3>1, <3>3, OrderUseOk DEF Check, Denied
      <4>3. OrderUse(plan, resource, term, P) =
              FirstFailure(<<FieldUse(resource, term.field, "order_by", P),
                             Check(placed, "PlanInvalid")>>)
        BY <3>3 DEF OrderUse
      <4>. HIDE DEF term, placed
      <4>. QED  BY <4>1, <4>2, <4>3, DeniedOfTwo DEF term
    <3>. QED  BY <3>2, <3>3
  <2>. QED  BY <2>1
<1>. DEFINE selects == [i \in DOMAIN plan.select |->
                          FieldUse(resource, plan.select[i], "select", P)]
            filters == [i \in DOMAIN plan.filters |-> FilterUse(resource, plan.filters[i], P)]
            groups == [i \in DOMAIN plan.group |-> GroupUse(resource, plan.group[i], P)]
            orders == [i \in DOMAIN plan.order |->
                         OrderUse(plan, resource, plan.order[i], P)]
<1>8. /\ FirstFailure(selects) \in Denied /\ FirstFailure(filters) \in Denied
      /\ FirstFailure(groups) \in Denied /\ FirstFailure(orders) \in Denied
  BY <1>1, <1>2, <1>3, <1>4, <1>7, DeniedOfList
<1>9. MembersCode(plan, resource, P) =
        FirstFailure(<<FirstFailure(selects), FirstFailure(filters), FirstFailure(groups),
                       MetricsCode(plan, resource, P),
                       Check(FanOutAccepted(plan, resource), "PlanInvalid"),
                       FirstFailure(orders)>>)
  BY DEF MembersCode
<1>. HIDE DEF selects, filters, groups, orders
<1>. QED  BY <1>5, <1>6, <1>8, <1>9, DeniedOfSix

\* A plan that more rights would admit is refused, if at all, for want of a right:
\* the order of the checks never lets a missing right show as another code.
\* (validation.py, exceptions.py)
THEOREM OnlyDenied ==
  ASSUME NEW plan, IsPlan(plan), Parses(plan), NEW resource, NEW Q, NEW P \in SUBSET Q,
         ValidateForResource(plan, resource, Q).code = "ok"
  PROVE  ValidateForResource(plan, resource, P).code \in Denied
<1>. DEFINE l == WithLimit(plan)
            permitted == PermissionSetAllows(P, resource.perm)
            code == FirstFailure(<<Check(permitted, "PermissionDenied"),
                                   Check(ShapeAccepted(l), "PlanInvalid"),
                                   LimitsCode(l, resource), MembersCode(l, resource, P)>>)
<1>1. IsPlan(l)
  BY Limited
<1>2. AdmissionCode(l, resource, Q) = "ok" /\ NoDuplicates(NormalizeFilters(l, resource))
  BY DEF ValidateForResource
<1>. HIDE DEF l
<1>3. /\ ShapeAccepted(l) /\ LimitsCode(l, resource) = "ok"
      /\ MembersCode(l, resource, Q) = "ok" /\ FiltersAccepted(l, resource)
  BY <1>2, AdmissionOk
<1>4. MembersCode(l, resource, P) \in Denied
  BY <1>1, <1>3, MembersDenied
<1>5. /\ Check(permitted, "PermissionDenied") \in Denied
      /\ Check(ShapeAccepted(l), "PlanInvalid") \in Denied /\ LimitsCode(l, resource) \in Denied
  BY <1>3 DEF Check, Denied
<1>6. code \in Denied
  BY <1>4, <1>5, DeniedOfFour
<1>7. AdmissionCode(l, resource, P) = IF code # "ok" THEN code ELSE "ok"
  BY <1>3 DEF AdmissionCode, Check
<1>8. AdmissionCode(l, resource, P) \in Denied
  BY <1>6, <1>7 DEF Denied
<1>. QED  BY <1>2, <1>8 DEF ValidateForResource, l

-----------------------------------------------------------------------------
(* Sizes *)

\* The size of a plan is a number.
LEMMA BytesNat ==
  ASSUME NEW plan, IsPlan(plan)
  PROVE  Bytes(plan) \in Nat
<1>. DEFINE n == Len(plan.filters)
            scalars == [i \in 1..n |-> {i} \X (1..ScalarCount(plan.filters[i]))]
            sets == {scalars[i] : i \in 1..n}
<1>1. n \in Nat /\ DOMAIN plan.filters = 1..n /\ Len(plan.select) \in Nat
      /\ Len(plan.group) \in Nat /\ Len(plan.metrics) \in Nat /\ Len(plan.order) \in Nat
  BY DEF IsPlan, IsList
<1>2. ASSUME NEW i \in 1..n  PROVE IsFiniteSet(scalars[i])
  <2>1. ScalarCount(plan.filters[i]) \in Nat
    BY <1>1 DEF IsPlan, IsFilter, IsList, ScalarCount, ToSet
  <2>2. IsFiniteSet(1..ScalarCount(plan.filters[i]))
    BY <2>1, FS_Interval
  <2>3. IsFiniteSet({i})
    BY FS_Singleton
  <2>. QED  BY <2>2, <2>3, FS_Product
<1>3. IsFiniteSet(sets)
  <2>1. IsFiniteSet(1..n)
    <3>1. n \in Nat
      BY <1>1
    <3>. HIDE DEF n
    <3>. QED  BY <3>1, FS_Interval
  <2>2. DOMAIN scalars = 1..n /\ sets = {scalars[i] : i \in 1..n}
    OBVIOUS
  <2>. HIDE DEF scalars, sets
  <2>3. scalars \in Surjection(1..n, sets)
    <3>1. scalars = [i \in 1..n |-> scalars[i]]
      BY DEF scalars
    <3>2. scalars \in [1..n -> sets]
      BY <2>2, <3>1
    <3>. QED  BY <2>2, <3>2 DEF Surjection
  <2>. QED  BY <2>1, <2>3, FS_Surjection
<1>4. IsFiniteSet(UNION sets)
  <2>1. \A s \in sets : IsFiniteSet(s)
    BY <1>2
  <2>. HIDE DEF sets
  <2>. QED  BY <1>3, <2>1, FS_UNION
<1>5. UNION sets = UNION {{i} \X (1..ScalarCount(plan.filters[i])) : i \in DOMAIN plan.filters}
  BY <1>1
<1>6. FilterScalars(plan) \in Nat
  BY <1>4, <1>5, FS_CardinalityType DEF FilterScalars
<1>. DEFINE a == Len(plan.select)
            b == FilterScalars(plan)
            c == Len(plan.group)
            d == Len(plan.metrics)
            e == Len(plan.order)
            l == IF plan.limit = None THEN 2 ELSE 3
<1>7. Bytes(plan) = a + 2 * n + b + c + d + 2 * e + l
  BY DEF Bytes
<1>8. a \in Nat /\ b \in Nat /\ c \in Nat /\ d \in Nat /\ e \in Nat /\ l \in Nat /\ n \in Nat
  BY <1>1, <1>6
<1>. HIDE DEF n, a, b, c, d, e, l
<1>. QED  BY <1>7, <1>8

\* An accepted plan is small enough, parses and passes the rules of its resource.
LEMMA Validated ==
  ASSUME NEW plan, IsPlan(plan), NEW resources, NEW P
  PROVE  /\ Validate(plan, resources, P).code = "ok" =>
              /\ Parses(plan) /\ plan.resource \in Names(resources)
              /\ Validate(plan, resources, P)
                   = ValidateForResource(plan, Named(resources, plan.resource), P)
         /\ Bytes(plan) <= Limits.bytes /\ Parses(plan) /\ plan.resource \in Names(resources) =>
              Validate(plan, resources, P)
                = ValidateForResource(plan, Named(resources, plan.resource), P)
<1>1. Bytes(plan) \in Nat /\ Limits.bytes \in Nat
  BY BytesNat, LimitAssumption
<1>2. CASE Bytes(plan) > Limits.bytes
  BY <1>1, <1>2 DEF Validate
<1>3. CASE Bytes(plan) <= Limits.bytes
  <2>1. ~(Bytes(plan) > Limits.bytes)
    BY <1>1, <1>3
  <2>. QED  BY <1>3, <2>1 DEF Validate
<1>. QED  BY <1>1, <1>2, <1>3

\* Validation changes no name a plan refers to.
LEMMA ValidatedReferences ==
  ASSUME NEW plan, IsPlan(plan), Parses(plan), NEW resource, EnumsHold(resource), NEW P,
         ValidateForResource(plan, resource, P).code = "ok"
  PROVE  FieldReferences(ValidateForResource(plan, resource, P).plan) = FieldReferences(plan)
<1>. DEFINE l == WithLimit(plan)
            q == NormalizeFilters(l, resource)
            n == Len(plan.filters)
<1>1. AdmissionCode(l, resource, P) = "ok"
      /\ ValidateForResource(plan, resource, P) = [code |-> "ok", plan |-> q]
  BY DEF ValidateForResource
<1>2. IsPlan(l) /\ Parses(l)
  BY Limited
<1>3. /\ l.select = plan.select /\ l.filters = plan.filters /\ l.group = plan.group
      /\ l.order = plan.order
  BY DEF WithLimit, IsPlan
<1>. HIDE DEF l
<1>4. q = WithFilters(l, q.filters) /\ SameFilters(l.filters, q.filters)
  BY <1>1, <1>2, NormalPlan
<1>. HIDE DEF q
<1>5. q.select = l.select /\ q.group = l.group /\ q.order = l.order
  BY <1>4 DEF WithFilters
<1>6. {f.field : f \in ToSet(q.filters)} = {f.field : f \in ToSet(l.filters)}
  <2>1. /\ DOMAIN q.filters = DOMAIN l.filters
        /\ \A i \in DOMAIN l.filters : q.filters[i].field = l.filters[i].field
    BY <1>4 DEF SameFilters
  <2>. QED  BY <2>1 DEF ToSet
<1>. QED  BY <1>1, <1>3, <1>5, <1>6 DEF FieldReferences
=============================================================================
