--------------------------- MODULE ResultWindowProofs ---------------------------
(***************************************************************************)
(* For any declarations, plans, clocks and tables: the rows a client gets. *)
(*                                                                         *)
(* The invariant says where what a query holds comes from: its rows are an *)
(* outcome of its compiled plan over its snapshot, and so were those of    *)
(* the run before it.  The rest is about outcomes: what a page tells of    *)
(* the rows there are, that an ordering tells them apart, what the cells   *)
(* of a row hold, and which rows a metric ranges over.                     *)
(***************************************************************************)
EXTENDS ResultWindow, PlanRulesProofs, RelativeDatesProofs

-----------------------------------------------------------------------------
(* Pages *)

\* The image of a finite set is finite.
LEMMA ImageFinite ==
  ASSUME NEW S, IsFiniteSet(S), NEW f
  PROVE  IsFiniteSet({f[x] : x \in S})
<1>. DEFINE g == [x \in S |-> f[x]]
            T == {f[x] : x \in S}
<1>1. g \in Surjection(S, T)
  BY DEF Surjection
<1>. HIDE DEF g, T
<1>2. IsFiniteSet(T)
  BY <1>1, FS_Surjection
<1>. QED  BY <1>2 DEF T

\* What FirstRows builds up, the pages of n rows or fewer.
PagesUpTo(rows, ordering, key, k, f) ==
  f = [n \in 0..k |-> IF n = 0 THEN {<<>>}
                      ELSE UNION {Longer(page, rows, ordering, key) : page \in f[n - 1]}]

\* The recursive function of FirstRows exists.
LEMMA PagesExist ==
  ASSUME NEW rows, NEW ordering, NEW key, NEW N \in Nat
  PROVE  \E f : PagesUpTo(rows, ordering, key, N, f)
<1>. DEFINE next(pages) == UNION {Longer(page, rows, ordering, key) : page \in pages}
            T == {k \in Nat : ~\E f : PagesUpTo(rows, ordering, key, k, f)}
<1>1. SUFFICES ASSUME T # {} PROVE FALSE
  OBVIOUS
<1>2. PICK k \in T : \A j \in T : k <= j
  BY <1>1, LeastExists
<1>3. k \in Nat /\ ~\E f : PagesUpTo(rows, ordering, key, k, f)
  OBVIOUS
<1>4. CASE k = 0
  <2>1. PagesUpTo(rows, ordering, key, k, [n \in 0..0 |-> {<<>>}])
    BY <1>4 DEF PagesUpTo
  <2>. QED  BY <1>3, <2>1
<1>5. CASE k # 0
  <2>1. PICK m \in Nat : k = m + 1 /\ k - 1 = m /\ ~(k <= m)
    BY <1>3, <1>5
  <2>2. m \notin T
    BY <1>2, <2>1
  <2>3. PICK f : PagesUpTo(rows, ordering, key, m, f)
    BY <2>2
  <2>. DEFINE g == [n \in 0..k |-> IF n = k THEN next(f[m]) ELSE f[n]]
  <2>. HIDE DEF next, T
  <2>4. ASSUME NEW n \in 0..k
        PROVE  g[n] = IF n = 0 THEN {<<>>} ELSE next(g[n - 1])
    <3>1. CASE n = k
      <4>0. m \in 0..k /\ m # k
        BY <1>3, <2>1
      <4>1. g[n] = next(f[m]) /\ g[m] = f[m]
        BY <3>1, <4>0
      <4>. QED  BY <1>5, <2>1, <3>1, <4>1
    <3>2. CASE n # k
      <4>1. n \in 0..m /\ g[n] = f[n]
        BY <2>1, <3>2
      <4>2. f[n] = IF n = 0 THEN {<<>>} ELSE next(f[n - 1])
        BY <2>3, <4>1 DEF PagesUpTo, next
      <4>3. n # 0 => g[n - 1] = f[n - 1]
        BY <2>1, <4>1
      <4>. QED  BY <4>1, <4>2, <4>3
    <3>. QED  BY <3>1, <3>2
  <2>5. PagesUpTo(rows, ordering, key, k, g)
    <3>1. g = [n \in 0..k |-> g[n]]
      OBVIOUS
    <3>2. g = [n \in 0..k |-> IF n = 0 THEN {<<>>} ELSE next(g[n - 1])]
      <4>. HIDE DEF g
      <4>. QED  BY <2>4, <3>1
    <3>. HIDE DEF g
    <3>. QED  BY <3>2 DEF PagesUpTo, next
  <2>. QED  BY <1>3, <2>5
<1>. QED  BY <1>4, <1>5

\* A page is lengthened by a row that is left and that no row left precedes, unless
\* none is left.
LEMMA LongerPage ==
  ASSUME NEW rows, NEW ordering, NEW key, NEW page \in Seq(rows),
         NEW longer \in Longer(page, rows, ordering, key)
  PROVE  \/ longer = page /\ ToSet(page) = rows
         \/ \E a \in rows \ ToSet(page) :
              /\ longer = Append(page, a)
              /\ \A b \in rows \ ToSet(page) : ~Before(key[b], key[a], ordering)
<1>1. ToSet(page) \in SUBSET rows
  BY DEF ToSet
<1>. QED  BY <1>1 DEF Longer

\* The rows a page of at most n rows holds: each once, and all unless it is full.
IsPage(page, rows, n) ==
  /\ page \in Seq(rows) /\ Len(page) <= n /\ Distinct(page)
  /\ Len(page) = n \/ ToSet(page) = rows

\* A page that is lengthened is a page of one row more.
LEMMA PageGrows ==
  ASSUME NEW rows, NEW ordering, NEW key, NEW n \in Nat, NEW page, IsPage(page, rows, n),
         NEW longer \in Longer(page, rows, ordering, key)
  PROVE  IsPage(longer, rows, n + 1)
<1>0. page \in Seq(rows) /\ Len(page) \in Nat /\ Len(page) <= n /\ Distinct(page)
  BY DEF IsPage
<1>1. CASE longer = page /\ ToSet(page) = rows
  BY <1>0, <1>1 DEF IsPage
<1>2. CASE \E a \in rows \ ToSet(page) : longer = Append(page, a)
  <2>1. PICK a \in rows \ ToSet(page) : longer = Append(page, a)
    BY <1>2
  <2>2. Len(page) = n
    BY <1>0, <2>1 DEF IsPage
  <2>3. longer \in Seq(rows) /\ Len(longer) = n + 1
    BY <1>0, <2>1, <2>2
  <2>4. \A i \in DOMAIN longer : longer[i] = IF i = n + 1 THEN a ELSE page[i]
    BY <1>0, <2>1, <2>2
  <2>5. \A i \in DOMAIN longer : i # n + 1 => i \in DOMAIN page /\ page[i] # a
    BY <1>0, <2>1, <2>2 DEF ToSet
  <2>6. Distinct(longer)
    BY <1>0, <2>4, <2>5 DEF Distinct
  <2>. QED  BY <2>3, <2>6 DEF IsPage
<1>. QED  BY <1>0, <1>1, <1>2, LongerPage

\* FirstRows returns pages.
LEMMA FirstRowsArePages ==
  ASSUME NEW rows, NEW ordering, NEW key, NEW k \in Nat,
         NEW page \in FirstRows(rows, k, ordering, key)
  PROVE  IsPage(page, rows, k)
<1>. DEFINE pages == CHOOSE f : PagesUpTo(rows, ordering, key, k, f)
            T == {n \in 0..k : \E s \in pages[n] : ~IsPage(s, rows, n)}
<1>1. PagesUpTo(rows, ordering, key, k, pages)
  BY PagesExist
<1>2. FirstRows(rows, k, ordering, key) = pages[k]
  BY DEF FirstRows, PagesUpTo
<1>. HIDE DEF pages
<1>3. T = {}
  <2>1. SUFFICES ASSUME T # {} PROVE FALSE
    OBVIOUS
  <2>2. T \in SUBSET Nat
    OBVIOUS
  <2>3. PICK n \in T : \A j \in T : n <= j
    BY <2>1, <2>2, LeastExists
  <2>4. PICK s \in pages[n] : ~IsPage(s, rows, n)
    BY <2>3
  <2>5. n # 0
    <3>1. SUFFICES ASSUME n = 0 PROVE FALSE
      OBVIOUS
    <3>2. s = <<>>
      BY <1>1, <2>4, <3>1 DEF PagesUpTo
    <3>3. IsPage(<<>>, rows, 0)
      BY DEF IsPage, Distinct
    <3>. QED  BY <2>4, <3>1, <3>2, <3>3
  <2>6. PICK m \in 0..k : n - 1 = m /\ n = m + 1 /\ ~(n <= m)
    BY <2>3, <2>5
  <2>7. PICK page_1 \in pages[m] : s \in Longer(page_1, rows, ordering, key)
    BY <1>1, <2>4, <2>5, <2>6 DEF PagesUpTo
  <2>8. IsPage(page_1, rows, m)
    BY <2>3, <2>6, <2>7
  <2>. HIDE DEF T
  <2>. QED  BY <2>4, <2>6, <2>7, <2>8, PageGrows
<1>4. k \in 0..k
  OBVIOUS
<1>. QED  BY <1>2, <1>3, <1>4

-----------------------------------------------------------------------------
(* Ties *)

\* Pages alike: as long, and class by class the same.
Alike(p, q, class) ==
  Len(p) = Len(q) /\ \A i \in 1..Len(p) : class[p[i]] = class[q[i]]

\* What a page has left of a class, a page alike has left of it.
LEMMA LeftOfClass ==
  ASSUME NEW rows, IsFiniteSet(rows), NEW class, NEW p \in Seq(rows), NEW q \in Seq(rows),
         Distinct(p), Distinct(q), Alike(p, q, class), NEW a \in rows \ ToSet(p)
  PROVE  \E x \in rows \ ToSet(q) : class[x] = class[a]
<1>. DEFINE C == {x \in rows : class[x] = class[a]}
            I == {i \in 1..Len(p) : class[p[i]] = class[a]}
            place(x) == CHOOSE i \in 1..Len(q) : q[i] = x
            f == [i \in I |-> p[i]]
            g == [x \in C |-> place(x)]
<1>1. SUFFICES ASSUME C \subseteq ToSet(q) PROVE FALSE
  OBVIOUS
<1>2. Len(p) \in Nat /\ Len(q) = Len(p) /\ DOMAIN p = 1..Len(p) /\ DOMAIN q = 1..Len(p)
  BY DEF Alike
<1>3. IsFiniteSet(C) /\ IsFiniteSet(C \ {a}) /\ a \in C
  BY FS_Subset
<1>4. ASSUME NEW x \in C  PROVE place(x) \in I /\ q[place(x)] = x
  <2>1. \E i \in 1..Len(q) : q[i] = x
    BY <1>1, <1>2 DEF ToSet
  <2>2. place(x) \in 1..Len(q) /\ q[place(x)] = x
    BY <2>1
  <2>. QED  BY <1>2, <2>2 DEF Alike
<1>5. g \in Injection(C, I)
  <2>. HIDE DEF C, I, place
  <2>. QED  BY <1>4 DEF Injection, IsInjective
<1>6. f \in Injection(I, C \ {a})
  <2>1. \A i \in I : p[i] \in C \ {a}
    BY <1>2 DEF ToSet
  <2>2. \A i, j \in I : p[i] = p[j] => i = j
    BY <1>2 DEF Distinct
  <2>. HIDE DEF C, I
  <2>. QED  BY <2>1, <2>2 DEF Injection, IsInjective
<1>. HIDE DEF C, I, f, g
<1>7. IsFiniteSet(I) /\ Cardinality(I) <= Cardinality(C \ {a})
  BY <1>3, <1>6, FS_Injection
<1>8. Cardinality(C) <= Cardinality(I)
  BY <1>5, <1>7, FS_Injection
<1>9. Cardinality(C \ {a}) = Cardinality(C) - 1
  BY <1>3, FS_RemoveElement
<1>10. Cardinality(C) \in Nat /\ Cardinality(I) \in Nat
  BY <1>3, <1>7, FS_CardinalityType
<1>. QED  BY <1>7, <1>8, <1>9, <1>10

\* The rows of one class have one sort key, and of two classes one comes first.
Sorted(rows, ordering, key, class) ==
  /\ \A a, b \in rows : class[a] = class[b] => key[a] = key[b]
  /\ \A a, b \in rows : class[a] # class[b] =>
       Before(key[a], key[b], ordering) \/ Before(key[b], key[a], ordering)

\* Pages alike are lengthened by rows of one class.
LEMMA LongerAlike ==
  ASSUME NEW rows, IsFiniteSet(rows), NEW ordering, NEW key, NEW class,
         Sorted(rows, ordering, key, class), NEW n \in Nat,
         NEW p, IsPage(p, rows, n), NEW q, IsPage(q, rows, n), Alike(p, q, class),
         NEW p_1 \in Longer(p, rows, ordering, key), NEW q_1 \in Longer(q, rows, ordering, key)
  PROVE  Alike(p_1, q_1, class)
<1>1. /\ p \in Seq(rows) /\ q \in Seq(rows) /\ Distinct(p) /\ Distinct(q)
      /\ Len(p) \in Nat /\ Len(q) = Len(p)
      /\ \A i \in 1..Len(p) : class[p[i]] = class[q[i]]
  BY DEF IsPage, Alike
<1>2. Alike(q, p, class)
  BY <1>1 DEF Alike
<1>3. CASE p_1 = p /\ ToSet(p) = rows
  <2>1. ToSet(q) = rows
    <3>1. SUFFICES ASSUME NEW a \in rows, a \notin ToSet(q) PROVE FALSE
      BY <1>1 DEF ToSet
    <3>. QED  BY <1>1, <1>2, <1>3, <3>1, LeftOfClass
  <2>2. q_1 = q
    BY <1>1, <2>1, LongerPage
  <2>. QED  BY <1>3, <2>2
<1>4. CASE q_1 = q /\ ToSet(q) = rows
  <2>1. ToSet(p) = rows
    <3>1. SUFFICES ASSUME NEW a \in rows, a \notin ToSet(p) PROVE FALSE
      BY <1>1 DEF ToSet
    <3>. QED  BY <1>1, <1>4, <3>1, LeftOfClass
  <2>2. p_1 = p
    BY <1>1, <2>1, LongerPage
  <2>. QED  BY <1>4, <2>2
<1>5. CASE /\ \E a \in rows \ ToSet(p) :
                /\ p_1 = Append(p, a)
                /\ \A b \in rows \ ToSet(p) : ~Before(key[b], key[a], ordering)
           /\ \E b \in rows \ ToSet(q) :
                /\ q_1 = Append(q, b)
                /\ \A a \in rows \ ToSet(q) : ~Before(key[a], key[b], ordering)
  <2>1. PICK a \in rows \ ToSet(p) :
               /\ p_1 = Append(p, a)
               /\ \A b \in rows \ ToSet(p) : ~Before(key[b], key[a], ordering)
    BY <1>5
  <2>2. PICK b \in rows \ ToSet(q) :
               /\ q_1 = Append(q, b)
               /\ \A x \in rows \ ToSet(q) : ~Before(key[x], key[b], ordering)
    BY <1>5
  <2>3. PICK x \in rows \ ToSet(q) : class[x] = class[a]
    BY <1>1, LeftOfClass
  <2>4. PICK y \in rows \ ToSet(p) : class[y] = class[b]
    BY <1>1, <1>2, LeftOfClass
  <2>5. key[x] = key[a] /\ key[y] = key[b]
    BY <2>3, <2>4 DEF Sorted
  <2>6. ~Before(key[a], key[b], ordering) /\ ~Before(key[b], key[a], ordering)
    BY <2>1, <2>2, <2>5
  <2>7. class[a] = class[b]
    BY <2>6 DEF Sorted
  <2>8. /\ Len(p_1) = Len(p) + 1 /\ Len(q_1) = Len(p) + 1
        /\ \A i \in 1..Len(p) : p_1[i] = p[i] /\ q_1[i] = q[i]
        /\ p_1[Len(p) + 1] = a /\ q_1[Len(p) + 1] = b
    BY <1>1, <2>1, <2>2
  <2>. QED  BY <1>1, <2>7, <2>8 DEF Alike
<1>. QED  BY <1>1, <1>3, <1>4, <1>5, LongerPage

\* However the database breaks ties, the first rows are alike.
LEMMA PagesAgree ==
  ASSUME NEW rows, IsFiniteSet(rows), NEW ordering, NEW key, NEW class,
         Sorted(rows, ordering, key, class), NEW k \in Nat,
         NEW p \in FirstRows(rows, k, ordering, key), NEW q \in FirstRows(rows, k, ordering, key)
  PROVE  Alike(p, q, class)
<1>. DEFINE pages == CHOOSE f : PagesUpTo(rows, ordering, key, k, f)
            Agree(n) == \A s, t \in pages[n] :
                          IsPage(s, rows, n) /\ IsPage(t, rows, n) /\ Alike(s, t, class)
            T == {n \in 0..k : ~Agree(n)}
<1>1. PagesUpTo(rows, ordering, key, k, pages)
  BY PagesExist
<1>2. FirstRows(rows, k, ordering, key) = pages[k]
  BY DEF FirstRows, PagesUpTo
<1>. HIDE DEF pages
<1>3. T = {}
  <2>1. SUFFICES ASSUME T # {} PROVE FALSE
    OBVIOUS
  <2>2. T \in SUBSET Nat
    OBVIOUS
  <2>3. PICK n \in T : \A j \in T : n <= j
    BY <2>1, <2>2, LeastExists
  <2>4. PICK s \in pages[n] : \E t \in pages[n] :
               ~(IsPage(s, rows, n) /\ IsPage(t, rows, n) /\ Alike(s, t, class))
    BY <2>3
  <2>5. PICK t \in pages[n] :
               ~(IsPage(s, rows, n) /\ IsPage(t, rows, n) /\ Alike(s, t, class))
    BY <2>4
  <2>6. n # 0
    <3>1. SUFFICES ASSUME n = 0 PROVE FALSE
      OBVIOUS
    <3>2. s = <<>> /\ t = <<>>
      BY <1>1, <2>4, <2>5, <3>1 DEF PagesUpTo
    <3>3. IsPage(<<>>, rows, 0) /\ Alike(<<>>, <<>>, class)
      BY DEF IsPage, Distinct, Alike
    <3>. QED  BY <2>5, <3>1, <3>2, <3>3
  <2>7. PICK m \in 0..k : n - 1 = m /\ n = m + 1 /\ ~(n <= m)
    BY <2>3, <2>6
  <2>8. PICK s_1 \in pages[m] : s \in Longer(s_1, rows, ordering, key)
    BY <1>1, <2>4, <2>6, <2>7 DEF PagesUpTo
  <2>9. PICK t_1 \in pages[m] : t \in Longer(t_1, rows, ordering, key)
    BY <1>1, <2>5, <2>6, <2>7 DEF PagesUpTo
  <2>10. Agree(m)
    BY <2>3, <2>7
  <2>11. IsPage(s_1, rows, m) /\ IsPage(t_1, rows, m) /\ Alike(s_1, t_1, class)
    BY <2>8, <2>9, <2>10
  <2>. HIDE DEF T, Agree
  <2>12. IsPage(s, rows, n) /\ IsPage(t, rows, n)
    BY <2>7, <2>8, <2>9, <2>11, PageGrows
  <2>13. Alike(s, t, class)
    BY <2>7, <2>8, <2>9, <2>11, LongerAlike
  <2>. QED  BY <2>5, <2>12, <2>13
<1>4. Agree(k)
  BY <1>3
<1>. QED  BY <1>2, <1>4

\* Two rows that some term of the ordering tells apart do not tie.
LEMMA TellsApart ==
  ASSUME NEW ordering, IsList(ordering), NEW a, NEW b, NEW j \in DOMAIN ordering,
         ~Tied(a[j], b[j], ordering[j].direction)
  PROVE  Before(a, b, ordering) \/ Before(b, a, ordering)
<1>. DEFINE T == {i \in DOMAIN ordering : ~Tied(a[i], b[i], ordering[i].direction)}
<1>1. DOMAIN ordering = 1..Len(ordering) /\ Len(ordering) \in Nat
  BY DEF IsList
<1>2. T \in SUBSET Nat /\ T # {}
  BY <1>1
<1>3. PICK i \in T : \A n \in T : i <= n
  BY <1>2, LeastExists
<1>4. \A n \in 1..i - 1 : n \in DOMAIN ordering /\ n \notin T
  BY <1>1, <1>3
<1>5. \A n \in 1..i - 1 :
        Tied(a[n], b[n], ordering[n].direction) /\ Tied(b[n], a[n], ordering[n].direction)
  BY <1>4 DEF Tied
<1>6. \/ Precedes(a[i], b[i], ordering[i].direction)
      \/ Precedes(b[i], a[i], ordering[i].direction)
  BY <1>3 DEF Tied
<1>. QED  BY <1>3, <1>5, <1>6 DEF Before

\* Two numbers, or a number and a null, are told apart in either direction.
LEMMA NumbersDiffer ==
  ASSUME NEW a \in {<<v, 1>> : v \in Int} \cup {None}, NEW b \in {<<v, 1>> : v \in Int} \cup {None},
         a # b, NEW direction
  PROVE  ~Tied(a, b, direction)
<1>1. CASE a = None \/ b = None
  BY <1>1 DEF Tied, Precedes
<1>2. CASE a # None /\ b # None
  <2>1. PICK v \in Int : a = <<v, 1>>
    BY <1>2
  <2>2. PICK w \in Int : b = <<w, 1>>
    BY <1>2
  <2>3. v # w /\ a[1] = v /\ a[2] = 1 /\ b[1] = w /\ b[2] = 1
    BY <2>1, <2>2
  <2>4. Less(a, b) \/ Less(b, a)
    BY <2>3 DEF Less
  <2>. QED  BY <1>2, <2>4 DEF Tied, Precedes
<1>. QED  BY <1>1, <1>2

-----------------------------------------------------------------------------
(* Rows of a query *)

\* The rows that joins can make of the tables.
RowsOf(db) == [root : db.roots, joins : Seq(db.children \cup {NoChild})]

\* Finitely many of them, as every stage of a query returns.
Tables(db) == {rows \in SUBSET RowsOf(db) : IsFiniteSet(rows)}

FiniteTables(db) == IsFiniteSet(db.roots) /\ IsFiniteSet(db.children)

\* A row with one more join.
Extended(row, c) == [row EXCEPT !.joins = Append(@, c)]

\* The rows of an inner join are those of the table with a child each.
LEMMA InnerJoinRows ==
  ASSUME NEW db, NEW rows, NEW x
  PROVE  x \in InnerJoin(db, rows) <=>
           \E row \in rows : \E c \in Children(db, row.root) : x = Extended(row, c)
<1>. DEFINE joined(row) == {Extended(row, c) : c \in Children(db, row.root)}
<1>1. InnerJoin(db, rows) = UNION {joined(row) : row \in rows}
  BY DEF InnerJoin, Extended
<1>2. ASSUME NEW row
      PROVE  x \in joined(row) <=> \E c \in Children(db, row.root) : x = Extended(row, c)
  OBVIOUS
<1>. HIDE DEF joined
<1>. QED  BY <1>1, <1>2

\* What a row with one more join is.
LEMMA ExtendedRow ==
  ASSUME NEW db, NEW row \in RowsOf(db), NEW c \in db.children \cup {NoChild}
  PROVE  /\ Extended(row, c) \in RowsOf(db)
         /\ Extended(row, c) = [root |-> row.root, joins |-> Append(row.joins, c)]
<1>1. /\ row = [root |-> row.root, joins |-> row.joins] /\ row.root \in db.roots
      /\ row.joins \in Seq(db.children \cup {NoChild})
  BY DEF RowsOf
<1>2. Append(row.joins, c) \in Seq(db.children \cup {NoChild})
  BY <1>1
<1>3. Extended(row, c) = [root |-> row.root, joins |-> Append(row.joins, c)]
  BY <1>1 DEF Extended
<1>. QED  BY <1>1, <1>2, <1>3 DEF RowsOf

\* An inner join of finitely many rows has finitely many.
LEMMA InnerJoinIsTable ==
  ASSUME NEW db, FiniteTables(db), NEW rows \in Tables(db)
  PROVE  InnerJoin(db, rows) \in Tables(db)
<1>. DEFINE pairs == rows \X db.children
            joined == [p \in pairs |-> Extended(p[1], p[2])]
            image == {joined[p] : p \in pairs}
<1>1. ASSUME NEW x \in InnerJoin(db, rows)  PROVE x \in image
  <2>1. PICK row \in rows : \E c \in Children(db, row.root) : x = Extended(row, c)
    BY InnerJoinRows
  <2>2. PICK c \in Children(db, row.root) : x = Extended(row, c)
    BY <2>1
  <2>3. <<row, c>> \in pairs
    BY DEF Children
  <2>4. joined[<<row, c>>] = x
    BY <2>2, <2>3
  <2>. HIDE DEF joined, pairs
  <2>. QED  BY <2>3, <2>4
<1>2. IsFiniteSet(image)
  <2>1. IsFiniteSet(rows) /\ IsFiniteSet(db.children)
    BY DEF Tables, FiniteTables
  <2>2. IsFiniteSet(pairs)
    BY <2>1, FS_Product
  <2>. HIDE DEF joined, pairs
  <2>. QED  BY <2>2, ImageFinite
<1>3. ASSUME NEW p \in pairs  PROVE joined[p] \in RowsOf(db)
  <2>1. joined[p] = Extended(p[1], p[2]) /\ p[1] \in rows /\ p[2] \in db.children
    OBVIOUS
  <2>2. p[1] \in RowsOf(db)
    BY <2>1 DEF Tables
  <2>. HIDE DEF joined, pairs
  <2>. QED  BY <2>1, <2>2, ExtendedRow
<1>4. image \in SUBSET RowsOf(db)
  <2>. HIDE DEF joined, pairs
  <2>. QED  BY <1>3
<1>. HIDE DEF image
<1>5. IsFiniteSet(InnerJoin(db, rows))
  BY <1>1, <1>2, FS_Subset
<1>. QED  BY <1>1, <1>4, <1>5 DEF Tables

\* So has an outer join,
LEMMA OuterJoinIsTable ==
  ASSUME NEW db, FiniteTables(db), NEW rows \in Tables(db)
  PROVE  OuterJoin(db, rows) \in Tables(db)
<1>. DEFINE lone == {row \in rows : Children(db, row.root) = {}}
            empty == [row \in lone |-> Extended(row, NoChild)]
            image == {empty[row] : row \in lone}
<1>1. OuterJoin(db, rows) = InnerJoin(db, rows) \cup image
  BY DEF OuterJoin, Extended
<1>2. IsFiniteSet(image)
  <2>1. IsFiniteSet(lone)
    BY FS_Subset DEF Tables
  <2>. HIDE DEF lone, empty
  <2>. QED  BY <2>1, ImageFinite
<1>3. ASSUME NEW row \in lone  PROVE empty[row] \in RowsOf(db)
  <2>1. row \in RowsOf(db) /\ empty[row] = Extended(row, NoChild)
    BY DEF Tables
  <2>. HIDE DEF lone, empty
  <2>. QED  BY <2>1, ExtendedRow
<1>4. image \in SUBSET RowsOf(db)
  <2>. HIDE DEF lone, empty
  <2>. QED  BY <1>3
<1>5. InnerJoin(db, rows) \in Tables(db)
  BY InnerJoinIsTable
<1>. HIDE DEF image
<1>6. IsFiniteSet(InnerJoin(db, rows) \cup image)
  BY <1>2, <1>5, FS_Union DEF Tables
<1>. QED  BY <1>1, <1>4, <1>5, <1>6 DEF Tables

\* a part of a table,
LEMMA SubsetIsTable ==
  ASSUME NEW db, NEW rows \in Tables(db), NEW some \in SUBSET rows
  PROVE  some \in Tables(db)
BY FS_Subset DEF Tables

\* and what a filter leaves.
LEMMA FilterIsTable ==
  ASSUME NEW db, FiniteTables(db), NEW rows \in Tables(db), NEW filter, NEW window, NEW resource
  PROVE  ApplyFilter(db, rows, filter, window, resource) \in Tables(db)
<1>. DEFINE result == ApplyFilter(db, rows, filter, window, resource)
<1>1. result \in SUBSET rows \/ result \in SUBSET OuterJoin(db, rows)
        \/ result \in SUBSET InnerJoin(db, rows)
  BY DEF ApplyFilter
<1>. HIDE DEF result
<1>2. result \in Tables(db)
  BY <1>1, SubsetIsTable, OuterJoinIsTable, InnerJoinIsTable
<1>. QED  BY <1>2 DEF result

\* What ApplyFilters builds up, one filter after the other.
FilteredUpTo(db, rows, filters, windows, resource, k, f) ==
  f = [i \in 0..k |->
         IF i = 0 THEN rows ELSE ApplyFilter(db, f[i - 1], filters[i], windows[i], resource)]

\* The recursive function of ApplyFilters exists.
LEMMA FilteredExist ==
  ASSUME NEW db, NEW rows, NEW filters, NEW windows, NEW resource, NEW N \in Nat
  PROVE  \E f : FilteredUpTo(db, rows, filters, windows, resource, N, f)
<1>. DEFINE next(i, left) == ApplyFilter(db, left, filters[i], windows[i], resource)
            Upto(k, f) == FilteredUpTo(db, rows, filters, windows, resource, k, f)
            T == {k \in Nat : ~\E f : Upto(k, f)}
<1>1. SUFFICES ASSUME T # {} PROVE FALSE
  OBVIOUS
<1>2. PICK k \in T : \A j \in T : k <= j
  BY <1>1, LeastExists
<1>3. k \in Nat /\ ~\E f : Upto(k, f)
  OBVIOUS
<1>4. CASE k = 0
  <2>1. Upto(k, [i \in 0..0 |-> rows])
    BY <1>4 DEF FilteredUpTo
  <2>. QED  BY <1>3, <2>1
<1>5. CASE k # 0
  <2>1. PICK m \in Nat : k = m + 1 /\ k - 1 = m /\ ~(k <= m)
    BY <1>3, <1>5
  <2>2. m \notin T
    BY <1>2, <2>1
  <2>3. PICK f : Upto(m, f)
    BY <2>2
  <2>. DEFINE g == [i \in 0..k |-> IF i = k THEN next(k, f[m]) ELSE f[i]]
  <2>. HIDE DEF next, T
  <2>4. ASSUME NEW i \in 0..k
        PROVE  g[i] = IF i = 0 THEN rows ELSE next(i, g[i - 1])
    <3>1. CASE i = k
      <4>0. m \in 0..k /\ m # k
        BY <1>3, <2>1
      <4>1. g[i] = next(k, f[m]) /\ g[m] = f[m]
        BY <3>1, <4>0
      <4>. QED  BY <1>5, <2>1, <3>1, <4>1
    <3>2. CASE i # k
      <4>1. i \in 0..m /\ g[i] = f[i]
        BY <2>1, <3>2
      <4>2. f[i] = IF i = 0 THEN rows ELSE next(i, f[i - 1])
        BY <2>3, <4>1 DEF FilteredUpTo, next
      <4>3. i # 0 => g[i - 1] = f[i - 1]
        BY <2>1, <4>1
      <4>. QED  BY <4>1, <4>2, <4>3
    <3>. QED  BY <3>1, <3>2
  <2>5. Upto(k, g)
    <3>1. g = [i \in 0..k |-> g[i]]
      OBVIOUS
    <3>2. g = [i \in 0..k |-> IF i = 0 THEN rows ELSE next(i, g[i - 1])]
      <4>. HIDE DEF g
      <4>. QED  BY <2>4, <3>1
    <3>. HIDE DEF g
    <3>. QED  BY <3>2 DEF FilteredUpTo, next
  <2>. QED  BY <1>3, <2>5
<1>. QED  BY <1>4, <1>5

\* What each filter keeps of the rows of the stage before it, the last one keeps
\* of the first rows: stages[i] is what is claimed of the rows after i filters.
LEMMA FiltersKeep ==
  ASSUME NEW db, NEW rows, NEW filters, NEW windows, NEW resource, Len(filters) \in Nat,
         NEW stages, rows \in stages[0],
         \A i \in 1..Len(filters) : \A left \in stages[i - 1] :
           ApplyFilter(db, left, filters[i], windows[i], resource) \in stages[i]
  PROVE  ApplyFilters(db, rows, filters, windows, resource) \in stages[Len(filters)]
<1>. DEFINE k == Len(filters)
            after == CHOOSE f : FilteredUpTo(db, rows, filters, windows, resource, k, f)
            T == {i \in 0..k : after[i] \notin stages[i]}
<1>1. FilteredUpTo(db, rows, filters, windows, resource, k, after)
  BY FilteredExist
<1>2. ApplyFilters(db, rows, filters, windows, resource) = after[k]
  BY DEF ApplyFilters, FilteredUpTo
<1>. HIDE DEF after
<1>3. T = {}
  <2>1. SUFFICES ASSUME T # {} PROVE FALSE
    OBVIOUS
  <2>2. T \in SUBSET Nat
    OBVIOUS
  <2>3. PICK i \in T : \A j \in T : i <= j
    BY <2>1, <2>2, LeastExists
  <2>4. i # 0
    BY <1>1, <2>3 DEF FilteredUpTo
  <2>5. PICK m \in 0..k : i - 1 = m /\ i = m + 1 /\ ~(i <= m)
    BY <2>3, <2>4
  <2>6. after[m] \in stages[m]
    BY <2>3, <2>5
  <2>7. after[i] = ApplyFilter(db, after[m], filters[i], windows[i], resource)
    BY <1>1, <2>3, <2>4, <2>5 DEF FilteredUpTo
  <2>8. i \in 1..k
    BY <2>3, <2>4
  <2>. QED  BY <2>3, <2>5, <2>6, <2>7, <2>8
<1>4. k \in 0..k
  OBVIOUS
<1>. QED  BY <1>2, <1>3, <1>4

\* The scoped roots are finitely many rows,
LEMMA ScopedIsTable ==
  ASSUME NEW db, FiniteTables(db), NEW resource
  PROVE  Scoped(db, resource) \in Tables(db)
<1>. DEFINE visible == {r \in db.roots : resource.mode = "global" \/ r.mine}
            bare == [r \in visible |-> [root |-> r, joins |-> <<>>]]
            image == {bare[r] : r \in visible}
<1>1. Scoped(db, resource) = image
  BY DEF Scoped
<1>2. IsFiniteSet(visible)
  BY FS_Subset DEF FiniteTables
<1>3. \A r \in visible : bare[r] \in RowsOf(db)
  BY DEF RowsOf
<1>. HIDE DEF visible, bare
<1>. QED  BY <1>1, <1>2, <1>3, ImageFinite DEF Tables

\* so are the rows once every path is joined,
LEMMA JoinedIsTable ==
  ASSUME NEW db, FiniteTables(db), NEW rows \in Tables(db), NEW paths, NEW resource
  PROVE  Joined(db, rows, paths, resource) \in Tables(db)
<1>. DEFINE bare == {row \in rows : row.joins = <<>>}
<1>1. bare \in Tables(db) /\ rows \ bare \in Tables(db)
  BY SubsetIsTable
<1>2. OuterJoin(db, bare) \in Tables(db)
  BY <1>1, OuterJoinIsTable
<1>. HIDE DEF bare
<1>3. (rows \ bare) \cup OuterJoin(db, bare) \in Tables(db)
  BY <1>1, <1>2, FS_Union DEF Tables
<1>. QED  BY <1>3 DEF Joined, bare

\* and those all filters leave.
LEMMA FilteredIsTable ==
  ASSUME NEW db, FiniteTables(db), NEW rows \in Tables(db), NEW filters, IsList(filters),
         NEW windows, NEW resource
  PROVE  ApplyFilters(db, rows, filters, windows, resource) \in Tables(db)
<1>. DEFINE stages == [i \in 0..Len(filters) |-> Tables(db)]
<1>1. Len(filters) \in Nat
  BY DEF IsList
<1>2. rows \in stages[0] /\ stages[Len(filters)] = Tables(db)
  BY <1>1
<1>3. \A i \in 1..Len(filters) : i - 1 \in 0..Len(filters) /\ i \in 0..Len(filters)
  BY <1>1
<1>4. \A i \in 1..Len(filters) : stages[i - 1] = Tables(db) /\ stages[i] = Tables(db)
  BY <1>3
<1>5. \A i \in 1..Len(filters) : \A left \in stages[i - 1] :
        ApplyFilter(db, left, filters[i], windows[i], resource) \in stages[i]
  BY <1>4, FilterIsTable
<1>. HIDE DEF stages
<1>. QED  BY <1>1, <1>2, <1>5, FiltersKeep

\* The rows a query ranges over are finitely many.
LEMMA RangedIsTable ==
  ASSUME NEW db, FiniteTables(db), NEW plan, IsPlan(plan), NEW compiled, NEW resource
  PROVE  Ranged(plan, compiled, db, resource) \in Tables(db)
<1>1. IsList(plan.filters)
  BY DEF IsPlan
<1>2. ApplyFilters(db, Scoped(db, resource), plan.filters, compiled.windows, resource)
        \in Tables(db)
  BY <1>1, ScopedIsTable, FilteredIsTable
<1>. QED  BY <1>2, JoinedIsTable DEF Ranged

\* The keys of the groups, and the row of a group.
Keys(plan, rows, resource) ==
  {GroupedBy(plan, row, resource) : row \in rows}
    \cup (IF plan.group = <<>> THEN {[n \in {} |-> n]} ELSE {})
GroupRow(plan, key, rows, resource) ==
  AggregateRow(plan, key, {row \in rows : GroupedBy(plan, row, resource) = key}, resource)

\* The answers of an aggregate are the rows of the groups of its keys.
LEMMA AnswersOf ==
  ASSUME NEW plan, NEW compiled, NEW db, NEW resource
  PROVE  LET rows == Ranged(plan, compiled, db, resource) IN
         Answers(plan, compiled, db, resource) =
           IF plan.intent = "list" THEN rows
           ELSE {GroupRow(plan, key, rows, resource) : key \in Keys(plan, rows, resource)}
<1>. DEFINE rows == Ranged(plan, compiled, db, resource)
            by(row) == GroupedBy(plan, row, resource)
            keyed == {<<row, by(row)>> : row \in rows}
            some == IF plan.group = <<>> THEN {[n \in {} |-> n]} ELSE {}
            members(key) == {p[1] : p \in {q \in keyed : q[2] = key}}
<1>1. Answers(plan, compiled, db, resource) =
        IF plan.intent = "list" THEN rows
        ELSE {AggregateRow(plan, key, members(key), resource) :
                key \in {p[2] : p \in keyed} \cup some}
  BY DEF Answers
<1>. HIDE DEF rows, by, some
<1>2. {p[2] : p \in keyed} = {by(row) : row \in rows}
  <2>1. ASSUME NEW row \in rows  PROVE \E p \in keyed : by(row) = p[2]
    <3>1. <<row, by(row)>> \in keyed /\ <<row, by(row)>>[2] = by(row)
      OBVIOUS
    <3>. HIDE DEF keyed
    <3>. QED  BY <3>1
  <2>2. ASSUME NEW p \in keyed  PROVE \E row \in rows : p[2] = by(row)
    <3>1. PICK row \in rows : p = <<row, by(row)>>
      OBVIOUS
    <3>. QED  BY <3>1
  <2>. HIDE DEF keyed
  <2>. QED  BY <2>1, <2>2
<1>3. ASSUME NEW key  PROVE members(key) = {row \in rows : by(row) = key}
  <2>1. ASSUME NEW row \in rows, by(row) = key  PROVE row \in members(key)
    <3>1. <<row, by(row)>> \in keyed
      OBVIOUS
    <3>2. <<row, by(row)>>[2] = key /\ <<row, by(row)>>[1] = row
      BY <2>1
    <3>. HIDE DEF keyed
    <3>. QED  BY <3>1, <3>2
  <2>2. ASSUME NEW row \in members(key)  PROVE row \in rows /\ by(row) = key
    <3>1. PICK p \in keyed : p[2] = key /\ row = p[1]
      <4>. HIDE DEF keyed
      <4>. QED  OBVIOUS
    <3>2. PICK r \in rows : p = <<r, by(r)>>
      OBVIOUS
    <3>. QED  BY <3>1, <3>2
  <2>. HIDE DEF members
  <2>. QED  BY <2>1, <2>2
<1>. HIDE DEF keyed, members
<1>4. Keys(plan, rows, resource) = {p[2] : p \in keyed} \cup some
  BY <1>2 DEF Keys, by, some
<1>5. ASSUME NEW key
      PROVE  AggregateRow(plan, key, members(key), resource) = GroupRow(plan, key, rows, resource)
  BY <1>3 DEF GroupRow, by
<1>6. {AggregateRow(plan, key, members(key), resource) :
         key \in {p[2] : p \in keyed} \cup some}
        = {GroupRow(plan, key, rows, resource) : key \in Keys(plan, rows, resource)}
  BY <1>4, <1>5
<1>. QED  BY <1>1, <1>6 DEF rows

\* There are finitely many answers.
LEMMA AnswersFinite ==
  ASSUME NEW db, FiniteTables(db), NEW plan, IsPlan(plan), NEW compiled, NEW resource
  PROVE  IsFiniteSet(Answers(plan, compiled, db, resource))
<1>. DEFINE rows == Ranged(plan, compiled, db, resource)
            by == [row \in rows |-> GroupedBy(plan, row, resource)]
            some == IF plan.group = <<>> THEN {[n \in {} |-> n]} ELSE {}
            keys == Keys(plan, rows, resource)
            answer == [key \in keys |-> GroupRow(plan, key, rows, resource)]
<1>1. IsFiniteSet(rows)
  BY RangedIsTable DEF Tables
<1>2. IsFiniteSet(keys)
  <2>1. IsFiniteSet({by[row] : row \in rows})
    <3>. HIDE DEF by, rows
    <3>. QED  BY <1>1, ImageFinite
  <2>2. IsFiniteSet(some)
    BY FS_Singleton, FS_EmptySet
  <2>3. keys = {by[row] : row \in rows} \cup some
    BY DEF Keys
  <2>. HIDE DEF keys, by, some, rows
  <2>. QED  BY <2>1, <2>2, <2>3, FS_Union
<1>3. IsFiniteSet({answer[key] : key \in keys})
  <2>. HIDE DEF keys, answer
  <2>. QED  BY <1>2, ImageFinite
<1>4. {answer[key] : key \in keys} = {GroupRow(plan, key, rows, resource) : key \in keys}
  <2>. HIDE DEF keys, rows
  <2>. QED  OBVIOUS
<1>5. Answers(plan, compiled, db, resource) =
        IF plan.intent = "list" THEN rows
        ELSE {GroupRow(plan, key, rows, resource) : key \in keys}
  BY AnswersOf
<1>. HIDE DEF rows, keys, answer
<1>. QED  BY <1>1, <1>3, <1>4, <1>5

\* An aggregate without groups is one row.
LEMMA UngroupedAnswer ==
  ASSUME NEW plan, plan.intent # "list", plan.group = <<>>, NEW compiled, NEW db, NEW resource
  PROVE  \E row : Answers(plan, compiled, db, resource) = {row}
<1>. DEFINE rows == Ranged(plan, compiled, db, resource)
            key == [n \in {} |-> n]
<1>1. GroupNames(plan) = {}
  BY DEF GroupNames, ToSet
<1>2. ASSUME NEW row  PROVE GroupedBy(plan, row, resource) = key
  BY <1>1 DEF GroupedBy
<1>3. Keys(plan, rows, resource) = {key}
  <2>. HIDE DEF key, rows
  <2>. QED  BY <1>2 DEF Keys, key
<1>4. Answers(plan, compiled, db, resource) =
        {GroupRow(plan, k, rows, resource) : k \in Keys(plan, rows, resource)}
  BY AnswersOf
<1>5. Answers(plan, compiled, db, resource) = {GroupRow(plan, key, rows, resource)}
  <2>. HIDE DEF key, rows
  <2>. QED  BY <1>3, <1>4
<1>. QED  BY <1>5

-----------------------------------------------------------------------------
(* Registered resources *)

Registrations ==
  {BuildResource(d, None) : d \in {d \in Declarations : DeclarationAccepted(d, None)}}

\* What registration makes certain of the fields of a resource and their names.
LEMMA RegisteredFields ==
  ASSUME NEW decl \in Declarations, DeclarationAccepted(decl, None), NEW r,
         r = BuildResource(decl, None)
  PROVE  /\ IsList(r.fields) /\ IsList(r.metrics) /\ EnumsHold(r) /\ MembersNamedOnce(r)
         /\ r.model = decl.model /\ r.timezone = decl.timezone
         /\ r.identity = RowIdentity(decl.model, decl.identity)
         /\ r.defaultOrder = decl.defaultOrder
         /\ \A f \in ToSet(r.fields) : \E config \in ToSet(decl.fields) :
              /\ f = BuildFieldSpec(decl.model, config) /\ FieldAccepted(decl.model, config)
              /\ IsList(config.binding)
         /\ \A k \in ToSet(r.metrics) : \E metric \in ToSet(decl.metrics) :
              k = BuildMetric(decl.model, metric) /\ MetricAccepted(decl.model, metric)
<1>1. /\ IsList(decl.fields) /\ IsList(decl.metrics)
      /\ Distinct([i \in DOMAIN decl.fields |-> decl.fields[i].name])
      /\ \A i \in DOMAIN decl.fields :
           /\ IsList(decl.fields[i].binding)
           /\ decl.fields[i].enum # None =>
                \A v \in ToSet(decl.fields[i].enum.values) : IsScalar(v.value)
  BY DeclarationAssumption
<1>2. /\ IsList(r.fields) /\ DOMAIN r.fields = DOMAIN decl.fields
      /\ \A i \in DOMAIN decl.fields :
           /\ r.fields[i].name = decl.fields[i].name
           /\ r.fields[i].enum = decl.fields[i].enum
           /\ r.fields[i].type = decl.fields[i].type
           /\ FieldAccepted(decl.model, decl.fields[i])
  BY <1>1, BuiltField
<1>3. IsList(r.metrics) /\ Distinct([i \in DOMAIN r.metrics |-> r.metrics[i].name])
  BY <1>1, BuiltMetrics
<1>4. /\ r.model = decl.model /\ r.timezone = decl.timezone
      /\ r.identity = RowIdentity(decl.model, decl.identity)
      /\ r.defaultOrder = decl.defaultOrder
      /\ r.fields = [i \in DOMAIN decl.fields |-> BuildFieldSpec(decl.model, decl.fields[i])]
      /\ r.metrics = [i \in DOMAIN decl.metrics |-> BuildMetric(decl.model, decl.metrics[i])]
  BY DEF BuildResource, Fields
<1>5. MembersNamedOnce(r)
  <2>1. \A i, j \in DOMAIN r.fields : r.fields[i].name = r.fields[j].name => i = j
    BY <1>1, <1>2 DEF Distinct
  <2>. DEFINE names == [i \in DOMAIN r.fields |-> r.fields[i].name]
  <2>2. \A i, j \in DOMAIN names : names[i] = names[j] => i = j
    BY <2>1
  <2>. QED  BY <1>3, <2>2 DEF MembersNamedOnce, Distinct
<1>6. ASSUME NEW f \in ToSet(r.fields), f.type = "enum"
      PROVE  /\ EnumUnambiguous(f.enum.values)
             /\ \A v \in ToSet(f.enum.values) :
                  IsScalar(v.value) /\ v.value.py \in {"str", "int"}
  <2>1. PICK i \in DOMAIN r.fields : f = r.fields[i]
    BY DEF ToSet
  <2>2. PICK type : EnumAccepted(f.type, type, f.enum)
    BY <1>2, <2>1 DEF FieldAccepted
  <2>3. f.enum # None => \A v \in ToSet(f.enum.values) : IsScalar(v.value)
    BY <1>1, <1>2, <2>1
  <2>. QED  BY <1>6, <2>2, <2>3 DEF EnumAccepted
<1>7. EnumsHold(r)
  BY <1>6 DEF EnumsHold, EnumHolds
<1>8. ASSUME NEW f \in ToSet(r.fields)
      PROVE  \E config \in ToSet(decl.fields) :
              /\ f = BuildFieldSpec(decl.model, config) /\ FieldAccepted(decl.model, config)
              /\ IsList(config.binding)
  <2>1. PICK i \in DOMAIN decl.fields : f = BuildFieldSpec(decl.model, decl.fields[i])
    BY <1>2, <1>4 DEF ToSet
  <2>2. decl.fields[i] \in ToSet(decl.fields)
    BY DEF ToSet
  <2>. QED  BY <1>1, <1>2, <2>1, <2>2
<1>9. ASSUME NEW k \in ToSet(r.metrics)
      PROVE  \E metric \in ToSet(decl.metrics) :
               k = BuildMetric(decl.model, metric) /\ MetricAccepted(decl.model, metric)
  <2>1. PICK i \in DOMAIN decl.metrics : k = BuildMetric(decl.model, decl.metrics[i])
    BY <1>4 DEF ToSet
  <2>2. decl.metrics[i] \in ToSet(decl.metrics) /\ MetricAccepted(decl.model, decl.metrics[i])
    BY DEF ToSet, DeclarationAccepted
  <2>. QED  BY <2>1, <2>2
<1>. QED  BY <1>2, <1>3, <1>4, <1>5, <1>7, <1>8, <1>9

-----------------------------------------------------------------------------
(* What the cells of a row hold *)

Registered(decl, r) ==
  decl \in Declarations /\ DeclarationAccepted(decl, None) /\ r = BuildResource(decl, None)

\* The bindings of its fields and metrics.
Paths(r) == {f.binding : f \in ToSet(r.fields)} \cup {MetricPath(k) : k \in ToSet(r.metrics)}

\* A member found under a name of the list.
LEMMA FoundMember ==
  ASSUME NEW members, NEW n \in Names(members)
  PROVE  Named(members, n) \in ToSet(members) /\ Named(members, n).name = n
BY NamedMember DEF ToSet

\* A registered field crosses the to-many edges its path crosses.
LEMMA FieldCrosses ==
  ASSUME NEW decl, NEW r, Registered(decl, r), NEW f \in ToSet(r.fields)
  PROVE  /\ ResolveFieldPath(r.model, f.binding).found
         /\ f.many = ResolveFieldPath(r.model, f.binding).many
         /\ CrossesMany(f.binding, r) <=> f.many # {}
         /\ f.name # None
         /\ \E config \in ToSet(decl.fields) :
              /\ config.binding = f.binding /\ config.type = f.type
              /\ config.nullable = f.nullable /\ FieldAccepted(r.model, config)
              /\ IsList(config.binding)
<1>1. PICK config \in ToSet(decl.fields) :
        /\ f = BuildFieldSpec(decl.model, config) /\ FieldAccepted(decl.model, config)
        /\ IsList(config.binding)
  BY RegisteredFields DEF Registered
<1>2. r.model = decl.model
  BY RegisteredFields DEF Registered
<1>3. /\ f.binding = config.binding /\ f.name = config.name
      /\ f.many = ResolveFieldPath(decl.model, config.binding).many
      /\ config.type = f.type /\ config.nullable = f.nullable
  BY <1>1 DEF BuildFieldSpec
<1>4. ResolveFieldPath(decl.model, config.binding).found
  BY <1>1 DEF FieldAccepted
<1>5. config.name # None
  BY DeclarationAssumption DEF Registered, ToSet
<1>. QED  BY <1>1, <1>2, <1>3, <1>4, <1>5 DEF CrossesMany

\* What a metric counts crosses the to-many edges it is registered with: none for the
\* one policy, one for the others.
LEMMA MetricCrosses ==
  ASSUME NEW decl, NEW r, Registered(decl, r), NEW k \in ToSet(r.metrics)
  PROVE  /\ ResolveFieldPath(r.model, MetricPath(k)).found
         /\ k.many = ResolveFieldPath(r.model, MetricPath(k)).many
         /\ CrossesMany(MetricPath(k), r) <=> k.many # {}
         /\ CrossesMany(k.binding, r) <=> k.many # {}
         /\ k.distinct # None => CrossesMany(k.distinct, r)
         /\ k.many # {} => Cardinality(k.many) = 1
         /\ k.policy = "to_one_only" <=> k.many = {}
         /\ k.many = {} => k.distinct = None
         /\ k.op \in MetricOps /\ (k.policy = "count_distinct" => k.op = "count")
         /\ \E metric \in ToSet(decl.metrics) :
              /\ metric.binding = k.binding /\ metric.distinct = k.distinct
              /\ MetricPath(metric) = MetricPath(k)
              /\ metric.policy = "count_distinct" => metric.distinct # None
              /\ MetricAccepted(r.model, metric)
<1>1. PICK metric \in ToSet(decl.metrics) :
        k = BuildMetric(decl.model, metric) /\ MetricAccepted(decl.model, metric)
  BY RegisteredFields DEF Registered
<1>2. r.model = decl.model
  BY RegisteredFields DEF Registered
<1>. DEFINE binding == ResolveFieldPath(decl.model, metric.binding)
            key == ResolveFieldPath(decl.model, metric.distinct)
<1>3. /\ binding.found /\ MetricCardinality(decl.model, metric, binding)
      /\ metric.policy \in {"to_one_only", "count_rows", "count_distinct"}
      /\ metric.op \in MetricOps
  BY <1>1 DEF MetricAccepted, MetricWellFormed
<1>4. /\ k.binding = metric.binding /\ k.distinct = metric.distinct
      /\ k.policy = metric.policy /\ k.op = metric.op
  BY <1>1 DEF BuildMetric
<1>. DEFINE paths == {metric.binding} \cup
                       (IF metric.policy = "count_distinct" THEN {metric.distinct} ELSE {})
<1>5. k.many = UNION {b.many : b \in {ResolveFieldPath(decl.model, p) : p \in paths}}
  BY <1>1 DEF BuildMetric
<1>6. Cardinality({}) = 0
  BY FS_EmptySet
<1>7. CASE metric.policy = "to_one_only"
  <2>1. metric.distinct = None /\ binding.many = {}
    BY <1>3, <1>7 DEF MetricCardinality
  <2>2. k.many = binding.many /\ MetricPath(k) = metric.binding
        /\ MetricPath(metric) = metric.binding
    BY <1>4, <1>5, <1>7 DEF MetricPath
  <2>. QED  BY <1>1, <1>2, <1>3, <1>4, <1>7, <2>1, <2>2 DEF CrossesMany
<1>8. CASE metric.policy = "count_rows"
  <2>1. metric.distinct = None /\ Cardinality(binding.many) = 1
    BY <1>3, <1>8 DEF MetricCardinality
  <2>2. k.many = binding.many /\ MetricPath(k) = metric.binding
        /\ MetricPath(metric) = metric.binding
    BY <1>4, <1>5, <1>8 DEF MetricPath
  <2>. QED  BY <1>1, <1>2, <1>3, <1>4, <1>6, <1>8, <2>1, <2>2 DEF CrossesMany
<1>9. CASE metric.policy = "count_distinct"
  <2>1. /\ metric.distinct # None /\ Cardinality(binding.many) = 1
        /\ key.found /\ key.many = binding.many /\ metric.op = "count"
    BY <1>3, <1>9 DEF MetricCardinality
  <2>2. k.many = binding.many /\ MetricPath(k) = metric.distinct
        /\ MetricPath(metric) = metric.distinct
    BY <1>4, <1>5, <1>9, <2>1 DEF MetricPath
  <2>. QED  BY <1>1, <1>2, <1>3, <1>4, <1>6, <1>9, <2>1, <2>2 DEF CrossesMany
<1>. QED  BY <1>3, <1>7, <1>8, <1>9

\* A binding is a cell of the rows it leads to, and of no others.
LEMMA PathHeld ==
  ASSUME NEW decl, NEW r, Registered(decl, r), NEW db \in Databases, NEW path \in Paths(r)
  PROVE  IF CrossesMany(path, r)
         THEN /\ \A root \in db.roots : path \notin DOMAIN root.cells
              /\ \A c \in db.children : path \in DOMAIN c.cells
         ELSE \A root \in db.roots : path \in DOMAIN root.cells
<1>. DEFINE bound(p) == ResolveFieldPath(decl.model, p)
            fields == {f.binding : f \in ToSet(decl.fields)}
            metrics == {k.binding : k \in ToSet(decl.metrics)}
                         \cup ({k.distinct : k \in ToSet(decl.metrics)} \ {None})
<1>1. \A p \in fields \cup metrics : bound(p).found =>
        IF bound(p).many = {}
        THEN \A root \in db.roots : p \in DOMAIN root.cells
        ELSE /\ \A root \in db.roots : p \notin DOMAIN root.cells
             /\ \A c \in db.children : p \in DOMAIN c.cells
  <2>1. BindingsHeld(db, decl)
    BY DatabaseAssumption DEF Registered
  <2>. QED  BY <2>1 DEF BindingsHeld
<1>2. r.model = decl.model
  BY RegisteredFields DEF Registered
<1>3. path \in fields \cup metrics /\ bound(path).found
  <2>1. CASE \E f \in ToSet(r.fields) : path = f.binding
    <3>1. PICK f \in ToSet(r.fields) : path = f.binding
      BY <2>1
    <3>2. ResolveFieldPath(r.model, path).found
          /\ \E config \in ToSet(decl.fields) : config.binding = path
      BY <3>1, FieldCrosses
    <3>. QED  BY <1>2, <3>2
  <2>2. CASE \E k \in ToSet(r.metrics) : path = MetricPath(k)
    <3>1. PICK k \in ToSet(r.metrics) : path = MetricPath(k)
      BY <2>2
    <3>2. /\ ResolveFieldPath(r.model, path).found
          /\ \E metric \in ToSet(decl.metrics) :
               /\ MetricPath(metric) = path
               /\ metric.policy = "count_distinct" => metric.distinct # None
      BY <3>1, MetricCrosses
    <3>3. path \in metrics
      BY <3>2 DEF MetricPath
    <3>. HIDE DEF metrics
    <3>. QED  BY <1>2, <3>2, <3>3
  <2>. QED  BY <2>1, <2>2 DEF Paths
<1>. HIDE DEF fields, metrics
<1>. QED  BY <1>1, <1>2, <1>3 DEF CrossesMany

\* A cell is a number or a null.
LEMMA CellTyped ==
  ASSUME NEW decl, NEW r, Registered(decl, r), NEW db \in Databases,
         NEW t \in db.roots \cup db.children, NEW path \in DOMAIN t.cells
  PROVE  t.cells[path] \in Int \cup {None}
BY DatabaseAssumption DEF Registered, NullsHeld

\* Of a date field it is no day before the first.
LEMMA DateTyped ==
  ASSUME NEW decl \in Declarations, NEW db \in Databases,
         NEW t \in db.roots \cup db.children, NEW path \in DOMAIN t.cells, t.cells[path] # None,
         NEW config \in ToSet(decl.fields), config.binding = path
  PROVE  /\ config.type = "date" => t.cells[path] \in Nat
         /\ config.type = "datetime" => Wall(decl.timezone, t.cells[path]) \in Nat
BY DatabaseAssumption DEF DatesHeld

\* A cell read through a binding is a cell of the tables, or the null of a join that
\* found no row.
LEMMA CellHeld ==
  ASSUME NEW decl, NEW r, Registered(decl, r), NEW db \in Databases, NEW row \in RowsOf(db),
         NEW path \in Paths(r), CrossesMany(path, r) => row.joins # <<>>
  PROVE  /\ Cell(row, path) \in Int \cup {None}
         /\ \/ CrossesMany(path, r) /\ Cell(row, path) = None
            \/ \E t \in db.roots \cup db.children :
                 path \in DOMAIN t.cells /\ Cell(row, path) = t.cells[path]
<1>1. row.root \in db.roots /\ row.joins \in Seq(db.children \cup {NoChild})
  BY DEF RowsOf
<1>2. CASE ~CrossesMany(path, r)
  <2>1. path \in DOMAIN row.root.cells
    BY <1>1, <1>2, PathHeld
  <2>2. Cell(row, path) = row.root.cells[path]
    BY <2>1 DEF Cell
  <2>. QED  BY <1>1, <2>1, <2>2, CellTyped
<1>3. CASE CrossesMany(path, r)
  <2>. DEFINE c == row.joins[Len(row.joins)]
  <2>1. path \notin DOMAIN row.root.cells /\ \A x \in db.children : path \in DOMAIN x.cells
    BY <1>1, <1>3, PathHeld
  <2>2. c \in db.children \cup {NoChild}
    BY <1>1, <1>3
  <2>3. Cell(row, path) = IF c = NoChild THEN None ELSE c.cells[path]
    BY <2>1 DEF Cell
  <2>. HIDE DEF c
  <2>. QED  BY <1>3, <2>1, <2>2, <2>3, CellTyped
<1>. QED  BY <1>2, <1>3

-----------------------------------------------------------------------------
(* Admitted plans *)

Admitted(plan, resource) ==
  /\ IsPlan(plan) /\ Parses(plan) /\ plan.limit \in 1..Limits.rows
  /\ AdmissionCode(plan, resource, Permissions) = "ok"

\* The members an admitted plan names are registered.
LEMMA AdmittedMembers ==
  ASSUME NEW plan, NEW resource, Admitted(plan, resource)
  PROVE  /\ ShapeAccepted(plan) /\ FanOutAccepted(plan, resource) /\ NoDuplicates(plan)
         /\ ToSet(plan.select) \subseteq Names(resource.fields)
         /\ GroupNames(plan) \subseteq Names(resource.fields)
         /\ ToSet(plan.metrics) \subseteq Names(resource.metrics)
         /\ \A f \in ToSet(plan.filters) :
              /\ f.field \in Names(resource.fields)
              /\ f.op \in OperatorsOf(Field(f.field, resource).type)
         /\ \A g \in ToSet(plan.group) :
              g.trunc # None => Field(g.field, resource).type \in DateTypes
         /\ \A t \in ToSet(plan.order) :
              IF t.field = None THEN t.metric \in ToSet(plan.metrics)
              ELSE t.metric = None /\ t.field \in ToSet(plan.select) \cup GroupNames(plan)
<1>1. IsPlan(plan) /\ Parses(plan) /\ AdmissionCode(plan, resource, Permissions) = "ok"
  BY DEF Admitted
<1>2. /\ ShapeAccepted(plan) /\ LimitsCode(plan, resource) = "ok"
      /\ MembersCode(plan, resource, Permissions) = "ok"
  BY <1>1, AdmissionOk
<1>3. /\ \A i \in DOMAIN plan.select :
           FieldUse(resource, plan.select[i], "select", Permissions) = "ok"
      /\ \A i \in DOMAIN plan.filters :
           FilterUse(resource, plan.filters[i], Permissions) = "ok"
      /\ \A i \in DOMAIN plan.group : GroupUse(resource, plan.group[i], Permissions) = "ok"
      /\ MetricsCode(plan, resource, Permissions) = "ok"
      /\ FanOutAccepted(plan, resource)
      /\ \A i \in DOMAIN plan.order :
           OrderUse(plan, resource, plan.order[i], Permissions) = "ok"
  BY <1>1, <1>2, MembersOk
<1>4. NoDuplicates(plan)
  BY <1>2, LimitsOk
<1>5. \A n \in ToSet(plan.select) : n \in Names(resource.fields)
  BY <1>3, FieldUseOk DEF ToSet
<1>6. \A f \in ToSet(plan.filters) :
        f.field \in Names(resource.fields) /\ f.op \in OperatorsOf(Field(f.field, resource).type)
  BY <1>3, FilterUseOk, FieldUseOk DEF ToSet, Field
<1>7. \A g \in ToSet(plan.group) :
        /\ g.field \in Names(resource.fields)
        /\ g.trunc # None => Field(g.field, resource).type \in DateTypes
  BY <1>3, GroupUseOk, FieldUseOk DEF ToSet, Field
<1>8. \A n \in ToSet(plan.metrics) : n \in Names(resource.metrics)
  <2>1. \A i \in DOMAIN plan.metrics :
          MetricUse(resource, plan.metrics[i], Permissions) = "ok"
    BY <1>1, <1>3, MetricsOk
  <2>. QED  BY <2>1, MetricUseOk DEF ToSet
<1>9. \A t \in ToSet(plan.order) :
        IF t.field = None THEN t.metric \in ToSet(plan.metrics)
        ELSE t.metric = None /\ t.field \in ToSet(plan.select) \cup GroupNames(plan)
  <2>1. \A t \in ToSet(plan.order) : OrderUse(plan, resource, t, Permissions) = "ok"
    BY <1>3 DEF ToSet
  <2>2. \A t \in ToSet(plan.order) : (t.field = None) # (t.metric = None)
    BY <1>1 DEF Parses, OrderParses
  <2>. QED  BY <2>1, <2>2, OrderUseOk DEF GroupNames
<1>. QED  BY <1>2, <1>3, <1>4, <1>5, <1>6, <1>7, <1>8, <1>9 DEF GroupNames

\* The fields and metrics whose paths the query of a plan joins.
UsedNames(plan, compiled) ==
  ToSet(plan.select) \cup GroupNames(plan)
    \cup ({t.field : t \in ToSet(compiled.ordering)} \ {None})

\* Once a path in use crosses a to-many relationship, every row has joined it.
LEMMA RangedJoins ==
  ASSUME NEW db, FiniteTables(db), NEW plan, IsPlan(plan), NEW compiled, NEW resource,
         NEW row \in Ranged(plan, compiled, db, resource)
  PROVE  /\ row \in RowsOf(db)
         /\ \A n \in UsedNames(plan, compiled) :
              CrossesMany(Field(n, resource).binding, resource) => row.joins # <<>>
         /\ \A n \in ToSet(plan.metrics) :
              \/ CrossesMany(Metric(n, resource).binding, resource)
              \/ /\ Metric(n, resource).distinct # None
                 /\ CrossesMany(Metric(n, resource).distinct, resource)
              => row.joins # <<>>
<1>. DEFINE metrics == {Metric(n, resource) : n \in ToSet(plan.metrics)}
            rows == ApplyFilters(db, Scoped(db, resource), plan.filters, compiled.windows,
                                 resource)
            paths == {Field(n, resource).binding : n \in UsedNames(plan, compiled)}
                       \cup {k.binding : k \in metrics}
                       \cup ({k.distinct : k \in metrics} \ {None})
            bare == {x \in rows : x.joins = <<>>}
<1>1. Ranged(plan, compiled, db, resource) = Joined(db, rows, paths, resource)
  BY DEF Ranged, UsedNames
<1>2. row \in RowsOf(db)
  BY RangedIsTable DEF Tables
<1>3. rows \in Tables(db)
  BY ScopedIsTable, FilteredIsTable DEF IsPlan
<1>. HIDE DEF rows, paths
<1>4. ASSUME NEW p \in paths, CrossesMany(p, resource)  PROVE row.joins # <<>>
  <2>1. row \in (rows \ bare) \cup OuterJoin(db, bare)
    BY <1>1, <1>4 DEF Joined
  <2>2. CASE row \in rows \ bare
    BY <2>2
  <2>3. CASE row \in InnerJoin(db, bare)
    <3>1. PICK x \in bare : \E c \in Children(db, x.root) : row = Extended(x, c)
      BY <2>3, InnerJoinRows
    <3>2. PICK c \in Children(db, x.root) : row = Extended(x, c)
      BY <3>1
    <3>3. x \in RowsOf(db) /\ c \in db.children
      BY <1>3 DEF Tables, Children
    <3>4. row.joins = Append(x.joins, c)
      BY <3>2, <3>3, ExtendedRow
    <3>. QED  BY <3>3, <3>4 DEF RowsOf
  <2>4. CASE \E x \in bare : row = Extended(x, NoChild)
    <3>1. PICK x \in bare : row = Extended(x, NoChild)
      BY <2>4
    <3>2. x \in RowsOf(db)
      BY <1>3 DEF Tables
    <3>3. row.joins = Append(x.joins, NoChild)
      BY <3>1, <3>2, ExtendedRow
    <3>. QED  BY <3>2, <3>3 DEF RowsOf
  <2>. QED  BY <2>1, <2>2, <2>3, <2>4 DEF OuterJoin, Extended
<1>5. \A n \in UsedNames(plan, compiled) : Field(n, resource).binding \in paths
  BY DEF paths
<1>6. \A n \in ToSet(plan.metrics) :
        /\ Metric(n, resource).binding \in paths
        /\ Metric(n, resource).distinct # None => Metric(n, resource).distinct \in paths
  BY DEF paths
<1>. QED  BY <1>2, <1>4, <1>5, <1>6

\* What a query reads of its rows are numbers and nulls.
LEMMA RangedCells ==
  ASSUME NEW decl, NEW r, Registered(decl, r), NEW db \in Databases, NEW plan,
         Admitted(plan, r), NEW compiled, NEW row \in Ranged(plan, compiled, db, r),
         NEW n \in UsedNames(plan, compiled), n \in Names(r.fields)
  PROVE  LET path == Field(n, r).binding IN
         /\ Cell(row, path) \in Int \cup {None}
         /\ \/ CrossesMany(path, r) /\ Cell(row, path) = None
            \/ \E t \in db.roots \cup db.children :
                 path \in DOMAIN t.cells /\ Cell(row, path) = t.cells[path]
<1>1. FiniteTables(db)
  BY DatabaseAssumption DEF FiniteTables
<1>2. /\ row \in RowsOf(db)
      /\ CrossesMany(Field(n, r).binding, r) => row.joins # <<>>
  BY <1>1, RangedJoins DEF Admitted
<1>3. Field(n, r).binding \in Paths(r)
  BY FoundMember DEF Paths, Field
<1>. QED  BY <1>2, <1>3, CellHeld

\* The key of a group is a number or a null, null when the cell is, and the cell itself
\* when the plan does not truncate it.
LEMMA GroupKeyHeld ==
  ASSUME NEW decl, NEW r, Registered(decl, r), NEW db \in Databases, NEW plan,
         Admitted(plan, r), NEW compiled, NEW row \in Ranged(plan, compiled, db, r),
         NEW g \in ToSet(plan.group)
  PROVE  LET cell == Cell(row, Field(g.field, r).binding)
             key == GroupKey(g, row, r)
         IN /\ key \in Int \cup {None} /\ (key = None <=> cell = None)
            /\ Field(g.field, r).type \notin DateTypes => key = cell
<1>. DEFINE f == Field(g.field, r)
            cell == Cell(row, f.binding)
            key == GroupKey(g, row, r)
<1>1. g.field \in Names(r.fields) /\ (g.trunc # None => f.type \in DateTypes)
  BY AdmittedMembers DEF GroupNames
<1>2. g.field \in UsedNames(plan, compiled)
  BY DEF UsedNames, GroupNames
<1>3. /\ cell \in Int \cup {None}
      /\ \/ CrossesMany(f.binding, r) /\ cell = None
         \/ \E t \in db.roots \cup db.children :
              f.binding \in DOMAIN t.cells /\ cell = t.cells[f.binding]
  BY <1>1, <1>2, RangedCells
<1>4. None \notin Int
  BY LimitAssumption
<1>5. key = IF cell = None \/ g.trunc = None THEN cell
            ELSE Bucket(g.trunc, IF f.type = "datetime" THEN LocalDay(r.timezone, cell) ELSE cell)
  BY DEF GroupKey
<1>6. g.trunc \in {None, "day", "week", "month", "quarter", "year"}
  BY DEF Admitted, Parses
<1>7. f \in ToSet(r.fields)
  BY <1>1, FoundMember DEF Field
<1>8. PICK config \in ToSet(decl.fields) : config.binding = f.binding /\ config.type = f.type
  BY <1>7, FieldCrosses
<1>9. r.timezone = decl.timezone
  BY RegisteredFields DEF Registered
<1>10. ASSUME cell # None, g.trunc # None
       PROVE  (IF f.type = "datetime" THEN LocalDay(r.timezone, cell) ELSE cell) \in Nat
  <2>1. PICK t \in db.roots \cup db.children :
               f.binding \in DOMAIN t.cells /\ cell = t.cells[f.binding]
    BY <1>3, <1>10
  <2>2. /\ f.type = "date" => cell \in Nat
        /\ f.type = "datetime" => Wall(decl.timezone, cell) \in Nat
    <3>. HIDE DEF cell, f
    <3>1. decl \in Declarations
      BY DEF Registered
    <3>2. /\ config.type = "date" => t.cells[f.binding] \in Nat
          /\ config.type = "datetime" => Wall(decl.timezone, t.cells[f.binding]) \in Nat
      BY <1>8, <1>10, <2>1, <3>1, DateTyped
    <3>. QED  BY <1>8, <2>1, <3>2
  <2>3. f.type \in {"date", "datetime"}
    BY <1>1, <1>10 DEF DateTypes
  <2>. HIDE DEF cell, f
  <2>. QED  BY <1>9, <2>2, <2>3 DEF LocalDay
<1>. HIDE DEF cell, f, key
<1>11. CASE cell = None \/ g.trunc = None
  BY <1>3, <1>4, <1>5, <1>11 DEF cell, f, key
<1>12. CASE cell # None /\ g.trunc # None
  <2>1. key \in Int
    BY <1>5, <1>6, <1>10, <1>12, BucketIsDay
  <2>. QED  BY <1>1, <1>4, <1>12, <2>1 DEF cell, f, key
<1>. QED  BY <1>11, <1>12

-----------------------------------------------------------------------------
(* Orderings tell rows apart *)

\* The ordering of a list names registered fields and no metrics, and the identity of
\* the root is among its terms.
LEMMA ListOrdering ==
  ASSUME NEW decl, NEW r, Registered(decl, r), NEW plan, Admitted(plan, r),
         plan.intent = "list"
  PROVE  LET ordering == BuildListOrdering(plan, r) IN
         /\ IsList(ordering)
         /\ \A i \in DOMAIN ordering :
              /\ ordering[i].metric = None
              /\ ordering[i].field # None => ordering[i].field \in Names(r.fields)
         /\ \E i \in DOMAIN ordering :
              ordering[i].field # None => Field(ordering[i].field, r).binding = <<r.identity>>
<1>. DEFINE default == [i \in DOMAIN r.defaultOrder |->
                          [field |-> r.defaultOrder[i].field, metric |-> None,
                           direction |-> r.defaultOrder[i].direction]]
            asked == IF plan.order # <<>> THEN plan.order ELSE default
            last == [field |-> None, metric |-> None, direction |-> "asc"]
            named == \E t \in ToSet(asked) : Field(t.field, r).binding = <<r.identity>>
            ordering == BuildListOrdering(plan, r)
            Term(t) == t.metric = None /\ (t.field # None => t.field \in Names(r.fields))
<1>1. /\ ShapeAccepted(plan) /\ ToSet(plan.select) \subseteq Names(r.fields)
      /\ \A t \in ToSet(plan.order) :
           IF t.field = None THEN t.metric \in ToSet(plan.metrics)
           ELSE t.metric = None /\ t.field \in ToSet(plan.select) \cup GroupNames(plan)
  BY AdmittedMembers
<1>2. ToSet(plan.metrics) = {} /\ GroupNames(plan) = {}
  BY <1>1 DEF ShapeAccepted, ToSet, GroupNames
<1>3. IsList(plan.order) /\ \A i \in DOMAIN plan.order : Term(plan.order[i])
  BY <1>1, <1>2 DEF Admitted, IsPlan, ToSet
<1>4. IsList(r.defaultOrder) /\ \A i \in DOMAIN r.defaultOrder :
        r.defaultOrder[i].field \in Names(r.fields)
  <2>1. r.defaultOrder = decl.defaultOrder /\ r.fields = Fields(decl)
    BY DEF Registered, BuildResource
  <2>2. IsList(decl.defaultOrder)
    BY DeclarationAssumption DEF Registered
  <2>3. DefaultOrderAccepted(decl.defaultOrder, Fields(decl))
    BY DEF Registered, DeclarationAccepted
  <2>. QED  BY <2>1, <2>2, <2>3 DEF DefaultOrderAccepted
<1>5. IsList(default) /\ \A i \in DOMAIN default : Term(default[i])
  <2>1. DOMAIN default = 1..Len(r.defaultOrder) /\ Len(r.defaultOrder) \in Nat
    BY <1>4 DEF IsList
  <2>2. Len(default) = Len(r.defaultOrder)
    BY <2>1
  <2>. QED  BY <1>4, <2>1, <2>2 DEF IsList
<1>. HIDE DEF default
<1>6. IsList(asked) /\ \A i \in DOMAIN asked : Term(asked[i])
  BY <1>3, <1>5
<1>7. ordering = IF named THEN asked ELSE Append(asked, last)
  BY DEF BuildListOrdering, default
<1>. HIDE DEF asked
<1>8. CASE named
  <2>1. PICK i \in DOMAIN asked : Field(asked[i].field, r).binding = <<r.identity>>
    BY <1>8 DEF ToSet
  <2>2. ordering = asked
    BY <1>7, <1>8
  <2>. HIDE DEF ordering
  <2>3. /\ IsList(ordering) /\ \A i_1 \in DOMAIN ordering : Term(ordering[i_1])
        /\ Field(ordering[i].field, r).binding = <<r.identity>> /\ i \in DOMAIN ordering
    BY <1>6, <2>1, <2>2
  <2>. QED  BY <2>3 DEF ordering
<1>9. CASE ~named
  <2>. DEFINE S == {asked[i] : i \in DOMAIN asked} \cup {last}
              n == Len(asked)
  <2>1. asked \in Seq(S)
    BY <1>6, ListIsSeq
  <2>. HIDE DEF S
  <2>2. last \in S
    BY DEF S
  <2>. HIDE DEF last
  <2>3. ordering = Append(asked, last)
    BY <1>7, <1>9
  <2>4. /\ ordering \in Seq(S) /\ n \in Nat /\ DOMAIN ordering = 1..n + 1
        /\ ordering[n + 1] = last /\ \A i \in 1..n : ordering[i] = asked[i] /\ i \in DOMAIN asked
    BY <2>1, <2>2, <2>3
  <2>. HIDE DEF ordering
  <2>5. IsList(ordering)
    BY <2>4, SeqIsList
  <2>6. Term(last) /\ last.field = None
    BY DEF last
  <2>7. \A i \in DOMAIN ordering : Term(ordering[i])
    BY <1>6, <2>4, <2>6
  <2>8. n + 1 \in DOMAIN ordering /\ ordering[n + 1].field = None
    BY <2>4, <2>6
  <2>. QED  BY <2>5, <2>7, <2>8 DEF ordering
<1>. QED  BY <1>8, <1>9

\* Every root has an identity, and it is no other's.
LEMMA RootsIdentified ==
  ASSUME NEW decl, NEW r, Registered(decl, r), NEW db \in Databases
  PROVE  /\ \A x \in db.roots : <<r.identity>> \in DOMAIN x.cells /\ x.cells[<<r.identity>>] \in Int
         /\ \A x, y \in db.roots :
              x.cells[<<r.identity>>] = y.cells[<<r.identity>>] => x = y
<1>. DEFINE identity == <<r.identity>>
<1>1. r.identity = RowIdentity(decl.model, decl.identity)
  BY RegisteredFields DEF Registered
<1>2. NullsHeld(db, decl) /\ IdentitiesHeld(db, decl)
  BY DatabaseAssumption DEF Registered
<1>3. /\ \A x \in db.roots : identity \in DOMAIN x.cells
      /\ \A x, y \in db.roots : x.cells[identity] = y.cells[identity] => x = y
  BY <1>1, <1>2 DEF IdentitiesHeld
<1>4. /\ ~Schema[decl.model][r.identity].null
      /\ Schema[decl.model][r.identity].kind \in {"column", "forward"}
  BY <1>1 DEF Registered, DeclarationAccepted, RowIdentityAccepted, UniqueColumn
<1>5. /\ Owners(decl.model, identity)[1] = decl.model
      /\ DOMAIN identity = {1} /\ identity[1] = r.identity
  <2>1. Len(identity) = 1 /\ DOMAIN identity = {1} /\ identity[1] = r.identity
    OBVIOUS
  <2>. DEFINE Owned(f) == f = [i \in 1..1 |-> IF i = 1 THEN decl.model ELSE
                            LET from == f[i - 1] IN
                            IF from # None /\ identity[i - 1] \in DOMAIN Schema[from]
                            THEN Schema[from][identity[i - 1]].to ELSE None]
              owner == CHOOSE f : Owned(f)
  <2>2. Owned([i \in 1..1 |-> decl.model])
    OBVIOUS
  <2>3. Owned(owner)
    <3>. HIDE DEF Owned
    <3>. QED  BY <2>2
  <2>4. owner[1] = decl.model
    <3>. HIDE DEF owner
    <3>. QED  BY <2>3
  <2>5. Owners(decl.model, identity) = owner
    BY <2>1 DEF Owners
  <2>. QED  BY <2>1, <2>4, <2>5
<1>. HIDE DEF identity
<1>6. ASSUME NEW x \in db.roots  PROVE x.cells[identity] \in Int
  <2>1. identity \in DOMAIN x.cells
    BY <1>3
  <2>2. /\ x.cells[identity] \in Int \cup {None}
        /\ x.cells[identity] = None =>
             \E i \in DOMAIN identity :
               \E step \in {Schema[Owners(decl.model, identity)[i]][identity[i]]} :
                 step.null \/ step.kind \notin {"column", "forward"}
    BY <1>2, <2>1 DEF NullsHeld
  <2>. QED  BY <1>4, <1>5, <2>2
<1>. QED  BY <1>3, <1>6 DEF identity

\* What the terms of an ordering compare of a row.
SortKeys(plan, row, ordering, r) ==
  [i \in DOMAIN ordering |-> SortKey(plan, row, ordering[i], r)]

Comparable == {<<v, 1>> : v \in Int} \cup {None}

\* They are numbers and nulls, and a term that compares identities reads the root's.
KeysTell(plan, row, ordering, r) ==
  \A i \in DOMAIN ordering :
    LET key == SortKey(plan, row, ordering[i], r) IN
    /\ key \in Comparable
    /\ (ordering[i].field # None => Field(ordering[i].field, r).binding = <<r.identity>>)
       => key = <<row.root.cells[<<r.identity>>], 1>>

\* So do those of a list.
LEMMA ListKeys ==
  ASSUME NEW decl, NEW r, Registered(decl, r), NEW db \in Databases, NEW plan,
         Admitted(plan, r), plan.intent = "list", NEW now,
         NEW row \in Ranged(plan, Compile(plan, now, r), db, r)
  PROVE  KeysTell(plan, row, Compile(plan, now, r).ordering, r)
<1>. DEFINE compiled == Compile(plan, now, r)
            ordering == compiled.ordering
            identity == row.root.cells[<<r.identity>>]
<1>1. ordering = BuildListOrdering(plan, r)
  BY DEF Compile
<1>2. FiniteTables(db) /\ IsPlan(plan)
  BY DatabaseAssumption DEF FiniteTables, Admitted
<1>3. row.root \in db.roots
  <2>. HIDE DEF compiled
  <2>1. row \in RowsOf(db)
    BY <1>2, RangedJoins DEF compiled
  <2>. QED  BY <2>1 DEF RowsOf
<1>4. <<r.identity>> \in DOMAIN row.root.cells /\ identity \in Int /\ identity # None
  BY <1>3, RootsIdentified, LimitAssumption
<1>5. ASSUME NEW i \in DOMAIN ordering
      PROVE  /\ SortKey(plan, row, ordering[i], r) \in Comparable
             /\ (ordering[i].field # None =>
                   Field(ordering[i].field, r).binding = <<r.identity>>)
                => SortKey(plan, row, ordering[i], r) = <<identity, 1>>
  <2>. DEFINE t == ordering[i]
              value == IF t.field = None THEN identity ELSE Cell(row, Field(t.field, r).binding)
  <2>1. t.metric = None /\ (t.field # None => t.field \in Names(r.fields))
    BY <1>1, ListOrdering
  <2>2. t.field # None => t.field \in UsedNames(plan, compiled)
    BY DEF UsedNames, ToSet
  <2>. HIDE DEF compiled
  <2>3. t.field # None => Cell(row, Field(t.field, r).binding) \in Int \cup {None}
    BY <2>1, <2>2, RangedCells DEF compiled
  <2>4. value \in Int \cup {None}
    BY <1>4, <2>3
  <2>. HIDE DEF identity, t, ordering
  <2>5. SortKey(plan, row, t, r) = IF value = None THEN value ELSE <<value, 1>>
    BY <2>1 DEF SortKey, identity
  <2>6. (t.field # None => Field(t.field, r).binding = <<r.identity>>) => value = identity
    BY <1>4 DEF Cell, identity
  <2>. HIDE DEF value
  <2>7. SortKey(plan, row, t, r) \in Comparable
    BY <2>4, <2>5 DEF Comparable
  <2>. QED  BY <1>4, <2>5, <2>6, <2>7 DEF t
<1>. HIDE DEF ordering, identity, compiled
<1>. QED  BY <1>5 DEF ordering, identity, compiled, KeysTell

\* The rows of a list by their sort keys; rows of one key have one root.
LEMMA ListSorted ==
  ASSUME NEW decl, NEW r, Registered(decl, r), NEW db \in Databases, NEW plan,
         Admitted(plan, r), plan.intent = "list", NEW now
  PROVE  LET compiled == Compile(plan, now, r)
             rows == Ranged(plan, compiled, db, r)
             key == [row \in rows |-> SortKeys(plan, row, compiled.ordering, r)]
         IN /\ Sorted(rows, compiled.ordering, key, key)
            /\ \A a, b \in rows : key[a] = key[b] => a.root = b.root
<1>. DEFINE compiled == Compile(plan, now, r)
            ordering == compiled.ordering
            rows == Ranged(plan, compiled, db, r)
            keys(row) == SortKeys(plan, row, ordering, r)
            key == [row \in rows |-> keys(row)]
<1>1. /\ IsList(ordering)
      /\ \E i \in DOMAIN ordering :
           ordering[i].field # None => Field(ordering[i].field, r).binding = <<r.identity>>
  BY ListOrdering DEF Compile
<1>2. ASSUME NEW row \in rows
      PROVE  /\ \A i \in DOMAIN ordering : keys(row)[i] \in Comparable
             /\ \A i \in DOMAIN ordering :
                  (ordering[i].field # None =>
                     Field(ordering[i].field, r).binding = <<r.identity>>)
                  => keys(row)[i] = <<row.root.cells[<<r.identity>>], 1>>
  <2>1. KeysTell(plan, row, ordering, r)
    BY ListKeys
  <2>. HIDE DEF ordering
  <2>. QED  BY <2>1 DEF KeysTell, SortKeys
<1>3. ASSUME NEW row \in rows
      PROVE  /\ DOMAIN keys(row) = DOMAIN ordering
             /\ keys(row) = [i \in DOMAIN ordering |-> keys(row)[i]]
  BY DEF SortKeys
<1>4. ASSUME NEW row \in rows  PROVE row.root \in db.roots
  <2>1. FiniteTables(db) /\ IsPlan(plan)
    BY DatabaseAssumption DEF FiniteTables, Admitted
  <2>. HIDE DEF compiled
  <2>2. row \in RowsOf(db)
    BY <2>1, RangedJoins
  <2>. QED  BY <2>2 DEF RowsOf
<1>. HIDE DEF keys, rows, ordering
<1>5. ASSUME NEW a \in rows, NEW b \in rows, keys(a) # keys(b)
      PROVE  Before(keys(a), keys(b), ordering) \/ Before(keys(b), keys(a), ordering)
  <2>1. PICK i \in DOMAIN ordering : keys(a)[i] # keys(b)[i]
    BY <1>3, <1>5
  <2>2. keys(a)[i] \in Comparable /\ keys(b)[i] \in Comparable
    BY <1>2
  <2>3. ~Tied(keys(a)[i], keys(b)[i], ordering[i].direction)
    BY <2>1, <2>2, NumbersDiffer DEF Comparable
  <2>. QED  BY <1>1, <2>3, TellsApart
<1>6. ASSUME NEW a \in rows, NEW b \in rows, keys(a) = keys(b)
      PROVE  a.root = b.root
  <2>1. PICK i \in DOMAIN ordering :
          ordering[i].field # None => Field(ordering[i].field, r).binding = <<r.identity>>
    BY <1>1
  <2>2. /\ keys(a)[i] = <<a.root.cells[<<r.identity>>], 1>>
        /\ keys(b)[i] = <<b.root.cells[<<r.identity>>], 1>>
    BY <1>2, <2>1
  <2>3. a.root.cells[<<r.identity>>] = b.root.cells[<<r.identity>>]
    BY <1>6, <2>2
  <2>. QED  BY <1>4, <2>3, RootsIdentified
<1>7. Sorted(rows, ordering, key, key)
  BY <1>5 DEF Sorted
<1>. QED  BY <1>6, <1>7 DEF keys, rows, ordering

\* The ordering of an aggregate has a term for every key of its groups.
LEMMA GroupedOrdering ==
  ASSUME NEW decl, NEW r, Registered(decl, r), NEW plan, Admitted(plan, r)
  PROVE  LET ordering == BuildGroupedOrdering(plan) IN
         /\ IsList(ordering)
         /\ \A n \in GroupNames(plan) : n # None /\
              \E i \in DOMAIN ordering : ordering[i].field = n /\ ordering[i].metric = None
         /\ \A i \in DOMAIN ordering :
              ordering[i].field \in {t.field : t \in ToSet(plan.order)} \cup GroupNames(plan)
<1>. DEFINE ordered == {t.field : t \in ToSet(plan.order)}
            K == {i \in DOMAIN plan.group : plan.group[i].field \notin ordered}
            keys == AtPositions(plan.group, K)
            terms == [i \in DOMAIN keys |->
                        [field |-> keys[i].field, metric |-> None, direction |-> "asc"]]
            ordering == BuildGroupedOrdering(plan)
<1>1. IsList(plan.order) /\ IsList(plan.group)
  BY DEF Admitted, IsPlan
<1>2. ordering = plan.order \o terms
  BY DEF BuildGroupedOrdering, Those
<1>3. /\ IsList(keys) /\ \A i \in K : \E n \in DOMAIN keys : keys[n] = plan.group[i]
      /\ \A n \in DOMAIN keys : \E i \in K : keys[n] = plan.group[i]
  BY <1>1, SelectionOfList
<1>4. GroupNames(plan) \subseteq Names(r.fields)
      /\ \A t \in ToSet(plan.order) : t.field # None => t.metric = None
  BY AdmittedMembers
<1>5. \A n \in GroupNames(plan) : n # None
  BY <1>4, FoundMember, FieldCrosses
<1>. HIDE DEF keys
<1>6. /\ IsList(terms) /\ DOMAIN terms = DOMAIN keys
      /\ \A i \in DOMAIN keys : terms[i].field = keys[i].field /\ terms[i].metric = None
  <2>1. DOMAIN terms = 1..Len(keys) /\ Len(keys) \in Nat
    BY <1>3 DEF IsList
  <2>2. Len(terms) = Len(keys)
    BY <2>1
  <2>. QED  BY <2>1, <2>2 DEF IsList
<1>. DEFINE S == {plan.order[i] : i \in DOMAIN plan.order} \cup {terms[i] : i \in DOMAIN terms}
<1>7. plan.order \in Seq(S) /\ terms \in Seq(S)
  <2>. HIDE DEF terms
  <2>. QED  BY <1>1, <1>6, ListIsSeq
<1>. HIDE DEF S, terms, ordering
<1>8. /\ ordering \in Seq(S) /\ Len(plan.order) \in Nat /\ Len(terms) \in Nat
      /\ DOMAIN ordering = 1..Len(plan.order) + Len(terms)
      /\ DOMAIN plan.order = 1..Len(plan.order) /\ DOMAIN terms = 1..Len(terms)
      /\ \A i \in 1..Len(plan.order) : ordering[i] = plan.order[i]
      /\ \A i \in 1..Len(terms) : ordering[Len(plan.order) + i] = terms[i]
  BY <1>2, <1>7
<1>9. ASSUME NEW n \in GroupNames(plan)
      PROVE  \E i \in DOMAIN ordering : ordering[i].field = n /\ ordering[i].metric = None
  <2>1. CASE n \in ordered
    <3>1. PICK i \in DOMAIN plan.order : plan.order[i].field = n
      BY <2>1 DEF ToSet
    <3>2. plan.order[i].metric = None
      BY <1>4, <1>5, <3>1 DEF ToSet
    <3>. QED  BY <1>8, <3>1, <3>2
  <2>2. CASE n \notin ordered
    <3>1. PICK i \in DOMAIN plan.group : plan.group[i].field = n
      BY DEF GroupNames, ToSet
    <3>2. PICK m \in DOMAIN keys : keys[m] = plan.group[i]
      BY <1>3, <2>2, <3>1
    <3>3. terms[m].field = n /\ terms[m].metric = None /\ m \in DOMAIN terms
      BY <1>6, <3>1, <3>2
    <3>4. Len(plan.order) + m \in DOMAIN ordering /\ ordering[Len(plan.order) + m] = terms[m]
      BY <1>8, <3>3
    <3>. QED  BY <3>3, <3>4
  <2>. QED  BY <2>1, <2>2
<1>10. ASSUME NEW i \in DOMAIN ordering
       PROVE  ordering[i].field \in ordered \cup GroupNames(plan)
  <2>1. CASE i \in 1..Len(plan.order)
    BY <1>8, <2>1 DEF ToSet
  <2>2. CASE i \notin 1..Len(plan.order)
    <3>1. PICK m \in 1..Len(terms) : i = Len(plan.order) + m
      <4>1. i - Len(plan.order) \in 1..Len(terms) /\ i = Len(plan.order) + (i - Len(plan.order))
        BY <1>8, <2>2
      <4>. QED  BY <4>1
    <3>2. ordering[i] = terms[m] /\ m \in DOMAIN keys
      BY <1>6, <1>8, <3>1
    <3>3. PICK j \in DOMAIN plan.group : keys[m] = plan.group[j]
      BY <1>3, <3>2
    <3>4. plan.group[j].field \in GroupNames(plan)
      BY DEF GroupNames, ToSet
    <3>. QED  BY <1>6, <3>2, <3>3, <3>4
  <2>. QED  BY <2>1, <2>2
<1>. QED  BY <1>5, <1>8, <1>9, <1>10, SeqIsList DEF ordering

\* The rows of an aggregate differ in the key of their group, which tells them apart.
LEMMA GroupsSorted ==
  ASSUME NEW decl, NEW r, Registered(decl, r), NEW db \in Databases, NEW plan,
         Admitted(plan, r), plan.intent # "list", NEW now, NEW compiled,
         compiled = Compile(plan, now, r)
  PROVE  LET all == Answers(plan, compiled, db, r) IN
         Sorted(all, compiled.ordering,
                [a \in all |-> SortKeys(plan, a, compiled.ordering, r)], [a \in all |-> a])
<1>. DEFINE ordering == compiled.ordering
            rows == Ranged(plan, compiled, db, r)
            all == Answers(plan, compiled, db, r)
            key == [a \in all |-> SortKeys(plan, a, ordering, r)]
            names == GroupNames(plan)
<1>1. ordering = BuildGroupedOrdering(plan)
  BY DEF Compile
<1>2. /\ IsList(ordering)
      /\ \A n \in names : n # None /\
           \E i \in DOMAIN ordering : ordering[i].field = n /\ ordering[i].metric = None
  BY <1>1, GroupedOrdering
<1>3. all = {GroupRow(plan, k, rows, r) : k \in Keys(plan, rows, r)}
  BY AnswersOf
<1>4. ASSUME NEW k \in Keys(plan, rows, r)
      PROVE  k = [n \in names |-> k[n]] /\ \A n \in names : k[n] \in Int \cup {None}
  <2>1. CASE \E row \in rows : k = GroupedBy(plan, row, r)
    <3>1. PICK row \in rows : k = GroupedBy(plan, row, r)
      BY <2>1
    <3>. DEFINE group(n) == CHOOSE g \in ToSet(plan.group) : g.field = n
    <3>2. k = [n \in names |-> GroupKey(group(n), row, r)]
      BY <3>1 DEF GroupedBy
    <3>3. ASSUME NEW n \in names  PROVE k[n] \in Int \cup {None}
      <4>1. \E g \in ToSet(plan.group) : g.field = n
        BY DEF GroupNames
      <4>2. group(n) \in ToSet(plan.group)
        BY <4>1
      <4>3. k[n] = GroupKey(group(n), row, r)
        BY <3>2
      <4>. HIDE DEF group, names
      <4>. QED  BY <4>2, <4>3, GroupKeyHeld
    <3>. HIDE DEF group, names
    <3>. QED  BY <3>2, <3>3
  <2>2. CASE plan.group = <<>> /\ k = [n \in {} |-> n]
    <3>1. names = {}
      BY <2>2 DEF GroupNames, ToSet
    <3>. HIDE DEF names
    <3>. QED  BY <2>2, <3>1
  <2>. QED  BY <2>1, <2>2 DEF Keys
<1>. HIDE DEF rows, names, ordering, all
<1>5. ASSUME NEW a \in all, NEW b \in all, a # b
      PROVE  Before(key[a], key[b], ordering) \/ Before(key[b], key[a], ordering)
  <2>1. PICK k \in Keys(plan, rows, r) : a = GroupRow(plan, k, rows, r)
    BY <1>3
  <2>2. PICK m \in Keys(plan, rows, r) : b = GroupRow(plan, m, rows, r)
    BY <1>3
  <2>3. a.key = k /\ b.key = m
    BY <2>1, <2>2 DEF GroupRow, AggregateRow
  <2>4. k # m
    BY <1>5, <2>1, <2>2
  <2>5. PICK n \in names : k[n] # m[n]
    BY <1>4, <2>4
  <2>6. PICK i \in DOMAIN ordering : ordering[i].field = n /\ ordering[i].metric = None
    BY <1>2
  <2>7. n # None
    BY <1>2
  <2>8. ASSUME NEW row
        PROVE  SortKey(plan, row, ordering[i], r) =
                 IF row.key[n] = None THEN None ELSE <<row.key[n], 1>>
    BY <2>6, <2>7 DEF SortKey
  <2>9. /\ key[a][i] = IF k[n] = None THEN None ELSE <<k[n], 1>>
        /\ key[b][i] = IF m[n] = None THEN None ELSE <<m[n], 1>>
    BY <2>3, <2>8 DEF SortKeys
  <2>10. k[n] \in Int \cup {None} /\ m[n] \in Int \cup {None}
    BY <1>4
  <2>. HIDE DEF key
  <2>11. key[a][i] \in Comparable /\ key[b][i] \in Comparable
    BY <2>9, <2>10 DEF Comparable
  <2>12. key[a][i] # key[b][i]
    <3>1. \A v \in Int : <<v, 1>> # None
      BY NullAssumption
    <3>2. \A v, w \in Int : v # w => <<v, 1>> # <<w, 1>>
      OBVIOUS
    <3>. QED  BY <2>5, <2>9, <2>10, <3>1, <3>2
  <2>13. ~Tied(key[a][i], key[b][i], ordering[i].direction)
    BY <2>11, <2>12, NumbersDiffer DEF Comparable
  <2>. QED  BY <1>2, <2>13, TellsApart
<1>. HIDE DEF key
<1>. QED  BY <1>5 DEF Sorted, key, ordering, all

\* Rows of a list that have one root are shown alike, unless a selected field is read
\* across the to-many relationship.
LEMMA ShownAlike ==
  ASSUME NEW decl, NEW r, Registered(decl, r), NEW db \in Databases, NEW plan,
         Admitted(plan, r), plan.intent = "list",
         \A n \in ToSet(plan.select) : Field(n, r).many = {},
         NEW a \in RowsOf(db), NEW b \in RowsOf(db), a.root = b.root
  PROVE  PublicRow(plan, a, r) = PublicRow(plan, b, r)
<1>1. ToSet(plan.select) \subseteq Names(r.fields)
  BY AdmittedMembers
<1>2. ASSUME NEW n \in ToSet(plan.select)
      PROVE  Cell(a, Field(n, r).binding) = Cell(b, Field(n, r).binding)
  <2>1. Field(n, r) \in ToSet(r.fields) /\ Field(n, r).many = {}
    BY <1>1, FoundMember DEF Field
  <2>2. Field(n, r).binding \in Paths(r) /\ ~CrossesMany(Field(n, r).binding, r)
    BY <2>1, FieldCrosses DEF Paths
  <2>3. a.root \in db.roots
    BY DEF RowsOf
  <2>4. Field(n, r).binding \in DOMAIN a.root.cells
    BY <2>2, <2>3, PathHeld
  <2>. QED  BY <2>4 DEF Cell
<1>. QED  BY <1>2 DEF PublicRow

-----------------------------------------------------------------------------
(* The contract of the cells *)

\* No metric is an enumeration.
LEMMA MetricNeverEnum ==
  ASSUME NEW decl, NEW r, Registered(decl, r), NEW k \in ToSet(r.metrics)
  PROVE  k.resultType # "enum"
<1>1. PICK metric \in ToSet(decl.metrics) :
        k = BuildMetric(decl.model, metric) /\ MetricAccepted(decl.model, metric)
  BY RegisteredFields DEF Registered
<1>. DEFINE path == metric.binding
            b == ResolveFieldPath(decl.model, path)
            owner == Owners(decl.model, path)
            n == Len(path)
            type == GetFieldType(b.column)
<1>2. b.found /\ MetricResultType(metric, type) /\ metric.op \in MetricOps
  BY <1>1 DEF MetricAccepted, MetricWellFormed
<1>3. k.resultType = metric.resultType
  BY <1>1 DEF BuildMetric
<1>4. type # "enum"
  <2>. HIDE DEF owner
  <2>1. n > 0 /\ Leads(owner, path)
    BY <1>2 DEF ResolveFieldPath, owner
  <2>2. b.column = Schema[owner[n]][path[n]]
    BY <2>1 DEF ResolveFieldPath, owner
  <2>3. owner[n] \in DOMAIN Schema /\ path[n] \in DOMAIN Schema[owner[n]]
    <3>1. CASE n \in DOMAIN path
      BY <2>1, <3>1 DEF Leads
    <3>2. CASE n \notin DOMAIN path
      BY <2>1, <3>2
    <3>. QED  BY <3>1, <3>2
  <2>4. b.column.kind = "column" => b.column.class \in DOMAIN ClassType
    BY <2>2, <2>3, ClassAssumption
  <2>5. \A x \in DOMAIN ClassType : ClassType[x] # "enum"
    BY DEF ClassType
  <2>. HIDE DEF b
  <2>. QED  BY <2>4, <2>5 DEF GetFieldType
<1>. HIDE DEF type
<1>. QED  BY <1>2, <1>3, <1>4 DEF MetricResultType, NumericTypes, MetricOps

\* A field that may be null says so: what makes its cells null, a null of a column or a
\* foreign key or a join that found no row, is on its path.
LEMMA NullDeclared ==
  ASSUME NEW decl, NEW r, Registered(decl, r), NEW db \in Databases, NEW f \in ToSet(r.fields),
         \/ CrossesMany(f.binding, r)
         \/ \E t \in db.roots \cup db.children :
              f.binding \in DOMAIN t.cells /\ t.cells[f.binding] = None
  PROVE  f.nullable
<1>. SUFFICES ASSUME ~f.nullable PROVE FALSE
  OBVIOUS
<1>1. /\ CrossesMany(f.binding, r) <=> f.many # {}
      /\ f.many = ResolveFieldPath(r.model, f.binding).many
      /\ ResolveFieldPath(r.model, f.binding).found
      /\ \E config \in ToSet(decl.fields) :
           /\ config.binding = f.binding /\ config.type = f.type
           /\ config.nullable = f.nullable /\ FieldAccepted(r.model, config)
           /\ IsList(config.binding)
  BY FieldCrosses
<1>2. PICK config \in ToSet(decl.fields) :
        /\ config.binding = f.binding /\ ~config.nullable /\ FieldAccepted(r.model, config)
        /\ IsList(config.binding)
  BY <1>1
<1>3. r.model = decl.model
  BY RegisteredFields DEF Registered
<1>. DEFINE path == f.binding
            owner == Owners(decl.model, path)
            step(j) == Schema[owner[j]][path[j]]
            n == Len(path)
<1>4. ASSUME NEW j \in DOMAIN path  PROVE ~step(j).null /\ step(j).kind \in {"column", "forward"}
  BY <1>2, <1>3, BindingNeverEmpty
<1>5. CASE f.many # {}
  <2>. DEFINE columns == [i \in 1..n |-> step(i)]
              joined == {i \in 1..n : i < n \/ columns[i].kind \notin {"column", "forward"}}
              many == {SubSeq(path, 1, i) : i \in {j \in joined : ToMany(columns[j])}}
  <2>. HIDE DEF owner
  <2>1. n > 0 /\ Leads(owner, path)
    BY <1>1, <1>3 DEF ResolveFieldPath, owner
  <2>2. f.many = many
    BY <1>1, <1>3, <2>1 DEF ResolveFieldPath, owner
  <2>3. PICK j \in joined : ToMany(columns[j])
    BY <1>5, <2>2
  <2>4. j \in DOMAIN path /\ columns[j] = step(j)
    BY <1>2 DEF IsList
  <2>. HIDE DEF step, columns
  <2>. QED  BY <1>4, <2>3, <2>4 DEF ToMany
<1>6. CASE \E t \in db.roots \cup db.children : path \in DOMAIN t.cells /\ t.cells[path] = None
  <2>1. PICK t \in db.roots \cup db.children : path \in DOMAIN t.cells /\ t.cells[path] = None
    BY <1>6
  <2>2. NullsHeld(db, decl)
    BY DatabaseAssumption DEF Registered
  <2>3. \E i \in DOMAIN path : step(i).null \/ step(i).kind \notin {"column", "forward"}
    BY <2>1, <2>2 DEF NullsHeld
  <2>. HIDE DEF step
  <2>. QED  BY <1>4, <2>3
<1>. QED  BY <1>1, <1>5, <1>6

\* A count is never a null.
LEMMA CountIsNumber ==
  ASSUME NEW k, k.op = "count", NEW rows, IsFiniteSet(rows)
  PROVE  Aggregated(k, rows) # None
<1>. DEFINE filled == Filled(k, rows)
            path == MetricPath(k)
            cell == [row \in filled |-> Cell(row, path)]
<1>1. IsFiniteSet(filled)
  <2>1. filled \in SUBSET rows
    BY DEF Filled
  <2>. HIDE DEF filled
  <2>. QED  BY <2>1, FS_Subset
<1>2. IsFiniteSet({cell[row] : row \in filled})
  <2>. HIDE DEF filled, cell
  <2>. QED  BY <1>1, ImageFinite
<1>3. {cell[row] : row \in filled} = {Cell(row, path) : row \in filled}
  <2>. HIDE DEF filled, path
  <2>. QED  OBVIOUS
<1>4. Aggregated(k, rows) = IF k.policy = "count_distinct"
                            THEN Cardinality({Cell(row, path) : row \in filled})
                            ELSE Cardinality(filled)
  <2>1. Aggregated(k, rows) = AggregateOf(k, filled)
    BY DEF Aggregated
  <2>. HIDE DEF filled
  <2>. QED  BY <2>1 DEF AggregateOf
<1>. HIDE DEF filled, path
<1>5. Cardinality({Cell(row, path) : row \in filled}) \in Nat /\ Cardinality(filled) \in Nat
  BY <1>1, <1>2, <1>3, FS_CardinalityType
<1>. QED  BY <1>4, <1>5, LimitAssumption

\* The tables hold a value that a column of an enumeration does not register.
Unregistered(c, db, r) ==
  /\ c.type = "enum"
  /\ \E row \in db.roots \cup db.children : \E p \in DOMAIN row.cells :
       p = Field(c.key, r).binding /\ row.cells[p] \notin c.enum \cup {None}

\* What a field shows of a row of the query, its cell or the key of a group made from
\* it, keeps to the contract of its column.
LEMMA FieldShown ==
  ASSUME NEW decl, NEW r, Registered(decl, r), NEW db \in Databases, NEW plan,
         Admitted(plan, r), NEW compiled, NEW row \in Ranged(plan, compiled, db, r),
         NEW n \in UsedNames(plan, compiled), n \in Names(r.fields), n \notin ToSet(plan.metrics),
         NEW shown, shown = None <=> Cell(row, Field(n, r).binding) = None,
         Field(n, r).type \notin DateTypes => shown = Cell(row, Field(n, r).binding)
  PROVE  CellAccepted(Column(plan, n, r), shown) \/ Unregistered(Column(plan, n, r), db, r)
<1>. DEFINE f == Field(n, r)
            cell == Cell(row, f.binding)
            c == Column(plan, n, r)
<1>1. f \in ToSet(r.fields)
  BY FoundMember DEF Field
<1>2. /\ c.key = n /\ c.type = f.type /\ c.nullable = f.nullable
  BY DEF Column
<1>3. \/ CrossesMany(f.binding, r) /\ cell = None
      \/ \E t \in db.roots \cup db.children :
           f.binding \in DOMAIN t.cells /\ cell = t.cells[f.binding]
  BY RangedCells
<1>4. CASE shown = None
  <2>1. cell = None
    BY <1>4
  <2>. HIDE DEF cell, f
  <2>2. f.nullable
    BY <1>1, <1>3, <2>1, NullDeclared
  <2>. HIDE DEF c
  <2>. QED  BY <1>2, <1>4, <2>2 DEF CellAccepted, c
<1>5. CASE shown # None /\ f.type = "enum"
  <2>1. shown = cell
    BY <1>5 DEF DateTypes
  <2>2. PICK t \in db.roots \cup db.children :
               f.binding \in DOMAIN t.cells /\ cell = t.cells[f.binding]
    BY <1>3, <1>5, <2>1
  <2>. HIDE DEF cell, c
  <2>3. CASE cell \in c.enum
    BY <1>5, <2>1, <2>3 DEF CellAccepted, c
  <2>4. CASE cell \notin c.enum
    <3>1. c.type = "enum" /\ Field(c.key, r) = f
      BY <1>2, <1>5
    <3>. HIDE DEF f
    <3>2. Unregistered(c, db, r)
      BY <1>5, <2>1, <2>2, <2>4, <3>1 DEF Unregistered
    <3>. QED  BY <3>2 DEF c
  <2>. QED  BY <2>3, <2>4
<1>6. CASE shown # None /\ f.type # "enum"
  <2>. HIDE DEF c, f
  <2>. QED  BY <1>2, <1>6 DEF CellAccepted, c
<1>. QED  BY <1>4, <1>5, <1>6

\* Every answer is shown with the columns of the plan, and every cell keeps to its
\* contract unless the tables hold an unregistered value.
LEMMA AnswerShown ==
  ASSUME NEW decl, NEW r, Registered(decl, r), NEW db \in Databases, NEW plan,
         Admitted(plan, r), NEW compiled, NEW a \in Answers(plan, compiled, db, r)
  PROVE  /\ DOMAIN PublicRow(plan, a, r) = {c.key : c \in Columns(plan, r)}
         /\ \A c \in Columns(plan, r) :
              CellAccepted(c, PublicRow(plan, a, r)[c.key]) \/ Unregistered(c, db, r)
<1>. DEFINE row == PublicRow(plan, a, r)
            rows == Ranged(plan, compiled, db, r)
            names == ToSet(plan.select) \cup GroupNames(plan) \cup ToSet(plan.metrics)
            Kept(n) == \/ CellAccepted(Column(plan, n, r), row[n])
                       \/ Unregistered(Column(plan, n, r), db, r)
<1>1. /\ ShapeAccepted(plan) /\ ToSet(plan.select) \subseteq Names(r.fields)
      /\ GroupNames(plan) \subseteq Names(r.fields)
      /\ ToSet(plan.metrics) \subseteq Names(r.metrics)
  BY AdmittedMembers
<1>2. /\ Columns(plan, r) = {Column(plan, n, r) : n \in names}
      /\ \A n : Column(plan, n, r).key = n
  BY DEF Columns, Column
<1>3. {c.key : c \in Columns(plan, r)} = names
  BY <1>2
<1>4. CASE plan.intent = "list"
  <2>1. ToSet(plan.metrics) = {} /\ GroupNames(plan) = {}
    BY <1>1, <1>4 DEF ShapeAccepted, ToSet, GroupNames
  <2>2. row = [n \in ToSet(plan.select) |-> Cell(a, Field(n, r).binding)]
    BY <1>4 DEF PublicRow
  <2>3. DOMAIN row = names
    BY <2>1, <2>2
  <2>4. a \in rows
    BY <1>4, AnswersOf
  <2>5. ASSUME NEW n \in names  PROVE Kept(n)
    <3>1. n \in ToSet(plan.select) /\ n \in Names(r.fields) /\ n \notin ToSet(plan.metrics)
      BY <1>1, <2>1
    <3>2. n \in UsedNames(plan, compiled) /\ row[n] = Cell(a, Field(n, r).binding)
      BY <2>2, <3>1 DEF UsedNames
    <3>. HIDE DEF row, names
    <3>. QED  BY <2>4, <3>1, <3>2, FieldShown
  <2>. HIDE DEF row, names
  <2>. QED  BY <1>2, <1>3, <2>3, <2>5 DEF row
<1>5. CASE plan.intent # "list"
  <2>1. ToSet(plan.select) = {}
    BY <1>1, <1>5 DEF ShapeAccepted, ToSet
  <2>2. row = [n \in GroupNames(plan) \cup ToSet(plan.metrics) |->
                 IF n \in ToSet(plan.metrics) THEN a.metrics[n] ELSE a.key[n]]
    BY <1>5 DEF PublicRow
  <2>3. DOMAIN row = names
    BY <2>1, <2>2
  <2>4. PICK k \in Keys(plan, rows, r) : a = GroupRow(plan, k, rows, r)
    BY <1>5, AnswersOf
  <2>. DEFINE members == {x \in rows : GroupedBy(plan, x, r) = k}
  <2>5. a.key = k /\ \A n \in ToSet(plan.metrics) :
                       a.metrics[n] = Aggregated(Metric(n, r), members)
    BY <2>4 DEF GroupRow, AggregateRow
  <2>6. IsFiniteSet(members)
    <3>1. FiniteTables(db) /\ IsPlan(plan)
      BY DatabaseAssumption DEF FiniteTables, Admitted
    <3>2. IsFiniteSet(rows)
      BY <3>1, RangedIsTable DEF Tables
    <3>3. members \in SUBSET rows
      OBVIOUS
    <3>. HIDE DEF members, rows
    <3>. QED  BY <3>2, <3>3, FS_Subset
  <2>7. ASSUME NEW n \in ToSet(plan.metrics)  PROVE Kept(n)
    <3>. DEFINE metric == Metric(n, r)
    <3>1. metric \in ToSet(r.metrics)
      BY <1>1, FoundMember DEF Metric
    <3>. HIDE DEF metric
    <3>2. metric.resultType # "enum"
      BY <3>1, MetricNeverEnum
    <3>3. Column(plan, n, r).type = metric.resultType
          /\ Column(plan, n, r).nullable = (metric.op # "count")
      BY DEF Column, metric
    <3>4. row[n] = Aggregated(metric, members)
      BY <2>2, <2>5 DEF metric
    <3>5. metric.op = "count" => row[n] # None
      <4>. HIDE DEF members, row
      <4>. QED  BY <2>6, <3>4, CountIsNumber
    <3>. HIDE DEF row, members
    <3>. QED  BY <3>2, <3>3, <3>5 DEF CellAccepted
  <2>8. ASSUME NEW n \in GroupNames(plan), n \notin ToSet(plan.metrics)  PROVE Kept(n)
    <3>. DEFINE group(m) == CHOOSE g \in ToSet(plan.group) : g.field = m
    <3>1. plan.group # <<>>
      BY <2>8 DEF GroupNames, ToSet
    <3>2. PICK x \in rows : k = GroupedBy(plan, x, r)
      BY <3>1 DEF Keys
    <3>3. group(n) \in ToSet(plan.group) /\ group(n).field = n
      BY DEF GroupNames
    <3>4. row[n] = GroupKey(group(n), x, r)
      BY <2>2, <2>5, <2>8, <3>2 DEF GroupedBy
    <3>5. n \in UsedNames(plan, compiled) /\ n \in Names(r.fields)
      BY <1>1 DEF UsedNames
    <3>. HIDE DEF group, row, rows, members, names
    <3>6. /\ row[n] = None <=> Cell(x, Field(n, r).binding) = None
          /\ Field(n, r).type \notin DateTypes => row[n] = Cell(x, Field(n, r).binding)
      BY <3>3, <3>4, GroupKeyHeld DEF rows
    <3>. QED  BY <2>8, <3>5, <3>6, FieldShown DEF rows
  <2>9. \A n \in names : Kept(n)
    <3>. HIDE DEF Kept
    <3>. QED  BY <2>1, <2>7, <2>8
  <2>. HIDE DEF row, names
  <2>. QED  BY <1>2, <1>3, <2>3, <2>9 DEF row
<1>. QED  BY <1>4, <1>5

-----------------------------------------------------------------------------
(* The rows a metric ranges over *)

\* What a filter asks of a row.
Meets(filter, window, row, resource) ==
  IF filter.op = "neq"
  THEN /\ Cell(row, Field(filter.field, resource).binding) # None
       /\ ~Matches(filter, window, row, resource)
  ELSE Matches(filter, window, row, resource)

\* The last join of a row found a child.
HasChild(row) == row.joins[Len(row.joins)] # NoChild

\* A filter on the roots keeps the rows that meet it.
LEMMA RootFilter ==
  ASSUME NEW db, NEW rows, NEW filter, NEW window, NEW r, Field(filter.field, r).many = {}
  PROVE  ApplyFilter(db, rows, filter, window, r) =
           {row \in rows : Meets(filter, window, row, r)}
BY DEF ApplyFilter, Meets

\* A filter on the children joins them first.
LEMMA ChildFilter ==
  ASSUME NEW db, NEW rows, NEW filter, NEW window, NEW r, Field(filter.field, r).many # {},
         filter.op # "neq"
  PROVE  \E joined \in {InnerJoin(db, rows), OuterJoin(db, rows)} :
           ApplyFilter(db, rows, filter, window, r) =
             {row \in joined : Meets(filter, window, row, r)}
<1>. DEFINE joined == IF filter.op = "isnull" /\ filter.value.items[1].value = 1
                      THEN OuterJoin(db, rows) ELSE InnerJoin(db, rows)
<1>1. ApplyFilter(db, rows, filter, window, r) =
        {row \in joined : Matches(filter, window, row, r)}
  BY DEF ApplyFilter
<1>2. joined \in {InnerJoin(db, rows), OuterJoin(db, rows)}
  OBVIOUS
<1>3. \A row : Meets(filter, window, row, r) <=> Matches(filter, window, row, r)
  BY DEF Meets
<1>. HIDE DEF joined
<1>. QED  BY <1>1, <1>2, <1>3

\* Of the rows of a join those with a child are the pairs of a root and a child.
LEMMA JoinedChildren ==
  ASSUME NEW db, NoChild \notin db.children, NEW rows \in SUBSET RowsOf(db),
         NEW joined \in {InnerJoin(db, rows), OuterJoin(db, rows)}, NEW row
  PROVE  /\ row \in joined => row.joins # <<>>
         /\ row \in joined /\ HasChild(row) <=> row \in InnerJoin(db, rows)
<1>1. ASSUME NEW x \in rows, NEW c \in db.children \cup {NoChild}
      PROVE  Extended(x, c).joins # <<>> /\ (HasChild(Extended(x, c)) <=> c # NoChild)
  <2>1. x \in RowsOf(db) /\ x.joins \in Seq(db.children \cup {NoChild})
    BY DEF RowsOf
  <2>2. Extended(x, c).joins = Append(x.joins, c)
    BY <2>1, ExtendedRow
  <2>3. Append(x.joins, c) # <<>> /\ Append(x.joins, c)[Len(Append(x.joins, c))] = c
    BY <2>1
  <2>. QED  BY <2>2, <2>3 DEF HasChild
<1>2. ASSUME row \in InnerJoin(db, rows)  PROVE row.joins # <<>> /\ HasChild(row)
  <2>1. PICK x \in rows : \E c \in Children(db, x.root) : row = Extended(x, c)
    BY <1>2, InnerJoinRows
  <2>2. PICK c \in Children(db, x.root) : row = Extended(x, c)
    BY <2>1
  <2>3. c \in db.children
    BY DEF Children
  <2>. QED  BY <1>1, <2>2, <2>3
<1>3. ASSUME row \in OuterJoin(db, rows), row \notin InnerJoin(db, rows)
      PROVE  row.joins # <<>> /\ ~HasChild(row)
  <2>1. PICK x \in rows : row = Extended(x, NoChild)
    BY <1>3 DEF OuterJoin, Extended
  <2>. QED  BY <1>1, <2>1
<1>4. InnerJoin(db, rows) \subseteq OuterJoin(db, rows)
  BY DEF OuterJoin
<1>. QED  BY <1>2, <1>3, <1>4

\* A filter on the roots asks the same of a root and of its pairs.
LEMMA MeetsAlike ==
  ASSUME NEW decl, NEW r, Registered(decl, r), NEW db \in Databases, NEW filter,
         filter.field \in Names(r.fields), Field(filter.field, r).many = {}, NEW window,
         NEW row \in RowsOf(db), NEW c \in db.children
  PROVE  Meets(filter, window, Extended(row, c), r) <=> Meets(filter, window, row, r)
<1>. DEFINE path == Field(filter.field, r).binding
            pair == Extended(row, c)
<1>1. Field(filter.field, r) \in ToSet(r.fields)
  BY FoundMember DEF Field
<1>2. path \in Paths(r) /\ ~CrossesMany(path, r)
  BY <1>1, FieldCrosses DEF Paths
<1>3. pair.root = row.root /\ row.root \in db.roots
  BY ExtendedRow DEF RowsOf
<1>4. path \in DOMAIN row.root.cells
  BY <1>2, <1>3, PathHeld
<1>5. Cell(pair, path) = Cell(row, path)
  BY <1>3, <1>4 DEF Cell
<1>. HIDE DEF pair
<1>6. Matches(filter, window, pair, r) <=> Matches(filter, window, row, r)
  BY <1>5 DEF Matches
<1>. QED  BY <1>5, <1>6 DEF Meets, pair

\* A set of one element or none.
LEMMA AtMostOne ==
  ASSUME NEW S, IsFiniteSet(S), Cardinality(S) <= 1, NEW i \in S, NEW j \in S
  PROVE  i = j
<1>. SUFFICES ASSUME i # j PROVE FALSE
  OBVIOUS
<1>1. IsFiniteSet(S \ {i}) /\ Cardinality(S \ {i}) = Cardinality(S) - 1
  BY FS_RemoveElement
<1>2. Cardinality(S) \in Nat /\ Cardinality(S \ {i}) \in Nat
  BY <1>1, FS_CardinalityType
<1>3. Cardinality(S \ {i}) = 0
  BY <1>1, <1>2
<1>4. S \ {i} = {}
  BY <1>1, <1>3, FS_EmptySet
<1>. QED  BY <1>4

\* The first i filters ask it of a row.
Met(plan, windows, i, row, r) ==
  \A j \in 1..i : Meets(plan.filters[j], windows[j], row, r)

\* What i filters, one of them at most on the children, have left: the scoped roots that
\* meet them, or, once the children are joined, their pairs and roots without a child.
Stage(rows, plan, windows, i, db, r) ==
  IF \E e \in EdgeFilters(plan, r) : e <= i
  THEN \A row : /\ row \in rows => row.joins # <<>>
                /\ row \in rows /\ HasChild(row) <=>
                     row \in InnerJoin(db, Scoped(db, r)) /\ Met(plan, windows, i, row, r)
  ELSE rows = {row \in Scoped(db, r) : Met(plan, windows, i, row, r)}

\* Every filter takes one stage to the next.
LEMMA NextStage ==
  ASSUME NEW decl, NEW r, Registered(decl, r), NEW db \in Databases, NEW plan,
         Admitted(plan, r), NEW windows, Cardinality(EdgeFilters(plan, r)) <= 1,
         \A e \in EdgeFilters(plan, r) : plan.filters[e].op # "neq",
         NEW i \in 1..Len(plan.filters), NEW rows \in Tables(db),
         Stage(rows, plan, windows, i - 1, db, r)
  PROVE  Stage(ApplyFilter(db, rows, plan.filters[i], windows[i], r), plan, windows, i, db, r)
<1>. DEFINE edge == EdgeFilters(plan, r)
            filter == plan.filters[i]
            result == ApplyFilter(db, rows, filter, windows[i], r)
            scoped == Scoped(db, r)
            pairs == InnerJoin(db, scoped)
            Now(row) == Meets(filter, windows[i], row, r)
            Was(row) == Met(plan, windows, i - 1, row, r)
            Is(row) == Met(plan, windows, i, row, r)
<1>1. /\ FiniteTables(db) /\ NoChild \notin db.children /\ IsPlan(plan)
  BY DatabaseAssumption DEF FiniteTables, Admitted
<1>2. /\ Len(plan.filters) \in Nat /\ DOMAIN plan.filters = 1..Len(plan.filters)
      /\ \A j \in DOMAIN plan.filters : plan.filters[j].field \in Names(r.fields)
  BY <1>1, AdmittedMembers DEF IsPlan, IsList, ToSet
<1>3. \A j : j \in edge <=> j \in DOMAIN plan.filters /\ Field(plan.filters[j].field, r).many # {}
  BY DEF EdgeFilters
<1>4. \A j, k \in edge : j = k
  <2>1. IsFiniteSet(1..Len(plan.filters))
    BY <1>2, FS_Interval
  <2>2. edge \in SUBSET (1..Len(plan.filters))
    BY <1>2, <1>3
  <2>3. IsFiniteSet(edge)
    BY <2>1, <2>2, FS_Subset
  <2>. QED  BY <2>3, AtMostOne
<1>5. ASSUME NEW row  PROVE Is(row) <=> Was(row) /\ Now(row)
  <2>1. \A j : j \in 1..i <=> j \in 1..i - 1 \/ j = i
    BY <1>2
  <2>. QED  BY <2>1 DEF Met
<1>6. scoped \in Tables(db)
  BY <1>1, ScopedIsTable
<1>. HIDE DEF edge, scoped, Is, Was, Now
<1>7. CASE i \notin edge
  <2>1. result = {row \in rows : Now(row)}
    BY <1>2, <1>3, <1>7, RootFilter DEF Now
  <2>2. (\E e \in edge : e <= i) <=> (\E e \in edge : e <= i - 1)
    BY <1>2, <1>3, <1>7
  <2>. HIDE DEF result
  <2>3. CASE \E e \in edge : e <= i
    <3>1. \A row : /\ row \in rows => row.joins # <<>>
                   /\ row \in rows /\ HasChild(row) <=> row \in pairs /\ Was(row)
      BY <2>2, <2>3 DEF Stage, edge, scoped, Was
    <3>2. \A row : /\ row \in result => row.joins # <<>>
                   /\ row \in result /\ HasChild(row) <=> row \in pairs /\ Is(row)
      BY <1>5, <2>1, <3>1
    <3>. QED  BY <2>3, <3>2 DEF Stage, edge, scoped, Is, result
  <2>4. CASE ~\E e \in edge : e <= i
    <3>1. rows = {row \in scoped : Was(row)}
      BY <2>2, <2>4 DEF Stage, edge, scoped, Was
    <3>2. result = {row \in scoped : Is(row)}
      BY <1>5, <2>1, <3>1
    <3>. QED  BY <2>4, <3>2 DEF Stage, edge, scoped, Is, result
  <2>. QED  BY <2>3, <2>4
<1>8. CASE i \in edge
  <2>1. filter.op # "neq" /\ Field(filter.field, r).many # {}
    BY <1>3, <1>8 DEF edge
  <2>2. PICK joined \in {InnerJoin(db, rows), OuterJoin(db, rows)} :
          result = {row \in joined : Now(row)}
    BY <2>1, ChildFilter DEF Now
  <2>3. ~\E e \in edge : e <= i - 1
    BY <1>2, <1>4, <1>8
  <2>4. rows = {row \in scoped : Was(row)}
    BY <2>3 DEF Stage, edge, scoped, Was
  <2>5. rows \in SUBSET RowsOf(db) /\ scoped \in SUBSET RowsOf(db)
    BY <1>6 DEF Tables
  <2>6. \A row : /\ row \in joined => row.joins # <<>>
                 /\ row \in joined /\ HasChild(row) <=> row \in InnerJoin(db, rows)
    BY <1>1, <2>5, JoinedChildren
  <2>7. ASSUME NEW x \in scoped, NEW c \in db.children  PROVE Was(Extended(x, c)) <=> Was(x)
    <3>1. x \in RowsOf(db)
      BY <2>5
    <3>2. ASSUME NEW j \in 1..i - 1
          PROVE  Meets(plan.filters[j], windows[j], Extended(x, c), r)
                   <=> Meets(plan.filters[j], windows[j], x, r)
      <4>1. j \in DOMAIN plan.filters /\ j \notin edge
        BY <1>2, <2>3
      <4>2. plan.filters[j].field \in Names(r.fields) /\ Field(plan.filters[j].field, r).many = {}
        BY <1>2, <1>3, <4>1
      <4>. QED  BY <3>1, <4>2, MeetsAlike
    <3>. QED  BY <3>2 DEF Was, Met
  <2>8. ASSUME NEW row  PROVE row \in InnerJoin(db, rows) <=> row \in pairs /\ Was(row)
    <3>1. ASSUME row \in InnerJoin(db, rows)  PROVE row \in pairs /\ Was(row)
      <4>1. PICK x \in rows : \E c \in Children(db, x.root) : row = Extended(x, c)
        BY <3>1, InnerJoinRows
      <4>2. PICK c \in Children(db, x.root) : row = Extended(x, c)
        BY <4>1
      <4>3. x \in scoped /\ Was(x) /\ c \in db.children
        BY <2>4 DEF Children
      <4>4. row \in pairs
        BY <4>2, <4>3, InnerJoinRows
      <4>. QED  BY <2>7, <4>2, <4>3, <4>4
    <3>2. ASSUME row \in pairs, Was(row)  PROVE row \in InnerJoin(db, rows)
      <4>1. PICK x \in scoped : \E c \in Children(db, x.root) : row = Extended(x, c)
        BY <3>2, InnerJoinRows
      <4>2. PICK c \in Children(db, x.root) : row = Extended(x, c)
        BY <4>1
      <4>3. c \in db.children
        BY DEF Children
      <4>4. x \in rows
        BY <2>4, <2>7, <3>2, <4>2, <4>3
      <4>. QED  BY <4>2, <4>4, InnerJoinRows
    <3>. QED  BY <3>1, <3>2
  <2>. HIDE DEF result, pairs
  <2>9. \A row : /\ row \in result => row.joins # <<>>
                 /\ row \in result /\ HasChild(row) <=> row \in pairs /\ Is(row)
    BY <1>5, <2>2, <2>6, <2>8
  <2>10. \E e \in edge : e <= i
    BY <1>2, <1>8
  <2>. QED  BY <2>9, <2>10 DEF Stage, edge, scoped, pairs, Is, result
<1>. QED  BY <1>7, <1>8

\* So do all of them.
LEMMA LastStage ==
  ASSUME NEW decl, NEW r, Registered(decl, r), NEW db \in Databases, NEW plan,
         Admitted(plan, r), NEW windows, Cardinality(EdgeFilters(plan, r)) <= 1,
         \A e \in EdgeFilters(plan, r) : plan.filters[e].op # "neq"
  PROVE  LET rows == ApplyFilters(db, Scoped(db, r), plan.filters, windows, r) IN
         /\ rows \in Tables(db)
         /\ Stage(rows, plan, windows, Len(plan.filters), db, r)
<1>. DEFINE n == Len(plan.filters)
            stages == [i \in 0..n |->
                         {rows \in Tables(db) : Stage(rows, plan, windows, i, db, r)}]
<1>1. FiniteTables(db) /\ IsPlan(plan)
  BY DatabaseAssumption DEF FiniteTables, Admitted
<1>2. n \in Nat /\ DOMAIN plan.filters = 1..n
  BY <1>1 DEF IsPlan, IsList
<1>3. Scoped(db, r) \in stages[0]
  <2>1. Scoped(db, r) \in Tables(db)
    BY <1>1, ScopedIsTable
  <2>2. ~\E e \in EdgeFilters(plan, r) : e <= 0
    BY <1>2 DEF EdgeFilters
  <2>3. \A row : Met(plan, windows, 0, row, r)
    BY DEF Met
  <2>4. Stage(Scoped(db, r), plan, windows, 0, db, r)
    BY <2>2, <2>3 DEF Stage
  <2>. QED  BY <1>2, <2>1, <2>4
<1>4. ASSUME NEW i \in 1..n, NEW left \in stages[i - 1]
      PROVE  ApplyFilter(db, left, plan.filters[i], windows[i], r) \in stages[i]
  <2>1. i - 1 \in 0..n /\ i \in 0..n
    BY <1>2
  <2>2. left \in Tables(db) /\ Stage(left, plan, windows, i - 1, db, r)
    BY <2>1
  <2>. DEFINE result == ApplyFilter(db, left, plan.filters[i], windows[i], r)
  <2>3. result \in Tables(db)
    BY <1>1, <2>2, FilterIsTable
  <2>4. Stage(result, plan, windows, i, db, r)
    BY <2>2, NextStage
  <2>. HIDE DEF result
  <2>. QED  BY <2>1, <2>3, <2>4 DEF result
<1>5. n \in 0..n
  BY <1>2
<1>. DEFINE all == ApplyFilters(db, Scoped(db, r), plan.filters, windows, r)
<1>6. all \in stages[n]
  <2>. HIDE DEF stages
  <2>. QED  BY <1>2, <1>3, <1>4, FiltersKeep
<1>. HIDE DEF all
<1>. QED  BY <1>5, <1>6 DEF all

\* The fields a plan uses; the metrics of an aggregate count as they do.
LEMMA UsedField ==
  ASSUME NEW plan, NEW r, NEW n \in FieldReferences(plan), n \in Names(r.fields)
  PROVE  Field(n, r) \in UsedFields(plan, r)
BY FoundMember DEF UsedFields, Field

\* So it is with the metrics it uses.
LEMMA UsedMetric ==
  ASSUME NEW plan, NEW r, NEW n \in ToSet(plan.metrics), n \in Names(r.metrics)
  PROVE  Metric(n, r) \in UsedMetrics(plan, r)
BY FoundMember DEF UsedMetrics, Metric

\* Metrics of the roots range over the roots that match: no field in use is read across
\* a to-many relationship.
LEMMA RootsRanged ==
  ASSUME NEW decl, NEW r, Registered(decl, r), NEW db \in Databases, NEW plan,
         Admitted(plan, r), plan.intent = "aggregate", NEW compiled,
         compiled.ordering = BuildGroupedOrdering(plan),
         \A n \in ToSet(plan.metrics) : Metric(n, r).many = {}
  PROVE  Ranged(plan, compiled, db, r) = MatchingRoots(plan, compiled.windows, db, r)
<1>. DEFINE metrics == {Metric(n, r) : n \in ToSet(plan.metrics)}
            rows == ApplyFilters(db, Scoped(db, r), plan.filters, compiled.windows, r)
            paths == {Field(n, r).binding : n \in UsedNames(plan, compiled)}
                       \cup {k.binding : k \in metrics}
                       \cup ({k.distinct : k \in metrics} \ {None})
            crossed == UNION {f.many : f \in UsedFields(plan, r)}
<1>1. /\ ShapeAccepted(plan) /\ FanOutAccepted(plan, r)
      /\ ToSet(plan.select) \subseteq Names(r.fields) /\ GroupNames(plan) \subseteq Names(r.fields)
      /\ ToSet(plan.metrics) \subseteq Names(r.metrics)
      /\ \A f \in ToSet(plan.filters) : f.field \in Names(r.fields)
      /\ \A t \in ToSet(plan.order) : t.field # None =>
           t.field \in ToSet(plan.select) \cup GroupNames(plan)
  BY AdmittedMembers
<1>2. IsPlan(plan) /\ IsList(plan.filters) /\ IsList(plan.metrics)
  BY DEF Admitted, IsPlan
<1>3. PICK n \in ToSet(plan.metrics) : n \in Names(r.metrics)
  <2>1. plan.metrics # <<>>
    BY <1>1 DEF ShapeAccepted
  <2>2. DOMAIN plan.metrics # {}
    BY <1>2, <2>1 DEF IsList
  <2>. QED  BY <1>1, <2>2 DEF ToSet
<1>4. crossed = {}
  <2>1. Metric(n, r) \in UsedMetrics(plan, r) /\ Metric(n, r).many = {}
    BY <1>3, UsedMetric
  <2>2. crossed # {} => \A k \in UsedMetrics(plan, r) : k.many = crossed
    BY <1>1 DEF FanOutAccepted
  <2>. HIDE DEF crossed
  <2>. QED  BY <2>1, <2>2
<1>5. ASSUME NEW m \in FieldReferences(plan), m \in Names(r.fields)
      PROVE  Field(m, r).many = {} /\ ~CrossesMany(Field(m, r).binding, r)
  <2>1. Field(m, r) \in UsedFields(plan, r)
    BY <1>5, UsedField
  <2>2. Field(m, r).many = {}
    BY <1>4, <2>1
  <2>3. Field(m, r) \in ToSet(r.fields)
    BY <1>5, FoundMember DEF Field
  <2>. QED  BY <2>2, <2>3, FieldCrosses
<1>6. EdgeFilters(plan, r) = {}
  <2>1. ASSUME NEW i \in DOMAIN plan.filters  PROVE Field(plan.filters[i].field, r).many = {}
    <3>1. plan.filters[i] \in ToSet(plan.filters)
      BY DEF ToSet
    <3>2. plan.filters[i].field \in FieldReferences(plan)
          /\ plan.filters[i].field \in Names(r.fields)
      BY <1>1, <3>1 DEF FieldReferences
    <3>. QED  BY <1>5, <3>2
  <2>. QED  BY <2>1 DEF EdgeFilters
<1>7. \A m \in UsedNames(plan, compiled) : m \in FieldReferences(plan) /\ m \in Names(r.fields)
  <2>1. \A t \in ToSet(compiled.ordering) :
          t.field \in {x.field : x \in ToSet(plan.order)} \cup GroupNames(plan)
    BY GroupedOrdering DEF ToSet
  <2>2. ASSUME NEW t \in ToSet(compiled.ordering), t.field # None
        PROVE  t.field \in FieldReferences(plan) /\ t.field \in Names(r.fields)
    BY <1>1, <2>1, <2>2 DEF FieldReferences, GroupNames
  <2>3. \A m \in ToSet(plan.select) \cup GroupNames(plan) :
          m \in FieldReferences(plan) /\ m \in Names(r.fields)
    BY <1>1 DEF FieldReferences, GroupNames
  <2>. QED  BY <2>2, <2>3 DEF UsedNames
<1>8. \A k \in metrics : ~CrossesMany(k.binding, r) /\ k.distinct = None
  <2>1. ASSUME NEW m \in ToSet(plan.metrics)
        PROVE  ~CrossesMany(Metric(m, r).binding, r) /\ Metric(m, r).distinct = None
    <3>1. Metric(m, r) \in ToSet(r.metrics) /\ Metric(m, r).many = {}
      BY <1>1, FoundMember DEF Metric
    <3>. QED  BY <3>1, MetricCrosses
  <2>. QED  BY <2>1
<1>9. ~\E p \in paths : CrossesMany(p, r)
  <2>1. \A p \in {Field(m, r).binding : m \in UsedNames(plan, compiled)} : ~CrossesMany(p, r)
    BY <1>5, <1>7
  <2>. HIDE DEF metrics
  <2>. QED  BY <1>8, <2>1
<1>10. Ranged(plan, compiled, db, r) = Joined(db, rows, paths, r)
  BY DEF Ranged, UsedNames
<1>. HIDE DEF rows, paths
<1>11. Ranged(plan, compiled, db, r) = rows
  BY <1>9, <1>10 DEF Joined
<1>12. Stage(rows, plan, compiled.windows, Len(plan.filters), db, r)
  <2>1. Cardinality(EdgeFilters(plan, r)) = 0
    BY <1>6, FS_EmptySet
  <2>2. /\ Cardinality(EdgeFilters(plan, r)) <= 1
        /\ \A e \in EdgeFilters(plan, r) : plan.filters[e].op # "neq"
    BY <1>6, <2>1
  <2>. DEFINE windows == compiled.windows
  <2>. HIDE DEF windows
  <2>3. Stage(ApplyFilters(db, Scoped(db, r), plan.filters, windows, r), plan, windows,
              Len(plan.filters), db, r)
    BY <2>2, LastStage
  <2>. QED  BY <2>3 DEF rows, windows
<1>13. rows = {row \in Scoped(db, r) : Met(plan, compiled.windows, Len(plan.filters), row, r)}
  BY <1>6, <1>12 DEF Stage
<1>14. \A row : Met(plan, compiled.windows, Len(plan.filters), row, r) <=>
         \A i \in DOMAIN plan.filters \ EdgeFilters(plan, r) :
           Meets(plan.filters[i], compiled.windows[i], row, r)
  BY <1>2, <1>6 DEF Met, IsList
<1>15. MatchingRoots(plan, compiled.windows, db, r) =
         {row \in Scoped(db, r) : \A i \in DOMAIN plan.filters \ EdgeFilters(plan, r) :
           Meets(plan.filters[i], compiled.windows[i], row, r)}
  BY DEF MatchingRoots, Meets
<1>. QED  BY <1>11, <1>13, <1>14, <1>15

\* Metrics of the children range over the pairs that match, and roots without a child.
LEMMA PairsRanged ==
  ASSUME NEW decl, NEW r, Registered(decl, r), NEW db \in Databases, NEW plan,
         Admitted(plan, r), NEW compiled,
         Cardinality(EdgeFilters(plan, r)) <= 1,
         \A e \in EdgeFilters(plan, r) : plan.filters[e].op # "neq",
         NEW n \in ToSet(plan.metrics), Metric(n, r).many # {}, NEW row
  PROVE  /\ row \in Ranged(plan, compiled, db, r) => row \in RowsOf(db) /\ row.joins # <<>>
         /\ row \in Ranged(plan, compiled, db, r) /\ HasChild(row) <=>
              row \in MatchingPairs(plan, compiled.windows, db, r)
<1>. DEFINE metrics == {Metric(m, r) : m \in ToSet(plan.metrics)}
            windows == compiled.windows
            ranged == Ranged(plan, compiled, db, r)
            rows == ApplyFilters(db, Scoped(db, r), plan.filters, windows, r)
            paths == {Field(m, r).binding : m \in UsedNames(plan, compiled)}
                       \cup {k.binding : k \in metrics}
                       \cup ({k.distinct : k \in metrics} \ {None})
            bare == {x \in rows : x.joins = <<>>}
            scoped == Scoped(db, r)
            edge == EdgeFilters(plan, r)
            size == Len(plan.filters)
            All(x) == Met(plan, windows, size, x, r)
            Asks(i, x) == Meets(plan.filters[i], windows[i], x, r)
<1>1. /\ FiniteTables(db) /\ NoChild \notin db.children /\ IsPlan(plan) /\ IsList(plan.filters)
  BY DatabaseAssumption DEF FiniteTables, Admitted, IsPlan
<1>2. /\ size \in Nat /\ DOMAIN plan.filters = 1..size
      /\ \A i \in DOMAIN plan.filters : plan.filters[i].field \in Names(r.fields)
  BY <1>1, AdmittedMembers DEF IsList, ToSet
<1>3. Metric(n, r).binding \in paths /\ CrossesMany(Metric(n, r).binding, r)
  <2>1. Metric(n, r) \in ToSet(r.metrics)
    BY AdmittedMembers, FoundMember DEF Metric
  <2>. QED  BY <2>1, MetricCrosses
<1>4. ranged = Joined(db, rows, paths, r)
  BY DEF Ranged, UsedNames
<1>5. ranged = (rows \ bare) \cup OuterJoin(db, bare)
  <2>. HIDE DEF ranged, rows, paths, bare
  <2>. QED  BY <1>3, <1>4 DEF Joined, bare
<1>6. rows \in Tables(db) /\ Stage(rows, plan, windows, size, db, r)
  BY LastStage
<1>7. scoped \in SUBSET RowsOf(db) /\ rows \in SUBSET RowsOf(db)
  BY <1>1, <1>6, ScopedIsTable DEF Tables
<1>8. \A x \in scoped : x.joins = <<>>
  BY DEF Scoped
<1>9. ranged \in SUBSET RowsOf(db)
  BY <1>1, RangedIsTable DEF Tables
<1>. HIDE DEF ranged, rows, paths
<1>10. ASSUME NEW x \in scoped, NEW c \in db.children, NEW i \in DOMAIN plan.filters \ edge
       PROVE  Asks(i, Extended(x, c)) <=> Asks(i, x)
  <2>1. plan.filters[i].field \in Names(r.fields) /\ Field(plan.filters[i].field, r).many = {}
    BY <1>2 DEF EdgeFilters
  <2>. QED  BY <1>7, <2>1, MeetsAlike
<1>11. /\ MatchingRoots(plan, windows, db, r) =
            {x \in scoped : \A i \in DOMAIN plan.filters \ edge : Asks(i, x)}
       /\ edge \subseteq DOMAIN plan.filters
  BY DEF MatchingRoots, Meets, EdgeFilters
<1>12. MatchingPairs(plan, windows, db, r) =
         {x \in InnerJoin(db, MatchingRoots(plan, windows, db, r)) : \A i \in edge : Asks(i, x)}
  BY DEF MatchingPairs, Meets
<1>13. \A x : All(x) <=> /\ \A i \in DOMAIN plan.filters \ edge : Asks(i, x)
                         /\ \A i \in edge : Asks(i, x)
  BY <1>2, <1>11 DEF Met
<1>. HIDE DEF scoped, edge, Asks, All
<1>14. ASSUME NEW x
       PROVE  x \in MatchingPairs(plan, windows, db, r) <=> x \in InnerJoin(db, scoped) /\ All(x)
  <2>1. ASSUME x \in MatchingPairs(plan, windows, db, r)
        PROVE  x \in InnerJoin(db, scoped) /\ All(x)
    <3>1. PICK y \in MatchingRoots(plan, windows, db, r) :
                 \E c \in Children(db, y.root) : x = Extended(y, c)
      BY <1>12, <2>1, InnerJoinRows
    <3>2. PICK c \in Children(db, y.root) : x = Extended(y, c)
      BY <3>1
    <3>3. y \in scoped /\ c \in db.children
      BY <1>11 DEF Children
    <3>4. x \in InnerJoin(db, scoped)
      BY <3>2, <3>3, InnerJoinRows
    <3>5. \A i \in DOMAIN plan.filters \ edge : Asks(i, x)
      BY <1>10, <1>11, <3>2, <3>3
    <3>. QED  BY <1>12, <1>13, <2>1, <3>4, <3>5
  <2>2. ASSUME x \in InnerJoin(db, scoped), All(x)
        PROVE  x \in MatchingPairs(plan, windows, db, r)
    <3>1. PICK y \in scoped : \E c \in Children(db, y.root) : x = Extended(y, c)
      BY <2>2, InnerJoinRows
    <3>2. PICK c \in Children(db, y.root) : x = Extended(y, c)
      BY <3>1
    <3>3. c \in db.children
      BY DEF Children
    <3>4. y \in MatchingRoots(plan, windows, db, r)
      BY <1>10, <1>11, <1>13, <2>2, <3>2, <3>3
    <3>5. x \in InnerJoin(db, MatchingRoots(plan, windows, db, r))
      BY <3>2, <3>4, InnerJoinRows
    <3>. QED  BY <1>12, <1>13, <2>2, <3>5
  <2>. QED  BY <2>1, <2>2
<1>15. CASE \E e \in edge : e <= size
  <2>1. \A x : /\ x \in rows => x.joins # <<>>
               /\ x \in rows /\ HasChild(x) <=> x \in InnerJoin(db, scoped) /\ All(x)
    BY <1>6, <1>15 DEF Stage, edge, scoped, All
  <2>2. bare = {}
    BY <2>1
  <2>3. OuterJoin(db, bare) = {}
    BY <2>2 DEF OuterJoin, InnerJoin
  <2>4. ranged = rows
    BY <1>5, <2>2, <2>3
  <2>. QED  BY <1>9, <1>14, <2>1, <2>4 DEF ranged
<1>16. CASE ~\E e \in edge : e <= size
  <2>1. rows = {x \in scoped : All(x)}
    BY <1>6, <1>16 DEF Stage, edge, scoped, All
  <2>2. bare = rows
    BY <1>8, <2>1
  <2>3. ranged = OuterJoin(db, rows)
    BY <1>5, <2>2
  <2>4. \A x : /\ x \in ranged => x.joins # <<>>
               /\ x \in ranged /\ HasChild(x) <=> x \in InnerJoin(db, rows)
    <3>. HIDE DEF bare
    <3>. QED  BY <1>1, <1>7, <2>3, JoinedChildren
  <2>5. edge = {}
    BY <1>2, <1>11, <1>16
  <2>6. InnerJoin(db, rows) = MatchingPairs(plan, windows, db, r)
    <3>1. MatchingRoots(plan, windows, db, r) = rows
      BY <1>11, <1>13, <2>1, <2>5
    <3>. QED  BY <1>12, <2>5, <3>1
  <2>. QED  BY <1>9, <2>4, <2>6 DEF ranged
<1>. QED  BY <1>15, <1>16

\* A root without a child has nothing that a metric of the children counts.
LEMMA ChildCounted ==
  ASSUME NEW decl, NEW r, Registered(decl, r), NEW db \in Databases, NEW k \in ToSet(r.metrics),
         k.many # {}, NEW row \in RowsOf(db), row.joins # <<>>, Cell(row, MetricPath(k)) # None
  PROVE  HasChild(row)
<1>. DEFINE path == MetricPath(k)
<1>1. path \in Paths(r) /\ CrossesMany(path, r)
  BY MetricCrosses DEF Paths
<1>2. row.root \in db.roots
  BY DEF RowsOf
<1>3. path \notin DOMAIN row.root.cells
  BY <1>1, <1>2, PathHeld
<1>. QED  BY <1>3 DEF Cell, HasChild

\* The metrics of a plan whose metrics have one grain.
LEMMA OneGrain ==
  ASSUME NEW plan, IsPlan(plan), NEW r,
         Cardinality({Metric(n, r).many : n \in ToSet(plan.metrics)}) = 1,
         NEW n \in ToSet(plan.metrics), NEW m \in ToSet(plan.metrics)
  PROVE  Metric(n, r).many = Metric(m, r).many
<1>. DEFINE many == [i \in DOMAIN plan.metrics |-> Metric(plan.metrics[i], r).many]
            grains == {Metric(x, r).many : x \in ToSet(plan.metrics)}
            image == {many[i] : i \in DOMAIN plan.metrics}
<1>1. grains = image
  BY DEF ToSet
<1>2. IsFiniteSet(image)
  <2>1. DOMAIN plan.metrics = 1..Len(plan.metrics) /\ Len(plan.metrics) \in Nat
    BY DEF IsPlan, IsList
  <2>2. IsFiniteSet(DOMAIN plan.metrics)
    BY <2>1, FS_Interval
  <2>. HIDE DEF many
  <2>. QED  BY <2>2, ImageFinite
<1>3. Metric(n, r).many \in grains /\ Metric(m, r).many \in grains
  OBVIOUS
<1>4. Cardinality(grains) <= 1
  OBVIOUS
<1>. HIDE DEF grains, image
<1>. QED  BY <1>1, <1>2, <1>3, <1>4, AtMostOne

\* What an aggregate shows for a metric is its value over the tables.
LEMMA MetricShown ==
  ASSUME NEW decl, NEW r, Registered(decl, r), NEW db \in Databases, NEW plan,
         Admitted(plan, r), plan.intent = "aggregate", NEW compiled,
         compiled.ordering = BuildGroupedOrdering(plan),
         Cardinality({Metric(n, r).many : n \in ToSet(plan.metrics)}) = 1,
         Cardinality(EdgeFilters(plan, r)) <= 1,
         \A e \in EdgeFilters(plan, r) : plan.filters[e].op # "neq",
         GroupNames(plan) \cap ToSet(plan.metrics) = {},
         NEW a \in Answers(plan, compiled, db, r), NEW n \in ToSet(plan.metrics)
  PROVE  PublicRow(plan, a, r)[n] =
           TrueValue(Metric(n, r), PublicRow(plan, a, r), plan, compiled.windows, db, r)
<1>. DEFINE row == PublicRow(plan, a, r)
            metric == Metric(n, r)
            ranged == Ranged(plan, compiled, db, r)
            names == GroupNames(plan)
            By(x) == GroupedBy(plan, x, r)
            InGroup(x) == \A m \in names : By(x)[m] = row[m]
            roots == MatchingRoots(plan, compiled.windows, db, r)
            pairs == MatchingPairs(plan, compiled.windows, db, r)
            base == IF metric.many = {} THEN roots ELSE pairs
<1>1. PICK k \in Keys(plan, ranged, r) : a = GroupRow(plan, k, ranged, r)
  BY AnswersOf
<1>. DEFINE members == {x \in ranged : By(x) = k}
<1>2. row = [m \in names \cup ToSet(plan.metrics) |->
               IF m \in ToSet(plan.metrics) THEN a.metrics[m] ELSE a.key[m]]
  BY DEF PublicRow
<1>3. a.key = k /\ a.metrics = [m \in ToSet(plan.metrics) |-> Aggregated(Metric(m, r), members)]
  BY <1>1 DEF GroupRow, AggregateRow
<1>4. row[n] = Aggregated(metric, members) /\ \A m \in names : row[m] = k[m]
  BY <1>2, <1>3
<1>5. ASSUME NEW x  PROVE By(x) = [m \in names |-> By(x)[m]]
  BY DEF GroupedBy
<1>6. k = [m \in names |-> k[m]]
  <2>1. CASE \E x \in ranged : k = By(x)
    BY <1>5, <2>1
  <2>2. CASE plan.group = <<>> /\ k = [m \in {} |-> m]
    <3>1. names = {}
      BY <2>2 DEF GroupNames, ToSet
    <3>. HIDE DEF names
    <3>. QED  BY <2>2, <3>1
  <2>. QED  BY <2>1, <2>2 DEF Keys
<1>. HIDE DEF row, By, names
<1>7. ASSUME NEW x  PROVE InGroup(x) <=> By(x) = k
  BY <1>4, <1>5, <1>6
<1>. HIDE DEF InGroup, ranged
<1>8. metric \in ToSet(r.metrics)
  BY AdmittedMembers, FoundMember DEF Metric
<1>9. TrueValue(metric, row, plan, compiled.windows, db, r) =
        Aggregated(metric, {x \in base : InGroup(x)})
  BY DEF TrueValue, InGroup, By, names
<1>10. Filled(metric, members) = Filled(metric, {x \in base : InGroup(x)})
  <2>1. CASE metric.many = {}
    <3>1. \A m \in ToSet(plan.metrics) : Metric(m, r).many = {}
      BY <2>1, OneGrain DEF Admitted
    <3>2. ranged = roots
      BY <3>1, RootsRanged DEF ranged
    <3>. HIDE DEF roots
    <3>. QED  BY <1>7, <2>1, <3>2
  <2>2. CASE metric.many # {}
    <3>. HIDE DEF pairs
    <3>1. ASSUME NEW x
          PROVE  /\ x \in ranged => x \in RowsOf(db) /\ x.joins # <<>>
                 /\ x \in ranged /\ HasChild(x) <=> x \in pairs
      BY <2>2, PairsRanged DEF ranged, pairs
    <3>2. ASSUME NEW x \in ranged, Cell(x, MetricPath(metric)) # None  PROVE x \in pairs
      <4>. HIDE DEF metric
      <4>. QED  BY <1>8, <2>2, <3>1, <3>2, ChildCounted
    <3>. QED  BY <1>7, <2>2, <3>1, <3>2 DEF Filled
  <2>. QED  BY <2>1, <2>2
<1>. HIDE DEF members, base, metric
<1>11. Aggregated(metric, members) = Aggregated(metric, {x \in base : InGroup(x)})
  BY <1>10 DEF Aggregated
<1>. QED  BY <1>4, <1>9, <1>11 DEF row, metric

-----------------------------------------------------------------------------
(* The inductive invariant *)

\* What execution may return of a compiled plan.
Outcomes(plan, compiled, db, resource) ==
  {[rows |-> Slice(fetched, compiled.limit),
    truncated |-> compiled.detectsTruncation /\ Len(fetched) > compiled.limit] :
     fetched \in Fetches(plan, compiled, db, resource)}

\* A record with the fields of Idle.
QueryFields == {"phase", "runs", "plan", "now", "compiled", "snapshot", "rows", "truncated",
                "code", "earlier", "sent"}
IsQuery(q) == q = [x \in QueryFields |-> q[x]]

\* The amounts of relative filters are positive numbers.
Amounts(plan) ==
  \A f \in ToSet(plan.filters) :
    f.op \in {"last_n_days", "last_n_months"} => f.value.items[1].value \in Nat \ {0}

\* A run that is over was an execution of the compiled plan.
EarlierRun(earlier, compiled, plan, resource) ==
  /\ earlier.windows = compiled.windows /\ earlier.snapshot \in Databases
  /\ [rows |-> earlier.rows, truncated |-> earlier.truncated]
       \in Outcomes(plan, compiled, earlier.snapshot, resource)

\* What every state makes certain of its query.
QueryHolds(q, resource) ==
  /\ IsQuery(q)
  /\ q.phase \in {"idle", "prepared", "compiled", "succeeded", "failed", "sent"}
  /\ q.runs \in 0..MaxRuns
  /\ q.phase = "idle" => q = Idle
  /\ q.phase # "idle" => Admitted(q.plan, resource) /\ Amounts(q.plan) /\ q.now \in Instants
  /\ q.phase \in {"compiled", "succeeded", "sent"} =>
       q.compiled = Compile(q.plan, q.now, resource)
  /\ q.phase = "compiled" => WindowsCode(q.plan, q.compiled.windows, resource) = "ok"
  /\ q.phase \in {"succeeded", "sent"} =>
       /\ q.snapshot \in Databases
       /\ [rows |-> q.rows, truncated |-> q.truncated]
            \in Outcomes(q.plan, q.compiled, q.snapshot, resource)
  /\ q.phase = "sent" =>
       \E include, allowed \in BOOLEAN, cap \in Caps :
         q.sent = McpPayload(q.rows, q.truncated, include, allowed, cap)
  /\ q.phase = "failed" /\ q.code = "ResultSerialization" =>
       /\ q.snapshot \in Databases
       /\ q.compiled = Compile(q.plan, q.now, resource)
       /\ \E outcome \in Outcomes(q.plan, q.compiled, q.snapshot, resource) :
            ~RowsAccepted(q.plan, outcome.rows, resource)
  /\ q.earlier # None =>
       \E now \in Instants :
         EarlierRun(q.earlier, Compile(q.plan, now, resource), q.plan, resource)

IndInv ==
  /\ database \in Databases /\ writes \in 0..MaxWrites
  /\ registered \in Registrations
  /\ QueryHolds(query, registered)

\* The invariant holds at first.
LEMMA InitHolds == Init => IndInv
<1>. SUFFICES ASSUME Init PROVE IndInv
  OBVIOUS
<1>1. database \in Databases /\ writes = 0 /\ registered \in Registrations /\ query = Idle
  BY DEF Init, Registrations
<1>2. 0 \in 0..MaxRuns /\ 0 \in 0..MaxWrites
  BY BoundAssumption
<1>. QED  BY <1>1, <1>2 DEF IndInv, QueryHolds, IsQuery, QueryFields, Idle

\* Validation leaves the amounts of relative filters as they are parsed.
LEMMA AmountsKept ==
  ASSUME NEW plan \in Plans, NEW resource,
         ValidateForResource(plan, resource, Permissions).code = "ok"
  PROVE  Amounts(ValidateForResource(plan, resource, Permissions).plan)
<1>. DEFINE limited == WithLimit(plan)
            normal(i) == NormalizeFilter(Named(resource.fields, plan.filters[i].field),
                                         plan.filters[i])
            kept == ValidateForResource(plan, resource, Permissions).plan
<1>1. IsPlan(plan) /\ Parses(plan)
  BY PlanAssumption
<1>2. kept = NormalizeFilters(limited, resource)
  BY DEF ValidateForResource
<1>3. limited.filters = plan.filters /\ IsPlan(limited)
  BY <1>1, Limited DEF IsPlan, WithLimit
<1>. HIDE DEF limited, kept
<1>4. kept.filters = [i \in DOMAIN plan.filters |-> normal(i)]
  BY <1>2, <1>3 DEF NormalizeFilters, IsPlan
<1>5. ASSUME NEW i \in DOMAIN plan.filters, normal(i).op \in {"last_n_days", "last_n_months"}
      PROVE  normal(i).value.items[1].value \in Nat \ {0}
  <2>. DEFINE f == plan.filters[i]
  <2>1. f \in ToSet(plan.filters)
    BY DEF ToSet
  <2>2. /\ IsFilter(f) /\ ValueParses(f.op, f.value)
        /\ \A v \in ToSet(f.value.items) : v.py = "int" => v.value \in Int
    BY <1>1, <2>1, PlanAssumption DEF IsPlan, Parses
  <2>3. normal(i).op = f.op
    <3>. HIDE DEF f
    <3>1. f = [field |-> f.field, op |-> f.op, value |-> f.value]
      BY <2>2 DEF IsFilter
    <3>2. \A items : [f EXCEPT !.value.items = items].op = f.op
      BY <3>1
    <3>. QED  BY <3>2 DEF NormalizeFilter, f
  <2>4. normal(i) = f
    BY <1>5, <2>3 DEF NormalizeFilter
  <2>. HIDE DEF f, normal
  <2>5. f.value.list = FALSE /\ f.value.items[1].py = "int" /\ f.value.items[1].value >= 1
    BY <1>5, <2>2, <2>3, <2>4 DEF ValueParses
  <2>6. f.value.items[1] \in ToSet(f.value.items)
    BY <2>2, <2>5 DEF IsFilter, IsList, ToSet
  <2>. QED  BY <2>2, <2>4, <2>5, <2>6
<1>. HIDE DEF normal
<1>6. ASSUME NEW f \in ToSet(kept.filters)
      PROVE  \E i \in DOMAIN plan.filters : f = normal(i)
  BY <1>4 DEF ToSet
<1>. QED  BY <1>5, <1>6 DEF Amounts, kept

\* What is accepted is the admitted plan, validated against the registered resource.
LEMMA AcceptKeepsInv ==
  ASSUME IndInv, NEW plan \in Plans, NEW now \in Instants, Accept(plan, now)
  PROVE  IndInv'
<1>. DEFINE answer == ValidateForResource(plan, registered, Permissions)
            q == [query EXCEPT !.phase = "prepared", !.plan = answer.plan, !.now = now,
                               !.runs = 1]
<1>1. /\ query' = q /\ UNCHANGED <<database, writes, registered>>
      /\ query.phase = "idle" /\ answer.code = "ok"
  BY DEF Accept, Next1
<1>2. query = Idle
  BY <1>1 DEF IndInv, QueryHolds
<1>3. IsPlan(plan) /\ Parses(plan)
  BY PlanAssumption
<1>4. EnumsHold(registered)
  <2>1. PICK decl \in Declarations :
          DeclarationAccepted(decl, None) /\ registered = BuildResource(decl, None)
    BY DEF IndInv, Registrations
  <2>. QED  BY <2>1, RegisteredFields
<1>5. Admitted(answer.plan, registered)
  BY <1>1, <1>3, <1>4, ValidationIsIdempotent DEF Admitted
<1>10. Amounts(answer.plan)
  BY <1>1, AmountsKept
<1>. HIDE DEF answer
<1>6. IsQuery(query) /\ query.earlier = None
  BY <1>2 DEF IsQuery, QueryFields, Idle
<1>7. 1 \in 0..MaxRuns
  BY BoundAssumption
<1>8. /\ IsQuery(q) /\ q.phase = "prepared" /\ q.plan = answer.plan /\ q.runs = 1
      /\ q.earlier = None /\ q.now = now
  BY <1>6 DEF IsQuery, QueryFields
<1>. HIDE DEF q
<1>9. QueryHolds(q, registered)
  BY <1>5, <1>7, <1>8, <1>10 DEF QueryHolds
<1>. QED  BY <1>1, <1>9 DEF IndInv

\* What it says of the windows that no filter fails, and which failures there are.
LEMMA WindowsCodeTells ==
  ASSUME NEW plan, DOMAIN plan.filters \subseteq Nat, NEW windows, NEW resource
  PROVE  /\ WindowsCode(plan, windows, resource) = "ok" <=>
              \A i \in DOMAIN plan.filters :
                WindowCode(plan.filters[i], windows[i], resource) = "ok"
         /\ WindowsCode(plan, windows, resource) \in {"ok", "PlanInvalid", "Compilation"}
<1>. DEFINE codes == [i \in DOMAIN plan.filters |->
                        WindowCode(plan.filters[i], windows[i], resource)]
<1>1. DOMAIN codes \subseteq Nat /\ WindowsCode(plan, windows, resource) = FirstFailure(codes)
  BY DEF WindowsCode
<1>2. \A filter, window : WindowCode(filter, window, resource)
                            \in {"ok", "PlanInvalid", "Compilation"}
  BY DEF WindowCode, Check
<1>3. \A i \in DOMAIN codes : codes[i] \in {"ok", "PlanInvalid", "Compilation"}
  BY <1>2
<1>4. \A i \in DOMAIN plan.filters :
        i \in DOMAIN codes /\ codes[i] = WindowCode(plan.filters[i], windows[i], resource)
  OBVIOUS
<1>5. DOMAIN codes = DOMAIN plan.filters
  OBVIOUS
<1>. HIDE DEF codes
<1>6. FirstFailure(codes) = "ok" <=> \A i \in DOMAIN codes : codes[i] = "ok"
  BY <1>1, NoFailure
<1>7. FirstFailure(codes) = "ok" \/ \E i \in DOMAIN codes : FirstFailure(codes) = codes[i]
  BY <1>1, SomeFailure
<1>. QED  BY <1>1, <1>3, <1>4, <1>5, <1>6, <1>7

\* Compilation is a function of the plan, the clock of the request and the resource.
LEMMA CompileKeepsInv ==
  ASSUME IndInv, CompileQuery
  PROVE  IndInv'
<1>. DEFINE compiled == Compile(query.plan, query.now, registered)
            code == WindowsCode(query.plan, compiled.windows, registered)
<1>1. /\ query.phase = "prepared" /\ UNCHANGED <<database, writes, registered>>
      /\ query' = IF code # "ok" THEN [query EXCEPT !.phase = "failed", !.code = code]
                  ELSE [query EXCEPT !.phase = "compiled", !.compiled = compiled]
  BY DEF CompileQuery, Next1
<1>2. QueryHolds(query, registered)
  BY DEF IndInv
<1>. HIDE DEF compiled
<1>3. code \in {"ok", "PlanInvalid", "Compilation"}
  <2>1. DOMAIN query.plan.filters \subseteq Nat
    BY <1>1, <1>2 DEF QueryHolds, Admitted, IsPlan, IsList
  <2>. QED  BY <2>1, WindowsCodeTells
<1>. HIDE DEF code
<1>4. /\ IsQuery(query') /\ query'.runs = query.runs /\ query'.plan = query.plan
      /\ query'.now = query.now /\ query'.earlier = query.earlier
      /\ \/ query'.phase = "failed" /\ query'.code \in {"PlanInvalid", "Compilation"}
         \/ /\ query'.phase = "compiled" /\ query'.compiled = compiled
            /\ code = "ok"
  BY <1>1, <1>2, <1>3 DEF QueryHolds, IsQuery, QueryFields
<1>5. QueryHolds(query', registered)
  BY <1>1, <1>2, <1>4 DEF QueryHolds, compiled, code
<1>. QED  BY <1>1, <1>5 DEF IndInv

\* One statement over the tables of the moment, which the snapshot keeps.
LEMMA ExecuteKeepsInv ==
  ASSUME IndInv, ExecuteCompiled
  PROVE  IndInv'
<1>1. QueryHolds(query, registered) /\ query.phase = "compiled" /\ database \in Databases
  BY DEF IndInv, ExecuteCompiled
<1>. DEFINE limit == query.compiled.limit
            detects == query.compiled.detectsTruncation
            rows(fetched) == Slice(fetched, limit)
            cut(fetched) == detects /\ Len(fetched) > limit
            failed == [query EXCEPT !.phase = "failed", !.code = "ResultSerialization",
                                    !.snapshot = database]
            succeeded(fetched) == [query EXCEPT !.phase = "succeeded", !.snapshot = database,
                                     !.rows = rows(fetched), !.truncated = cut(fetched)]
<1>2. PICK fetched \in Fetches(query.plan, query.compiled, database, registered) :
        /\ query' = IF ~RowsAccepted(query.plan, rows(fetched), registered) THEN failed
                    ELSE succeeded(fetched)
        /\ UNCHANGED <<database, writes, registered>>
  BY DEF ExecuteCompiled, Next1
<1>3. [rows |-> rows(fetched), truncated |-> cut(fetched)]
        \in Outcomes(query.plan, query.compiled, database, registered)
  BY DEF Outcomes
<1>. HIDE DEF rows, cut
<1>4. /\ IsQuery(query') /\ query'.runs = query.runs /\ query'.plan = query.plan
      /\ query'.now = query.now /\ query'.earlier = query.earlier
      /\ query'.compiled = query.compiled /\ query'.snapshot = database
      /\ \/ /\ query'.phase = "failed" /\ query'.code = "ResultSerialization"
            /\ ~RowsAccepted(query.plan, rows(fetched), registered)
         \/ /\ query'.phase = "succeeded" /\ query'.rows = rows(fetched)
            /\ query'.truncated = cut(fetched)
  BY <1>1, <1>2 DEF QueryHolds, IsQuery, QueryFields
<1>. HIDE DEF failed, succeeded
<1>5. ASSUME query'.phase = "failed"  PROVE QueryHolds(query', registered)
  <2>1. ~RowsAccepted(query.plan, rows(fetched), registered)
    BY <1>4, <1>5
  <2>2. PICK outcome \in Outcomes(query.plan, query.compiled, database, registered) :
          outcome.rows = rows(fetched)
    BY <1>3
  <2>. QED  BY <1>1, <1>4, <1>5, <2>1, <2>2 DEF QueryHolds
<1>6. ASSUME query'.phase = "succeeded"  PROVE QueryHolds(query', registered)
  BY <1>1, <1>3, <1>4, <1>6 DEF QueryHolds
<1>7. QueryHolds(query', registered)
  BY <1>4, <1>5, <1>6
<1>. QED  BY <1>2, <1>7 DEF IndInv

\* The payload is made of the result alone.
LEMMA SendKeepsInv ==
  ASSUME IndInv, NEW include \in BOOLEAN, NEW allowed \in BOOLEAN, NEW cap \in Caps,
         Send(include, allowed, cap)
  PROVE  IndInv'
<1>. DEFINE payload == McpPayload(query.rows, query.truncated, include, allowed, cap)
            q == [query EXCEPT !.phase = "sent", !.sent = payload]
<1>1. /\ QueryHolds(query, registered) /\ query.phase = "succeeded"
      /\ query' = q /\ UNCHANGED <<database, writes, registered>>
  BY DEF IndInv, Send, Next1
<1>. HIDE DEF payload
<1>2. /\ IsQuery(q) /\ q.runs = query.runs /\ q.plan = query.plan /\ q.now = query.now
      /\ q.earlier = query.earlier /\ q.compiled = query.compiled
      /\ q.snapshot = query.snapshot /\ q.rows = query.rows
      /\ q.truncated = query.truncated /\ q.sent = payload /\ q.phase = "sent"
  <2>1. IsQuery(query)
    BY <1>1 DEF QueryHolds
  <2>. QED  BY <2>1 DEF IsQuery, QueryFields
<1>3. \E i, a \in BOOLEAN, c \in Caps :
        q.sent = McpPayload(q.rows, q.truncated, i, a, c)
  BY <1>2 DEF payload
<1>. HIDE DEF q
<1>4. QueryHolds(q, registered)
  BY <1>1, <1>2, <1>3 DEF QueryHolds
<1>. QED  BY <1>1, <1>4 DEF IndInv

\* The run that ends is kept as the earlier one of the plan.
LEMMA ReloadKeepsInv ==
  ASSUME IndInv, NEW now \in Instants, Reload(now)
  PROVE  IndInv'
<1>. DEFINE earlier == [windows |-> query.compiled.windows, snapshot |-> query.snapshot,
                        rows |-> query.rows, truncated |-> query.truncated]
            q == [query EXCEPT !.phase = "prepared", !.runs = @ + 1, !.now = now, !.sent = None,
                    !.compiled = None, !.snapshot = None, !.rows = <<>>, !.truncated = FALSE,
                    !.earlier = earlier]
<1>1. /\ QueryHolds(query, registered) /\ query.phase = "sent" /\ query.runs < MaxRuns
      /\ query' = q /\ UNCHANGED <<database, writes, registered>>
  BY DEF IndInv, Reload, Next1
<1>2. /\ earlier.windows = query.compiled.windows /\ earlier.snapshot = query.snapshot
      /\ earlier.rows = query.rows /\ earlier.truncated = query.truncated
  OBVIOUS
<1>. HIDE DEF earlier
<1>3. query.runs + 1 \in 0..MaxRuns
  BY <1>1, BoundAssumption DEF QueryHolds
<1>4. /\ IsQuery(q) /\ q.runs = query.runs + 1 /\ q.plan = query.plan /\ q.now = now
      /\ q.earlier = earlier /\ q.phase = "prepared"
  <2>1. IsQuery(query)
    BY <1>1 DEF QueryHolds
  <2>. QED  BY <2>1 DEF IsQuery, QueryFields
<1>. HIDE DEF q
<1>5. /\ query.now \in Instants
      /\ EarlierRun(q.earlier, Compile(q.plan, query.now, registered), q.plan, registered)
  BY <1>1, <1>2, <1>4 DEF QueryHolds, EarlierRun
<1>6. QueryHolds(q, registered)
  BY <1>1, <1>3, <1>4, <1>5 DEF QueryHolds
<1>. QED  BY <1>1, <1>6 DEF IndInv

\* Writes leave the query alone, and a query that ends leaves nothing behind.
LEMMA OthersKeepInv ==
  ASSUME IndInv, (\E db \in Databases : Write(db)) \/ Finish \/ UNCHANGED vars
  PROVE  IndInv'
<1>1. CASE \E db \in Databases : Write(db)
  BY <1>1, BoundAssumption DEF IndInv, Write
<1>2. CASE Finish
  <2>1. QueryHolds(Idle, registered)
    BY BoundAssumption DEF QueryHolds, IsQuery, QueryFields, Idle
  <2>2. /\ query' = Idle /\ writes' = 0 /\ database' = database /\ registered' = registered
    BY <1>2 DEF Finish
  <2>. QED  BY <2>1, <2>2, BoundAssumption DEF IndInv
<1>3. CASE UNCHANGED vars
  BY <1>3 DEF IndInv, vars
<1>. QED  BY <1>1, <1>2, <1>3

\* The invariant holds in every state.
LEMMA InvHolds == Spec => []IndInv
<1>1. IndInv /\ [Next]_vars => IndInv'
  <2>. SUFFICES ASSUME IndInv, [Next]_vars PROVE IndInv'
    OBVIOUS
  <2>1. CASE \E plan \in Plans, now \in Instants : Accept(plan, now)
    BY <2>1, AcceptKeepsInv
  <2>2. CASE CompileQuery
    BY <2>2, CompileKeepsInv
  <2>3. CASE ExecuteCompiled
    BY <2>3, ExecuteKeepsInv
  <2>4. CASE \E include, allowed \in BOOLEAN, cap \in Caps : Send(include, allowed, cap)
    BY <2>4, SendKeepsInv
  <2>5. CASE \E now \in Instants : Reload(now)
    BY <2>5, ReloadKeepsInv
  <2>6. CASE (\E db \in Databases : Write(db)) \/ Finish \/ UNCHANGED vars
    BY <2>6, OthersKeepInv
  <2>. QED  BY <2>1, <2>2, <2>3, <2>4, <2>5, <2>6 DEF Next
<1>. QED  BY <1>1, InitHolds, PTL DEF Spec

-----------------------------------------------------------------------------
(* What a page tells of the rows there are *)

\* A page holds no more rows than there are, and all of them unless it is full.
LEMMA PageOfAll ==
  ASSUME NEW all, IsFiniteSet(all), NEW n \in Nat, NEW page, IsPage(page, all, n)
  PROVE  /\ Len(page) \in Nat /\ Cardinality(all) \in Nat /\ Len(page) <= n
         /\ Len(page) <= Cardinality(all)
         /\ Len(page) < n => Len(page) = Cardinality(all)
<1>. DEFINE places == 1..Len(page)
<1>1. /\ page \in Seq(all) /\ Len(page) \in Nat /\ Len(page) <= n /\ Distinct(page)
      /\ Len(page) = n \/ ToSet(page) = all
  BY DEF IsPage
<1>2. page \in [places -> all] /\ DOMAIN page = places
  BY <1>1
<1>3. page \in Injection(places, all)
  BY <1>1, <1>2 DEF Distinct, Injection, IsInjective
<1>4. IsFiniteSet(places) /\ Cardinality(places) = Len(page)
  <2>1. 1 \in Int /\ Len(page) \in Int
    BY <1>1
  <2>2. /\ IsFiniteSet(places)
        /\ Cardinality(places) = IF 1 > Len(page) THEN 0 ELSE Len(page) - 1 + 1
    BY <2>1, FS_Interval, Zenon
  <2>. HIDE DEF places
  <2>. QED  BY <1>1, <2>2
<1>5. Cardinality(places) <= Cardinality(all) /\ Cardinality(all) \in Nat
  BY <1>3, <1>4, FS_Injection, FS_CardinalityType
<1>6. ASSUME ToSet(page) = all  PROVE Len(page) = Cardinality(all)
  <2>1. page \in Bijection(places, all)
    BY <1>2, <1>3, <1>6 DEF ToSet, Bijection, Surjection
  <2>2. Cardinality(all) = Cardinality(places)
    <3>. HIDE DEF places
    <3>. QED  BY <1>4, <2>1, FS_Bijection DEF ExistsBijection
  <2>. HIDE DEF places
  <2>. QED  BY <1>4, <2>2
<1>. QED  BY <1>1, <1>4, <1>5, <1>6

\* What the query returned is a page of the answers, row by row.
LEMMA FetchedPage ==
  ASSUME NEW plan, NEW compiled, NEW db, NEW resource, Asked(compiled) \in Nat,
         NEW fetched \in Fetches(plan, compiled, db, resource)
  PROVE  \E page : /\ IsPage(page, Answers(plan, compiled, db, resource), Asked(compiled))
                   /\ IsList(fetched) /\ Len(fetched) = Len(page)
                   /\ fetched = [i \in 1..Len(page) |-> PublicRow(plan, page[i], resource)]
<1>. DEFINE all == Answers(plan, compiled, db, resource)
            sort(row) == [i \in DOMAIN compiled.ordering |->
                            SortKey(plan, row, compiled.ordering[i], resource)]
            key == [row \in all |-> sort(row)]
<1>1. \E page \in FirstRows(all, Asked(compiled), compiled.ordering, key) :
        fetched = [i \in DOMAIN page |-> PublicRow(plan, page[i], resource)]
  BY DEF Fetches
<1>. HIDE DEF all, key
<1>2. PICK page \in FirstRows(all, Asked(compiled), compiled.ordering, key) :
        fetched = [i \in DOMAIN page |-> PublicRow(plan, page[i], resource)]
  BY <1>1
<1>3. IsPage(page, all, Asked(compiled))
  BY FirstRowsArePages
<1>4. DOMAIN page = 1..Len(page) /\ Len(page) \in Nat
  BY <1>3 DEF IsPage
<1>5. /\ fetched = [i \in 1..Len(page) |-> PublicRow(plan, page[i], resource)]
      /\ Len(fetched) = Len(page)
  BY <1>2, <1>4
<1>6. IsList(fetched)
  BY <1>4, <1>5 DEF IsList
<1>. QED  BY <1>3, <1>5, <1>6 DEF all

\* The limit of a compiled query; only one that is one row is not cut.
LEMMA CompiledLimit ==
  ASSUME NEW plan, NEW now, NEW resource, plan.limit \in 1..Limits.rows,
         plan.intent \in Intents
  PROVE  LET compiled == Compile(plan, now, resource) IN
         /\ compiled.limit \in 1..Limits.rows
         /\ \/ compiled.detectsTruncation /\ Asked(compiled) = compiled.limit + 1
            \/ /\ ~compiled.detectsTruncation /\ compiled.limit = 1 /\ Asked(compiled) = 1
               /\ plan.intent # "list" /\ plan.group = <<>>
<1>. DEFINE compiled == Compile(plan, now, resource)
            ungrouped == plan.intent = "aggregate" /\ plan.group = <<>>
<1>1. /\ compiled.limit = IF ungrouped THEN 1 ELSE plan.limit
      /\ compiled.detectsTruncation = ~ungrouped
  BY DEF Compile
<1>. HIDE DEF compiled
<1>2. 1 \in 1..Limits.rows
  BY LimitAssumption
<1>3. CASE ungrouped
  BY <1>1, <1>2, <1>3 DEF Asked, compiled
<1>4. CASE ~ungrouped
  BY <1>1, <1>4 DEF Asked, compiled
<1>. QED  BY <1>3, <1>4

\* The first n elements of a list.
LEMMA FirstOfList ==
  ASSUME NEW s, IsList(s), NEW n \in Nat
  PROVE  /\ IsList(Slice(s, n)) /\ Slice(s, n) = SubSeq(s, 1, Len(Slice(s, n)))
         /\ Len(Slice(s, n)) = IF n < Len(s) THEN n ELSE Len(s)
         /\ Slice(s, Len(Slice(s, n))) = Slice(s, n)
<1>. DEFINE S == {s[i] : i \in 1..Len(s)}
<1>1. s \in Seq(S) /\ Len(s) \in Nat
  BY ListIsSeq DEF IsList
<1>. HIDE DEF S
<1>2. CASE n >= Len(s)
  <2>1. Slice(s, n) = s
    BY <1>1, <1>2 DEF Slice
  <2>. QED  BY <1>1, <1>2, <2>1 DEF Slice
<1>3. CASE n < Len(s)
  <2>1. Slice(s, n) = SubSeq(s, 1, n)
    BY <1>1, <1>3 DEF Slice
  <2>2. SubSeq(s, 1, n) \in Seq(S) /\ Len(SubSeq(s, 1, n)) = n
    BY <1>1, <1>3
  <2>3. IsList(Slice(s, n))
    BY <2>1, <2>2, SeqIsList
  <2>. QED  BY <1>1, <1>3, <2>1, <2>2, <2>3
<1>. QED  BY <1>1, <1>2, <1>3

\* What a slice holds, the list holds.
LEMMA SliceKeeps ==
  ASSUME NEW s, IsList(s), NEW n \in Nat
  PROVE  ToSet(Slice(s, n)) \subseteq ToSet(s)
<1>. DEFINE S == {s[i] : i \in 1..Len(s)}
<1>1. s \in Seq(S) /\ Len(s) \in Nat
  BY ListIsSeq DEF IsList
<1>. HIDE DEF S
<1>2. CASE n >= Len(s)
  BY <1>1, <1>2 DEF Slice
<1>3. CASE n < Len(s)
  <2>1. Slice(s, n) = SubSeq(s, 1, n)
    BY <1>1, <1>3 DEF Slice
  <2>2. DOMAIN SubSeq(s, 1, n) = 1..n /\ \A i \in 1..n : SubSeq(s, 1, n)[i] = s[i] /\ i \in DOMAIN s
    BY <1>1, <1>3
  <2>. QED  BY <2>1, <2>2 DEF ToSet
<1>. QED  BY <1>1, <1>2, <1>3

\* What an execution returns of the answers there are: never more than the limit, all
\* of them unless it says so, and it says so only when some are left.
LEMMA OutcomeTells ==
  ASSUME NEW plan, NEW resource, Admitted(plan, resource), NEW now, NEW db \in Databases,
         NEW outcome \in Outcomes(plan, Compile(plan, now, resource), db, resource)
  PROVE  LET compiled == Compile(plan, now, resource)
             all == Cardinality(Answers(plan, compiled, db, resource))
         IN /\ all \in Nat /\ IsList(outcome.rows) /\ Len(outcome.rows) \in Nat
            /\ compiled.limit \in 1..Limits.rows /\ Len(outcome.rows) <= compiled.limit
            /\ outcome.truncated => Len(outcome.rows) = compiled.limit /\ all > compiled.limit
            /\ ~outcome.truncated => Len(outcome.rows) = all
<1>. DEFINE compiled == Compile(plan, now, resource)
            answers == Answers(plan, compiled, db, resource)
            all == Cardinality(answers)
            limit == compiled.limit
<1>1. plan.limit \in 1..Limits.rows /\ plan.intent \in Intents /\ IsPlan(plan)
  BY DEF Admitted, Parses
<1>2. /\ limit \in 1..Limits.rows
      /\ \/ compiled.detectsTruncation /\ Asked(compiled) = limit + 1
         \/ /\ ~compiled.detectsTruncation /\ limit = 1 /\ Asked(compiled) = 1
            /\ plan.intent # "list" /\ plan.group = <<>>
  BY <1>1, CompiledLimit
<1>3. IsFiniteSet(answers)
  BY <1>1, DatabaseAssumption, AnswersFinite DEF FiniteTables
<1>4. PICK fetched \in Fetches(plan, compiled, db, resource) :
        outcome = [rows |-> Slice(fetched, limit),
                   truncated |-> compiled.detectsTruncation /\ Len(fetched) > limit]
  BY DEF Outcomes
<1>5. ASSUME ~compiled.detectsTruncation  PROVE \E row : answers = {row}
  <2>1. plan.intent # "list" /\ plan.group = <<>>
    BY <1>2, <1>5
  <2>. HIDE DEF compiled
  <2>. QED  BY <2>1, UngroupedAnswer
<1>. HIDE DEF compiled
<1>6. PICK page : /\ IsPage(page, answers, Asked(compiled))
                  /\ IsList(fetched) /\ Len(fetched) = Len(page)
  BY <1>2, FetchedPage
<1>. HIDE DEF answers
<1>7. /\ Len(fetched) \in Nat /\ all \in Nat /\ Len(fetched) <= Asked(compiled)
      /\ Len(fetched) <= all /\ (Len(fetched) < Asked(compiled) => Len(fetched) = all)
  BY <1>2, <1>3, <1>6, PageOfAll
<1>8. /\ IsList(outcome.rows)
      /\ Len(outcome.rows) = IF limit < Len(fetched) THEN limit ELSE Len(fetched)
  BY <1>2, <1>4, <1>6, FirstOfList
<1>9. ASSUME ~compiled.detectsTruncation  PROVE all = 1
  BY <1>5, <1>9, FS_Singleton
<1>10. outcome.truncated = (compiled.detectsTruncation /\ Len(fetched) > limit)
  BY <1>4
<1>. DEFINE told == /\ Len(outcome.rows) \in Nat /\ Len(outcome.rows) <= limit
                    /\ outcome.truncated => Len(outcome.rows) = limit /\ all > limit
                    /\ ~outcome.truncated => Len(outcome.rows) = all
<1>. HIDE DEF limit, all
<1>11. PICK m : m = Len(fetched) /\ m \in Nat
  BY <1>7
<1>12. PICK asked : asked = Asked(compiled)
  OBVIOUS
<1>13. PICK n : n = Len(outcome.rows)
  OBVIOUS
<1>14. PICK detects : detects = compiled.detectsTruncation
  OBVIOUS
<1>15. told
  <2>1. /\ m \in Nat /\ all \in Nat /\ m <= asked /\ m <= all /\ (m < asked => m = all)
        /\ limit \in Nat /\ (~detects => all = 1)
        /\ n = IF limit < m THEN limit ELSE m
        /\ outcome.truncated = (detects /\ m > limit)
        /\ \/ detects /\ asked = limit + 1
           \/ ~detects /\ limit = 1 /\ asked = 1
    BY <1>2, <1>7, <1>8, <1>9, <1>10, <1>11, <1>12, <1>13, <1>14
  <2>2. n \in Nat /\ n <= limit
    BY <2>1
  <2>3. detects /\ m > limit => n = limit /\ all > limit
    BY <2>1
  <2>4. ~(detects /\ m > limit) => n = all
    BY <2>1
  <2>. QED  BY <1>13, <2>1, <2>2, <2>3, <2>4
<1>. HIDE DEF told
<1>. QED  BY <1>2, <1>7, <1>8, <1>15 DEF told, limit, all, answers, compiled

\* The outcome a query holds once it succeeded.
LEMMA FinishedOutcome ==
  ASSUME IndInv, Finished
  PROVE  LET outcome == [rows |-> query.rows, truncated |-> query.truncated] IN
         /\ query.compiled = Compile(query.plan, query.now, registered)
         /\ query.snapshot \in Databases /\ Admitted(query.plan, registered)
         /\ outcome \in Outcomes(query.plan, query.compiled, query.snapshot, registered)
         /\ outcome.rows = query.rows /\ outcome.truncated = query.truncated
BY DEF IndInv, QueryHolds, Finished

\* What two evaluations of a compiled plan over the same tables return.
LEMMA FetchesAgree ==
  ASSUME NEW decl, NEW r, Registered(decl, r), NEW db \in Databases, NEW plan,
         Admitted(plan, r), NEW now, NEW compiled, compiled = Compile(plan, now, r),
         \A n \in ToSet(plan.select) : Field(n, r).many = {},
         NEW s \in Fetches(plan, compiled, db, r), NEW t \in Fetches(plan, compiled, db, r)
  PROVE  s = t
<1>. DEFINE all == Answers(plan, compiled, db, r)
            ordering == compiled.ordering
            sort(row) == [i \in DOMAIN ordering |-> SortKey(plan, row, ordering[i], r)]
            key == [row \in all |-> sort(row)]
            pages == FirstRows(all, Asked(compiled), ordering, key)
            shown(page) == [i \in DOMAIN page |-> PublicRow(plan, page[i], r)]
<1>1. Fetches(plan, compiled, db, r) = {shown(page) : page \in pages}
  BY DEF Fetches
<1>2. IsPlan(plan) /\ FiniteTables(db) /\ plan.limit \in 1..Limits.rows /\ plan.intent \in Intents
  BY DatabaseAssumption DEF Admitted, Parses, FiniteTables
<1>3. IsFiniteSet(all)
  BY <1>2, AnswersFinite
<1>4. Asked(compiled) \in Nat
  <2>1. LET c == Compile(plan, now, r) IN
        c.limit \in 1..Limits.rows /\ (Asked(c) = c.limit + 1 \/ Asked(c) = 1)
    BY <1>2, CompiledLimit
  <2>. QED  BY <2>1, LimitAssumption
<1>5. \E class : /\ Sorted(all, ordering, key, class)
                 /\ \A a, b \in all : class[a] = class[b] =>
                      PublicRow(plan, a, r) = PublicRow(plan, b, r)
  <2>1. key = [a \in all |-> SortKeys(plan, a, ordering, r)]
    BY DEF SortKeys
  <2>2. CASE plan.intent = "list"
    <3>1. all = Ranged(plan, compiled, db, r)
      BY <2>2, AnswersOf
    <3>2. Sorted(all, ordering, key, key) /\ \A a, b \in all : key[a] = key[b] => a.root = b.root
      <4>. HIDE DEF all, key
      <4>. QED  BY <2>1, <2>2, <3>1, ListSorted
    <3>3. ASSUME NEW a \in all, NEW b \in all, key[a] = key[b]
          PROVE  PublicRow(plan, a, r) = PublicRow(plan, b, r)
      <4>1. a \in RowsOf(db) /\ b \in RowsOf(db)
        <5>. HIDE DEF all, key
        <5>. QED  BY <1>2, <3>1, RangedJoins
      <4>2. a.root = b.root
        BY <3>2, <3>3
      <4>. HIDE DEF all, key
      <4>. QED  BY <2>2, <4>1, <4>2, ShownAlike
    <3>. HIDE DEF all, key
    <3>. QED  BY <3>2, <3>3
  <2>3. CASE plan.intent # "list"
    <3>. DEFINE class == [a \in all |-> a]
    <3>1. Sorted(all, ordering, key, class)
      BY <2>1, <2>3, GroupsSorted
    <3>2. \A a, b \in all : class[a] = class[b] => a = b
      OBVIOUS
    <3>. HIDE DEF class, all, key
    <3>. QED  BY <3>1, <3>2
  <2>. QED  BY <2>2, <2>3
<1>. HIDE DEF all, key, ordering
<1>6. PICK class : /\ Sorted(all, ordering, key, class)
                   /\ \A a, b \in all : class[a] = class[b] =>
                        PublicRow(plan, a, r) = PublicRow(plan, b, r)
  BY <1>5
<1>7. PICK p \in pages : s = shown(p)
  BY <1>1
<1>8. PICK q \in pages : t = shown(q)
  BY <1>1
<1>9. IsPage(p, all, Asked(compiled)) /\ IsPage(q, all, Asked(compiled)) /\ Alike(p, q, class)
  BY <1>3, <1>4, <1>6, FirstRowsArePages, PagesAgree
<1>10. /\ p \in Seq(all) /\ q \in Seq(all) /\ Len(p) = Len(q)
       /\ \A i \in 1..Len(p) : class[p[i]] = class[q[i]]
  BY <1>9 DEF IsPage, Alike
<1>11. DOMAIN p = DOMAIN q /\ \A i \in DOMAIN p :
         PublicRow(plan, p[i], r) = PublicRow(plan, q[i], r)
  BY <1>6, <1>10
<1>. QED  BY <1>7, <1>8, <1>11

\* Every row of an outcome shows one of the answers.
LEMMA ShownRow ==
  ASSUME NEW plan, NEW resource, Admitted(plan, resource), NEW now, NEW compiled,
         compiled = Compile(plan, now, resource), NEW db \in Databases,
         NEW outcome \in Outcomes(plan, compiled, db, resource), NEW row \in ToSet(outcome.rows)
  PROVE  \E a \in Answers(plan, compiled, db, resource) : row = PublicRow(plan, a, resource)
<1>. DEFINE answers == Answers(plan, compiled, db, resource)
            shown(a) == PublicRow(plan, a, resource)
<1>1. compiled.limit \in Nat /\ Asked(compiled) \in Nat
  <2>1. plan.limit \in 1..Limits.rows /\ plan.intent \in Intents
    BY DEF Admitted, Parses
  <2>2. LET c == Compile(plan, now, resource) IN
        c.limit \in 1..Limits.rows /\ (Asked(c) = c.limit + 1 \/ Asked(c) = 1)
    BY <2>1, CompiledLimit
  <2>. QED  BY <2>2, LimitAssumption
<1>2. PICK fetched \in Fetches(plan, compiled, db, resource) :
        outcome.rows = Slice(fetched, compiled.limit)
  BY DEF Outcomes
<1>. HIDE DEF answers
<1>3. PICK page :
        /\ IsPage(page, answers, Asked(compiled)) /\ IsList(fetched) /\ Len(fetched) = Len(page)
        /\ fetched = [i \in 1..Len(page) |-> shown(page[i])]
  BY <1>1, FetchedPage DEF answers
<1>4. row \in ToSet(fetched)
  BY <1>1, <1>2, <1>3, SliceKeeps
<1>5. page \in Seq(answers)
  BY <1>3 DEF IsPage
<1>6. PICK i \in 1..Len(page) : row = shown(page[i])
  BY <1>3, <1>4 DEF ToSet
<1>. QED  BY <1>5, <1>6 DEF answers

-----------------------------------------------------------------------------
(* The theorems *)

\* The lengths of results and payloads follow from what their outcomes are.
LEMMA TypesFollow == IndInv => TypeOK
<1>. SUFFICES ASSUME IndInv PROVE TypeOK
  OBVIOUS
<1>1. QueryHolds(query, registered) /\ database \in Databases /\ writes \in 0..MaxWrites
  BY DEF IndInv
<1>2. ASSUME query.phase \in {"succeeded", "sent"}
      PROVE  /\ Len(query.rows) <= query.compiled.limit
             /\ query.compiled.limit <= Limits.rows /\ IsList(query.rows)
             /\ query.truncated => Len(query.rows) = query.compiled.limit
  <2>. DEFINE outcome == [rows |-> query.rows, truncated |-> query.truncated]
  <2>1. /\ query.compiled = Compile(query.plan, query.now, registered)
        /\ query.snapshot \in Databases /\ Admitted(query.plan, registered)
        /\ outcome \in Outcomes(query.plan, query.compiled, query.snapshot, registered)
        /\ outcome.rows = query.rows /\ outcome.truncated = query.truncated
    BY <1>2, FinishedOutcome DEF Finished
  <2>. HIDE DEF outcome
  <2>. QED  BY <2>1, OutcomeTells
<1>3. ASSUME query.phase = "sent"
      PROVE  /\ query.sent.mcpLimit \in Nat \cup {None}
             /\ query.sent.mcpLimit # None =>
                  Len(query.sent.data) <= query.sent.mcpLimit
  <2>1. PICK include, allowed \in BOOLEAN, cap \in Caps :
          query.sent = McpPayload(query.rows, query.truncated, include, allowed, cap)
    BY <1>1, <1>3 DEF QueryHolds
  <2>2. McpMaxReturnedRows(cap) \in Nat
    BY BoundAssumption DEF McpMaxReturnedRows
  <2>3. IsList(query.rows) /\ Len(query.rows) \in Nat
    BY <1>2, <1>3 DEF IsList
  <2>4. Len(Slice(query.rows, McpMaxReturnedRows(cap))) <= McpMaxReturnedRows(cap)
    BY <2>2, <2>3, FirstOfList
  <2>. QED  BY <2>1, <2>2, <2>4 DEF McpPayload
<1>. QED  BY <1>1, <1>2, <1>3 DEF TypeOK, QueryHolds

\* The variables have their types in every state: a result obeys its limit, which is
\* never above the host's, a result that is cut is as long as its limit, and a payload
\* obeys the cap of the MCP server.  (orm.py, runner.py, core.py)
THEOREM TypeCorrect == Spec => []TypeOK
BY InvHolds, TypesFollow, PTL

\* What a payload reports and holds, against the answers there were.
LEMMA RowsFollow == IndInv => NothingSilentlyMissing
<1>. SUFFICES ASSUME IndInv, query.phase = "sent" PROVE NothingSilentlyMissing
  BY DEF NothingSilentlyMissing
<1>. DEFINE all == Cardinality(Answers(query.plan, query.compiled, query.snapshot, registered))
            outcome == [rows |-> query.rows, truncated |-> query.truncated]
            payload == query.sent
<1>1. /\ query.compiled = Compile(query.plan, query.now, registered)
      /\ query.snapshot \in Databases /\ Admitted(query.plan, registered)
      /\ outcome \in Outcomes(query.plan, query.compiled, query.snapshot, registered)
      /\ outcome.rows = query.rows /\ outcome.truncated = query.truncated
  BY FinishedOutcome DEF Finished
<1>. HIDE DEF outcome
<1>2. /\ all \in Nat /\ IsList(query.rows) /\ Len(query.rows) \in Nat
      /\ query.truncated => Len(query.rows) = query.compiled.limit /\ all > query.compiled.limit
      /\ ~query.truncated => Len(query.rows) = all
  BY <1>1, OutcomeTells
<1>3. PICK include, allowed \in BOOLEAN, cap \in Caps :
        payload = McpPayload(query.rows, query.truncated, include, allowed, cap)
  BY DEF IndInv, QueryHolds
<1>. DEFINE most == McpMaxReturnedRows(cap)
<1>4. most \in Nat
  BY BoundAssumption DEF McpMaxReturnedRows
<1>. HIDE DEF all, payload, most
<1>5. /\ Len(Slice(query.rows, most)) = IF most < Len(query.rows) THEN most ELSE Len(query.rows)
      /\ Slice(query.rows, Len(Slice(query.rows, most))) = Slice(query.rows, most)
  BY <1>2, <1>4, FirstOfList
<1>6. Slice(query.rows, Len(<<>>)) = <<>>
  <2>1. Len(Slice(query.rows, 0)) = 0 /\ IsList(Slice(query.rows, 0))
    BY <1>2, FirstOfList
  <2>. QED  BY <2>1 DEF IsList
<1>7. CASE include /\ allowed
  <2>1. /\ payload.data = Slice(query.rows, most) /\ payload.rowCount = Len(query.rows)
        /\ payload.truncated = query.truncated /\ payload.omitted = FALSE
        /\ payload.mcpTruncated = (Len(query.rows) > most)
    BY <1>3, <1>7 DEF McpPayload, most
  <2>. QED  BY <1>2, <1>4, <1>5, <2>1 DEF NothingSilentlyMissing, all, payload
<1>8. CASE ~(include /\ allowed)
  <2>1. /\ payload.data = <<>> /\ payload.rowCount = Len(query.rows)
        /\ payload.truncated = query.truncated /\ payload.omitted = TRUE
    BY <1>3, <1>8 DEF McpPayload
  <2>. QED  BY <1>2, <1>6, <2>1 DEF NothingSilentlyMissing, all, payload
<1>. QED  BY <1>7, <1>8

\* Rows are withheld only in sight, in every state: see NothingSilentlyMissing.
THEOREM RowsAccounted == Spec => []NothingSilentlyMissing
BY InvHolds, RowsFollow, PTL

\* The pages of two runs of one plan over the same tables are one.
LEMMA AgreementFollows == IndInv => ReloadsAgree
<1>. SUFFICES ASSUME IndInv, Finished, query.earlier # None,
                     query.earlier.snapshot = query.snapshot,
                     query.earlier.windows = query.compiled.windows,
                     \A n \in ToSet(query.plan.select) : Field(n, registered).many = {}
              PROVE  /\ query.earlier.rows = query.rows
                     /\ query.earlier.truncated = query.truncated
  BY DEF ReloadsAgree
<1>. DEFINE compiled == Compile(query.plan, query.now, registered)
            fetches == Fetches(query.plan, compiled, query.snapshot, registered)
            outcome == [rows |-> query.rows, truncated |-> query.truncated]
            before == [rows |-> query.earlier.rows, truncated |-> query.earlier.truncated]
            Out(fetched) == [rows |-> Slice(fetched, compiled.limit),
                             truncated |-> compiled.detectsTruncation
                                             /\ Len(fetched) > compiled.limit]
<1>1. PICK decl : Registered(decl, registered)
  BY DEF IndInv, Registrations, Registered
<1>2. /\ query.snapshot \in Databases /\ Admitted(query.plan, registered)
      /\ outcome \in Outcomes(query.plan, compiled, query.snapshot, registered)
  BY FinishedOutcome
<1>3. before \in Outcomes(query.plan, compiled, query.snapshot, registered)
  <2>1. PICK now \in Instants :
          EarlierRun(query.earlier, Compile(query.plan, now, registered), query.plan, registered)
    BY DEF IndInv, QueryHolds
  <2>2. Compile(query.plan, now, registered).windows = compiled.windows
    BY <2>1, FinishedOutcome DEF EarlierRun
  <2>3. Compile(query.plan, now, registered) = compiled
    BY <2>2 DEF Compile
  <2>. QED  BY <2>1, <2>3 DEF EarlierRun
<1>4. Outcomes(query.plan, compiled, query.snapshot, registered) =
        {Out(fetched) : fetched \in fetches}
  BY DEF Outcomes
<1>. HIDE DEF outcome, before, fetches, Out
<1>5. PICK s \in fetches : outcome = Out(s)
  BY <1>2, <1>4
<1>6. PICK t \in fetches : before = Out(t)
  BY <1>3, <1>4
<1>7. s = t
  <2>. HIDE DEF compiled
  <2>1. compiled = Compile(query.plan, query.now, registered)
    BY DEF compiled
  <2>. QED  BY <1>1, <1>2, <2>1, FetchesAgree DEF fetches
<1>8. outcome = before
  BY <1>5, <1>6, <1>7
<1>9. /\ outcome.rows = query.rows /\ outcome.truncated = query.truncated
      /\ before.rows = query.earlier.rows /\ before.truncated = query.earlier.truncated
  BY DEF outcome, before
<1>. QED  BY <1>8, <1>9

\* Asking again for the same plan over the same tables gives the same page: see
\* ReloadsAgree.  (orm.py: tie-breakers)
THEOREM ReloadsEqual == Spec => []ReloadsAgree
BY InvHolds, AgreementFollows, PTL

\* A result that is refused comes of tables with an unregistered value.
LEMMA RefusalTells == IndInv => NullsAreDeclared
<1>. SUFFICES ASSUME IndInv, query.phase = "failed", query.code = "ResultSerialization"
              PROVE  \E c \in Columns(query.plan, registered) :
                       Unregistered(c, query.snapshot, registered)
  BY DEF NullsAreDeclared, Unregistered
<1>. DEFINE compiled == Compile(query.plan, query.now, registered)
            answers == Answers(query.plan, compiled, query.snapshot, registered)
            columns == Columns(query.plan, registered)
            shown(a) == PublicRow(query.plan, a, registered)
<1>1. PICK decl : Registered(decl, registered)
  BY DEF IndInv, Registrations, Registered
<1>2. query.snapshot \in Databases /\ Admitted(query.plan, registered)
  BY DEF IndInv, QueryHolds
<1>. HIDE DEF answers, columns
<1>3. PICK outcome \in Outcomes(query.plan, compiled, query.snapshot, registered) :
        ~RowsAccepted(query.plan, outcome.rows, registered)
  BY DEF IndInv, QueryHolds
<1>4. PICK row \in ToSet(outcome.rows) :
        ~(DOMAIN row = {c.key : c \in columns} /\ \A c \in columns : CellAccepted(c, row[c.key]))
  BY <1>3 DEF RowsAccepted, columns
<1>5. PICK a \in answers : row = shown(a)
  <2>1. compiled = Compile(query.plan, query.now, registered)
    OBVIOUS
  <2>. HIDE DEF compiled
  <2>2. \E a \in Answers(query.plan, compiled, query.snapshot, registered) :
          row = PublicRow(query.plan, a, registered)
    BY <1>2, <1>4, <2>1, ShownRow
  <2>. QED  BY <2>2 DEF answers
<1>. HIDE DEF compiled, shown
<1>6. /\ DOMAIN row = {c.key : c \in columns}
      /\ \A c \in columns :
           CellAccepted(c, row[c.key]) \/ Unregistered(c, query.snapshot, registered)
  BY <1>1, <1>2, <1>5, AnswerShown DEF answers, columns, shown
<1>. QED  BY <1>4, <1>6 DEF columns

\* No null of a column or of a join makes an accepted plan fail: see NullsAreDeclared.
\* (resources.py: nullability; serialization.py)
THEOREM NullsExpected == Spec => []NullsAreDeclared
BY InvHolds, RefusalTells, PTL

\* The rows of a result show the values of its metrics.
LEMMA ValuesFollow == IndInv => MetricsAreTrue
<1>. DEFINE plan == query.plan
            grains == {Metric(n, registered).many : n \in ToSet(plan.metrics)}
<1>. SUFFICES ASSUME IndInv, Finished, plan.intent = "aggregate", Cardinality(grains) = 1,
                     Cardinality(EdgeFilters(plan, registered)) <= 1,
                     \A i \in EdgeFilters(plan, registered) : plan.filters[i].op # "neq",
                     GroupNames(plan) \cap ToSet(plan.metrics) = {},
                     NEW row \in ToSet(query.rows), NEW n \in ToSet(plan.metrics)
              PROVE  row[n] = TrueValue(Metric(n, registered), row, plan,
                                        query.compiled.windows, query.snapshot, registered)
  BY DEF MetricsAreTrue, TrueFor
<1>. DEFINE compiled == Compile(plan, query.now, registered)
            outcome == [rows |-> query.rows, truncated |-> query.truncated]
            answers == Answers(plan, compiled, query.snapshot, registered)
            shown(a) == PublicRow(plan, a, registered)
<1>1. PICK decl : Registered(decl, registered)
  BY DEF IndInv, Registrations, Registered
<1>2. /\ query.compiled = compiled /\ query.snapshot \in Databases
      /\ Admitted(plan, registered)
      /\ outcome \in Outcomes(plan, compiled, query.snapshot, registered)
      /\ outcome.rows = query.rows
  BY FinishedOutcome
<1>. HIDE DEF outcome, answers
<1>3. PICK a \in answers : row = shown(a)
  BY <1>2, ShownRow DEF answers
<1>4. compiled.ordering = BuildGroupedOrdering(plan)
  BY DEF Compile
<1>. HIDE DEF compiled, shown, plan
<1>5. shown(a)[n] = TrueValue(Metric(n, registered), shown(a), plan, compiled.windows,
                              query.snapshot, registered)
  BY <1>1, <1>2, <1>4, MetricShown DEF answers, shown
<1>. QED  BY <1>2, <1>3, <1>5 DEF plan

\* A metric counts every row it was registered for once: see MetricsAreTrue.
\* (validation.py: fan-out; orm.py: joins)
THEOREM MetricsTrue == Spec => []MetricsAreTrue
BY InvHolds, ValuesFollow, PTL

-----------------------------------------------------------------------------
(* Relative windows *)

\* The windows of a compiled query are those of the calendar.
LEMMA WindowsFollow == IndInv => WindowsAgree
<1>. SUFFICES ASSUME IndInv, query.phase = "compiled",
                     NEW i \in DOMAIN query.plan.filters, query.compiled.windows[i] # None
              PROVE  LET zone == registered.timezone
                         window == query.compiled.windows[i]
                         months == query.plan.filters[i].value.items[1].value
                         dates == DateBounds(window, zone)
                         today == DateOf(LocalDay(zone, query.now))
                         then == DateOf(LocalDay(zone, window.start))
                         Reads(t) == Wall(zone, t) % 24 = Wall(zone, query.now) % 24
                     IN /\ window.start < window.end /\ window.end = query.now
                        /\ {LocalDay(zone, t) : t \in window.start..window.end - 1}
                             = dates.first..dates.last
                        /\ Field(query.plan.filters[i].field, registered).type = "date" =>
                             dates.first \in Nat
                        /\ query.plan.filters[i].op = "last_n_months" =>
                             /\ 12 * then.year + then.month = 12 * today.year + today.month - months
                             /\ then.day = today.day \/
                                  (then.day < today.day
                                     /\ then.day = MonthLength(then.year, then.month))
                             /\ IF Reads(window.start)
                                THEN ~\E t \in window.start - 3..window.start - 1 :
                                       Reads(t) /\ LocalDay(zone, t) = LocalDay(zone, window.start)
                                ELSE ~\E t \in window.start - 24..window.start + 24 :
                                       Reads(t) /\ LocalDay(zone, t) = LocalDay(zone, window.start)
  BY DEF WindowsAgree
<1>. DEFINE zone == registered.timezone
            now == query.now
            filter == query.plan.filters[i]
            months == filter.value.items[1].value
            bounds == RelativeBounds(filter.op, months, now, zone)
            window == query.compiled.windows[i]
            wall == Wall(zone, now)
            Reads(t) == Wall(zone, t) % 24 = wall % 24
<1>1. /\ QueryHolds(query, registered)
      /\ query.compiled = Compile(query.plan, query.now, registered)
      /\ WindowsCode(query.plan, query.compiled.windows, registered) = "ok"
      /\ Admitted(query.plan, registered)
      /\ Amounts(query.plan) /\ query.now \in Instants
  BY DEF IndInv, QueryHolds
<1>2. zone \in DOMAIN Clocks
  <2>1. PICK decl \in Declarations :
          DeclarationAccepted(decl, None) /\ registered = BuildResource(decl, None)
    BY DEF IndInv, Registrations
  <2>2. decl.timezone \in Zones /\ registered.timezone = decl.timezone
    BY <2>1 DEF DeclarationAccepted, BuildResource
  <2>. QED  BY <2>2, InstantAssumption
<1>3. now \in Nat /\ 24 <= now
  BY <1>1, InstantAssumption
<1>4. query.compiled.windows
        = [j \in DOMAIN query.plan.filters |->
             IF query.plan.filters[j].op \in {"last_n_days", "last_n_months"}
             THEN RelativeBounds(query.plan.filters[j].op,
                                 query.plan.filters[j].value.items[1].value, now, zone)
             ELSE None]
  <2>1. query.compiled.windows = Windows(query.plan, now, registered)
    BY <1>1 DEF Compile
  <2>. QED  BY <2>1 DEF Windows
<1>5. filter.op \in {"last_n_days", "last_n_months"} /\ window = bounds
  BY <1>4
<1>6. /\ window # OutOfRange
      /\ Field(filter.field, registered).type = "date" => Wall(zone, window.start) >= 0
  <2>1. DOMAIN query.plan.filters \subseteq Nat
    BY <1>1 DEF Admitted, IsPlan, IsList
  <2>2. WindowCode(filter, window, registered) = "ok" /\ window # None
    BY <1>1, <2>1, WindowsCodeTells
  <2>. HIDE DEF filter, window
  <2>. QED  BY <2>2 DEF WindowCode, Check
<1>7. months \in Nat \ {0}
  <2>1. filter \in ToSet(query.plan.filters)
    BY DEF ToSet
  <2>. QED  BY <1>1, <1>5, <2>1 DEF Amounts
<1>. DEFINE start == window.start
<1>8. /\ window = [start |-> start, end |-> now] /\ start \in Nat /\ start < now
      /\ filter.op = "last_n_months" =>
           \E then \in Nat :
             /\ start = ResolveLocalWallTime(zone, then) /\ then % 24 = wall % 24
             /\ MonthsBefore(DateOf(then \div 24), DateOf(wall \div 24), months)
  <2>. HIDE DEF zone, now, filter, months, window
  <2>. QED  BY <1>2, <1>3, <1>5, <1>6, <1>7, WindowHolds DEF bounds, wall
<1>. HIDE DEF zone, now, filter, months, window, start
<1>9. window.start = start /\ window.end = now
  BY <1>8
<1>10. {LocalDay(zone, t) : t \in start..now - 1}
         = LocalDay(zone, start)..LocalDay(zone, now - 1)
  <2>1. start \in Int /\ now - 1 \in Int /\ start <= now - 1
    BY <1>3, <1>8
  <2>. QED  BY <1>2, <2>1, DaysOfWindow
<1>11. /\ DateBounds(window, zone).first = LocalDay(zone, start)
       /\ DateBounds(window, zone).last = LocalDay(zone, now - 1)
  BY <1>9 DEF DateBounds
<1>12. Field(filter.field, registered).type = "date" => DateBounds(window, zone).first \in Nat
  <2>1. Wall(zone, start) \in Int
    BY <1>2, <1>8, WallsBound
  <2>. QED  BY <1>6, <1>9, <1>11, <2>1 DEF LocalDay
<1>13. ASSUME filter.op = "last_n_months"
       PROVE  LET then == DateOf(LocalDay(zone, start))
                  today == DateOf(LocalDay(zone, now))
              IN /\ 12 * then.year + then.month = 12 * today.year + today.month - months
                 /\ then.day = today.day \/
                      (then.day < today.day /\ then.day = MonthLength(then.year, then.month))
                 /\ IF Reads(start)
                    THEN ~\E t \in start - 3..start - 1 :
                           Reads(t) /\ LocalDay(zone, t) = LocalDay(zone, start)
                    ELSE ~\E t \in start - 24..start + 24 :
                           Reads(t) /\ LocalDay(zone, t) = LocalDay(zone, start)
  <2>1. PICK then \in Nat :
          /\ start = ResolveLocalWallTime(zone, then) /\ then % 24 = wall % 24
          /\ MonthsBefore(DateOf(then \div 24), DateOf(wall \div 24), months)
    BY <1>8, <1>13
  <2>2. /\ LocalDay(zone, start) = then \div 24
        /\ \/ /\ Wall(zone, start) = then
              /\ \A t \in start - 3..start - 1 : Wall(zone, t) # then
           \/ /\ Wall(zone, start) - then \in 1..3
              /\ \A t \in start - 24..start + 24 : Wall(zone, t) # then
    BY <1>2, <2>1, WallResolved
  <2>3. LocalDay(zone, now) = wall \div 24
    BY DEF LocalDay, wall
  <2>4. \A t \in Int : Wall(zone, t) \in Int
    BY <1>2, WallsBound
  <2>5. ASSUME NEW t \in Int, Reads(t), LocalDay(zone, t) = LocalDay(zone, start)
        PROVE  Wall(zone, t) = then
    <3>1. Wall(zone, t) \div 24 = then \div 24 /\ Wall(zone, t) % 24 = then % 24
      BY <2>1, <2>2, <2>5 DEF LocalDay
    <3>. QED  BY <2>4, <3>1
  <2>6. Reads(start) <=> Wall(zone, start) = then
    <3>1. Wall(zone, start) = then => Reads(start)
      BY <2>1
    <3>. QED  BY <1>8, <2>5, <3>1
  <2>7. IF Reads(start)
        THEN \A t \in start - 3..start - 1 : Wall(zone, t) # then
        ELSE \A t \in start - 24..start + 24 : Wall(zone, t) # then
    BY <1>8, <2>2, <2>4, <2>6
  <2>. HIDE DEF Reads, wall
  <2>8. start - 3..start - 1 \subseteq Int /\ start - 24..start + 24 \subseteq Int
    BY <1>8
  <2>9. IF Reads(start)
        THEN ~\E t \in start - 3..start - 1 :
               Reads(t) /\ LocalDay(zone, t) = LocalDay(zone, start)
        ELSE ~\E t \in start - 24..start + 24 :
               Reads(t) /\ LocalDay(zone, t) = LocalDay(zone, start)
    BY <2>5, <2>7, <2>8
  <2>. QED  BY <2>1, <2>2, <2>3, <2>9 DEF MonthsBefore
<1>. QED  BY <1>8, <1>9, <1>10, <1>11, <1>13, <1>12 DEF zone, now, filter, months, window, wall

\* A relative window ends now, its dates are those a date field is compared with, and
\* it starts whole months ago: see WindowsAgree.  (dates.py, filters.py)
THEOREM WindowsTrue == Spec => []WindowsAgree
BY InvHolds, WindowsFollow, PTL
=============================================================================
