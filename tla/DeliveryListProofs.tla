------------------------- MODULE DeliveryListProofs -------------------------
(***************************************************************************)
(* Proofs about the delivery lists: a walk through the pages shows no row  *)
(* twice and skips none, except where a transaction wrote the row or a     *)
(* page ends in its millisecond, for every number of deliveries, page      *)
(* size, filter and order of answers.                                      *)
(***************************************************************************)
EXTENDS DeliveryList, FiniteSetTheorems, TLAPS

-----------------------------------------------------------------------------
(* Lists in order *)

\* ahead is a strict total order of S, given by what comes before each member.
TotalOrder(S, ahead) ==
  /\ ahead \in [S -> SUBSET S]
  /\ \A i \in S : i \notin ahead[i]
  /\ \A i, j \in S : i = j \/ i \in ahead[j] \/ j \in ahead[i]
  /\ \A i, j \in S : j \in ahead[i] => ahead[j] \subseteq ahead[i]

\* The number of those before a member places it: each of 0 .. |S| - 1 is the
\* place of one member.
LEMMA Places ==
  ASSUME NEW S, IsFiniteSet(S), NEW ahead, TotalOrder(S, ahead)
  PROVE  /\ \A i \in S : Cardinality(ahead[i]) \in 0 .. Cardinality(S) - 1
         /\ \A i, j \in S : j \in ahead[i] <=> Cardinality(ahead[j]) < Cardinality(ahead[i])
         /\ \A k \in 0 .. Cardinality(S) - 1 : \E i \in S : Cardinality(ahead[i]) = k
  <1> DEFINE N == Cardinality(S)
             rank == [i \in S |-> Cardinality(ahead[i])]
  <1>1. N \in Nat
    BY FS_CardinalityType
  <1>2. ASSUME NEW i \in S
        PROVE  IsFiniteSet(ahead[i]) /\ Cardinality(ahead[i]) \in 0 .. N - 1
    <2>1. i \notin ahead[i] /\ ahead[i] \in SUBSET S
      BY DEF TotalOrder
    <2>2. IsFiniteSet(ahead[i])
      BY <2>1, FS_Subset
    <2>3. IsFiniteSet(ahead[i] \cup {i}) /\ Cardinality(ahead[i] \cup {i}) = Cardinality(ahead[i]) + 1
      BY <2>1, <2>2, FS_AddElement
    <2>4. Cardinality(ahead[i] \cup {i}) <= N
      <3>1. ahead[i] \cup {i} \in SUBSET S
        BY <2>1
      <3> QED  BY <3>1, FS_Subset
    <2>5. Cardinality(ahead[i]) \in Nat
      BY <2>2, FS_CardinalityType
    <2> QED  BY <1>1, <2>2, <2>3, <2>4, <2>5
  <1>3. ASSUME NEW i \in S, NEW j \in ahead[i]
        PROVE  Cardinality(ahead[j]) < Cardinality(ahead[i])
    <2>1. j \in S /\ j \notin ahead[j] /\ ahead[j] \subseteq ahead[i]
      BY DEF TotalOrder
    <2>2. Cardinality(ahead[j] \cup {j}) = Cardinality(ahead[j]) + 1
      BY <1>2, <2>1, FS_AddElement, Zenon
    <2>3. Cardinality(ahead[j] \cup {j}) <= Cardinality(ahead[i])
      <3>1. ahead[j] \cup {j} \in SUBSET ahead[i]
        BY <2>1
      <3> QED  BY <1>2, <3>1, FS_Subset
    <2>4. Cardinality(ahead[j]) \in Nat /\ Cardinality(ahead[i]) \in Nat
      BY <1>1, <1>2, <2>1
    <2> QED  BY <2>2, <2>3, <2>4
  <1>4. \A i, j \in S : i = j \/ i \in ahead[j] \/ j \in ahead[i]
    BY DEF TotalOrder
  <1>5. \A i \in S : Cardinality(ahead[i]) \in Nat
    BY <1>1, <1>2
  <1>6. \A i, j \in S : j \in ahead[i] <=> Cardinality(ahead[j]) < Cardinality(ahead[i])
    BY <1>3, <1>4, <1>5
  <1>7. rank \in Injection(S, 0 .. N - 1)
    <2>1. rank \in [S -> 0 .. N - 1]
      BY <1>2
    <2>2. \A i, j \in S : rank[i] = rank[j] => i = j
      BY <1>3, <1>4, <1>5
    <2> QED  BY <2>1, <2>2 DEF Injection, IsInjective
  <1>8. IsFiniteSet(0 .. N - 1) /\ Cardinality(0 .. N - 1) = N
    <2>1. 0 \in Int /\ N - 1 \in Int
      BY <1>1
    <2>2. IsFiniteSet(0 .. N - 1) /\ Cardinality(0 .. N - 1) = IF 0 > N - 1 THEN 0 ELSE N - 1 - 0 + 1
      BY <2>1, FS_Interval, Zenon
    <2> QED  BY <1>1, <2>2
  <1>9. rank \in Surjection(S, 0 .. N - 1)
    BY <1>7, <1>8, FS_Injection, Zenon
  <1> QED  BY <1>2, <1>6, <1>9, Zenon DEF Surjection

\* Ordered lists the first n members of S, in order.
LEMMA OrderedList ==
  ASSUME NEW S, IsFiniteSet(S), NEW ahead, TotalOrder(S, ahead), NEW n \in Nat
  PROVE  LET s == Ordered(S, ahead, n)
         IN  /\ s \in Seq(S) /\ Len(s) = Lesser(n, Cardinality(S))
             /\ \A p, q \in DOMAIN s : p < q => s[p] \in ahead[s[q]]
             /\ \A i \in S : i \in Range(s) \/ (\A p \in DOMAIN s : s[p] \in ahead[i])
             /\ n >= Cardinality(S) => Range(s) = S
  <1> DEFINE L == Lesser(n, Cardinality(S))
             s == Ordered(S, ahead, n)
  <1>1. L \in Nat /\ L <= Cardinality(S) /\ Cardinality(S) \in Nat
    BY FS_CardinalityType DEF Lesser
  <1>2. DOMAIN s = 1 .. L
    BY DEF Ordered
  <1>3. ASSUME NEW k \in 1 .. L
        PROVE  s[k] \in S /\ Cardinality(ahead[s[k]]) = k - 1
    <2>1. k - 1 \in 0 .. Cardinality(S) - 1
      BY <1>1
    <2>2. \E i \in S : Cardinality(ahead[i]) = k - 1
      BY <2>1, Places
    <2>3. s[k] = CHOOSE i \in S : Cardinality(ahead[i]) = k - 1
      BY DEF Ordered
    <2> QED  BY <2>2, <2>3
  <1>4. s \in Seq(S) /\ Len(s) = L
    <2>1. s \in [1 .. L -> S]
      BY <1>2, <1>3, Zenon DEF Ordered
    <2> QED  BY <1>1, <2>1
  <1>5. ASSUME NEW p \in DOMAIN s, NEW q \in DOMAIN s, p < q
        PROVE  s[p] \in ahead[s[q]]
    BY <1>1, <1>2, <1>3, <1>5, Places
  <1>6. ASSUME NEW i \in S, Cardinality(ahead[i]) < L
        PROVE  i \in Range(s)
    <2> DEFINE k == Cardinality(ahead[i]) + 1
    <2>1. Cardinality(ahead[i]) \in Nat /\ k \in 1 .. L /\ k - 1 = Cardinality(ahead[i])
      BY <1>1, <1>6, Places
    <2>2. s[k] \in S /\ Cardinality(ahead[s[k]]) = Cardinality(ahead[i])
      BY <1>3, <2>1
    <2>3. s[k] = i
      <3>1. s[k] \notin ahead[i] /\ i \notin ahead[s[k]]
        BY <1>1, <2>1, <2>2, Places
      <3> QED  BY <2>2, <3>1 DEF TotalOrder
    <2> QED  BY <1>2, <2>1, <2>3 DEF Range
  <1>7. ASSUME NEW i \in S, i \notin Range(s), NEW p \in DOMAIN s
        PROVE  s[p] \in ahead[i]
    <2>1. p \in 1 .. L /\ s[p] \in S /\ Cardinality(ahead[s[p]]) = p - 1
      BY <1>2, <1>3
    <2>2. Cardinality(ahead[i]) \in Nat /\ Cardinality(ahead[i]) >= L
      BY <1>1, <1>6, <1>7, Places
    <2>3. Cardinality(ahead[s[p]]) < Cardinality(ahead[i])
      BY <1>1, <2>1, <2>2
    <2> QED  BY <2>1, <2>3, Places
  <1>8. n >= Cardinality(S) => Range(s) = S
    <2> SUFFICES ASSUME n >= Cardinality(S)
                 PROVE  Range(s) = S
      OBVIOUS
    <2>1. L = Cardinality(S)
      BY <1>1 DEF Lesser
    <2>2. \A i \in S : Cardinality(ahead[i]) < L
      BY <1>1, <2>1, Places
    <2> QED  BY <1>2, <1>3, <1>6, <2>2, Zenon DEF Range
  <1> QED  BY <1>4, <1>5, <1>7, <1>8

-----------------------------------------------------------------------------
(* The order of the pages *)

\* Cancellation in the natural numbers.
LEMMA Cancel ==
  ASSUME NEW a \in Nat, NEW b \in Nat, NEW c \in Nat \ {0}, a * c < b * c + c
  PROVE  a <= b
  <1>1. ASSUME a > b
        PROVE  FALSE
    <2>1. PICK d \in Nat : a = b + 1 + d
      <3>1. a - b - 1 \in Nat /\ a = b + 1 + (a - b - 1)
        BY <1>1
      <3> QED  BY <3>1
    <2>2. a * c = b * c + c + d * c
      BY <2>1
    <2>3. d * c \in Nat /\ b * c \in Nat
      OBVIOUS
    <2> QED  BY <2>2, <2>3
  <1> QED  BY <1>1

\* A page appended to a list: a row is there twice if one of them has it twice
\* or both have it.
LEMMA Appended ==
  ASSUME NEW s \in Seq(Ids), NEW t \in Seq(Ids)
  PROVE  LET u == s \o t
         IN  /\ Range(u) = Range(s) \cup Range(t)
             /\ \A p, q \in DOMAIN u : p # q /\ u[p] = u[q] =>
                  \/ \E a, b \in DOMAIN s : a # b /\ s[a] = s[b] /\ s[a] = u[p]
                  \/ \E a, b \in DOMAIN t : a # b /\ t[a] = t[b]
                  \/ u[p] \in Range(s) \cap Range(t)
  <1> DEFINE u == s \o t
             n == Len(s)
             k == Len(t)
  <1>1. /\ n \in Nat /\ k \in Nat /\ DOMAIN s = 1 .. n /\ DOMAIN t = 1 .. k /\ DOMAIN u = 1 .. n + k
        /\ \A p \in 1 .. n : p \in 1 .. n + k /\ u[p] = s[p]
        /\ \A p \in 1 .. k : p + n \in 1 .. n + k /\ u[p + n] = t[p]
    OBVIOUS
  <1>2. \A p \in 1 .. n + k : p \in 1 .. n \/ (p - n \in 1 .. k /\ p = (p - n) + n)
    BY <1>1
  <1> HIDE DEF u, n, k
  <1>3. \A p \in 1 .. n + k : p \in 1 .. n \/ (p - n \in 1 .. k /\ u[p] = t[p - n])
    BY <1>1, <1>2
  <1>4. Range(u) = Range(s) \cup Range(t)
    <2>r. /\ Range(s) = {s[p] : p \in 1 .. n} /\ Range(t) = {t[p] : p \in 1 .. k}
          /\ Range(u) = {u[p] : p \in 1 .. n + k}
      BY <1>1, Zenon DEF Range
    <2>1. ASSUME NEW p \in 1 .. n + k
          PROVE  u[p] \in Range(s) \cup Range(t)
      BY <1>1, <1>3, <2>r, Zenon
    <2>2. \A p \in 1 .. n : s[p] \in Range(u)
      BY <1>1, <2>r, Zenon
    <2>3. \A p \in 1 .. k : t[p] \in Range(u)
      BY <1>1, <2>r, Zenon
    <2> QED  BY <2>r, <2>1, <2>2, <2>3, Zenon
  <1>5. ASSUME NEW p \in 1 .. n + k, NEW q \in 1 .. n + k, p # q, u[p] = u[q]
        PROVE  \/ \E a, b \in DOMAIN s : a # b /\ s[a] = s[b] /\ s[a] = u[p]
               \/ \E a, b \in DOMAIN t : a # b /\ t[a] = t[b]
               \/ u[p] \in Range(s) \cap Range(t)
    <2>1. CASE p \in 1 .. n /\ q \in 1 .. n
      BY <1>1, <1>5, <2>1
    <2>2. CASE p \notin 1 .. n /\ q \notin 1 .. n
      <3>1. p - n \in 1 .. k /\ q - n \in 1 .. k /\ p - n # q - n /\ t[p - n] = t[q - n]
        BY <1>1, <1>3, <1>5, <2>2
      <3> QED  BY <1>1, <3>1, Zenon
    <2>3. CASE p \in 1 .. n /\ q \notin 1 .. n
      <3>1. u[p] = s[p] /\ q - n \in 1 .. k /\ u[p] = t[q - n]
        BY <1>1, <1>3, <1>5, <2>3, Zenon
      <3> QED  BY <1>1, <2>3, <3>1, Zenon DEF Range
    <2>4. CASE p \notin 1 .. n /\ q \in 1 .. n
      <3>1. u[p] = s[q] /\ p - n \in 1 .. k /\ u[p] = t[p - n]
        BY <1>1, <1>3, <1>5, <2>4, Zenon
      <3> QED  BY <1>1, <2>4, <3>1, Zenon DEF Range
    <2> QED  BY <2>1, <2>2, <2>3, <2>4
  <1> QED  BY <1>1, <1>4, <1>5, Zenon DEF u

\* A JavaScript date is the start of its millisecond, which it shares with
\* whatever lies between the two.
LEMMA Millisecond ==
  ASSUME NEW t \in Nat
  PROVE  /\ toISOString(t) \in Nat /\ toISOString(t) <= t
         /\ \A s \in Nat : toISOString(t) <= s /\ s <= t => toISOString(s) = toISOString(t)
  <1>1. PerMs \in Nat \ {0}
    BY ListAssumption
  <1>2. \A s \in Nat : /\ s \div PerMs \in Nat
                       /\ (s \div PerMs) * PerMs <= s /\ s < (s \div PerMs) * PerMs + PerMs
    BY <1>1
  <1>3. \A q \in Nat : q * PerMs \in Nat
    BY <1>1
  <1>4. ASSUME NEW s \in Nat, toISOString(t) <= s, s <= t
        PROVE  s \div PerMs = t \div PerMs
    <2> DEFINE a == s \div PerMs
               b == t \div PerMs
    <2>1. /\ a \in Nat /\ b \in Nat /\ a * PerMs \in Nat /\ b * PerMs \in Nat
          /\ a * PerMs <= s /\ s < a * PerMs + PerMs /\ b * PerMs <= t /\ t < b * PerMs + PerMs
      BY <1>2, <1>3
    <2>2. b * PerMs <= s
      BY <1>4 DEF toISOString
    <2> HIDE DEF a, b
    <2>3. b * PerMs < a * PerMs + PerMs /\ a * PerMs < b * PerMs + PerMs
      BY <1>1, <1>4, <2>1, <2>2
    <2>4. b <= a /\ a <= b
      BY <1>1, <2>1, <2>3, Cancel
    <2>5. a = b
      BY <2>1, <2>4
    <2> QED  BY <2>5 DEF a, b
  <1> QED  BY <1>2, <1>3, <1>4 DEF toISOString

\* Latest first, and by id within one time: a total order of any rows.
LEMMA LaterOrders ==
  ASSUME updated_at \in [Ids -> Nat], NEW S \in SUBSET Ids
  PROVE  TotalOrder(S, Later(S))
  <1>1. \A i \in S : i \in Nat /\ updated_at[i] \in Nat
    BY ListAssumption
  <1>2. ASSUME NEW i \in S
        PROVE  Later(S)[i] = {j \in S : updated_at[i] < updated_at[j] \/ (updated_at[i] = updated_at[j] /\ i < j)}
    BY DEF Later, Before
  <1>3. Later(S) \in [S -> SUBSET S]
    BY DEF Later
  <1>4. \A i \in S : i \notin Later(S)[i]
    BY <1>1, <1>2
  <1>5. \A i, j \in S : i = j \/ i \in Later(S)[j] \/ j \in Later(S)[i]
    BY <1>1, <1>2
  <1>6. \A i, j \in S : j \in Later(S)[i] => Later(S)[j] \subseteq Later(S)[i]
    BY <1>1, <1>2
  <1> QED  BY <1>3, <1>4, <1>5, <1>6 DEF TotalOrder

-----------------------------------------------------------------------------
(* The inductive invariant *)

\* DeliveryTable and DlqView have one load more under way at a time.
OneLoadMore == \A r, s \in flight : r.kind # "first" /\ s.kind # "first" => r = s

\* Polls ask for the filter in force; a page is asked for after the cursor of
\* the walk on display, as long as it is that walk.
RequestInv ==
  \A r \in flight :
    /\ r.kind = "first" => r.filter = Current /\ r.cursor = NoCursor
    /\ r.kind # "first" => r.cursor # NoCursor /\ shownFor # NoFilter
    /\ r.kind = "more" /\ ~mixed =>
         r.filter = shownFor /\ r.cursor = nextCursor /\ r.page.touched \subseteq touched

\* Rows that nothing wrote since are not asked for again after next.
Behind(found, next, dirty) ==
  \A p \in DOMAIN found : found[p] \notin dirty => ~ToCome(found[p], next)

\* What the API answered: distinct rows after the cursor; whatever else is
\* after the cursor is after the page or in the millisecond at its end.
PageInv(r) ==
  /\ \A p, q \in DOMAIN r.page.rows : p # q => r.page.rows[p] # r.page.rows[q]
  /\ \A p \in DOMAIN r.page.rows : r.page.rows[p] \notin r.page.touched => Past(r.page.rows[p], r.cursor)
  /\ Behind(r.page.rows, r.page.next, r.page.touched)
  /\ {NoCursor} \cap {r.page.next, r.cursor} = {} => Before(r.page.next.at, r.page.next.id, r.cursor)
  /\ \A i \in Ids : Matches(r.filter, i) /\ i \notin r.page.touched /\ Past(i, r.cursor) =>
       \/ i \in Range(r.page.rows) \/ ToCome(i, r.page.next)
       \/ toISOString(updated_at[i]) \in Ends(r.page)

\* The walk on display.
WalkInv ==
  /\ shownFor = NoFilter => rows = <<>> /\ nextCursor = NoCursor
  /\ ~mixed => Behind(rows, nextCursor, touched)

ListInv ==
  /\ TypeOK /\ OneLoadMore /\ RequestInv /\ WalkInv /\ NoDuplicate /\ SkipsOnlyAtPageEnds
  /\ \A r \in flight : r.page.served => PageInv(r)

-----------------------------------------------------------------------------
(* What the API answers *)

\* What list returns: the first limit + 1 rows after the cursor, latest first.
LEMMA ListFacts ==
  ASSUME updated_at \in [Ids -> Nat], NEW f, NEW cursor
  PROVE  LET hits == Hits(f, cursor)
             found == list(f, cursor)
         IN  /\ hits \subseteq Ids /\ found \in Seq(Ids) /\ Range(found) \subseteq hits
             /\ \A p, q \in DOMAIN found : p < q =>
                  Before(updated_at[found[q]], found[q], [at |-> updated_at[found[p]], id |-> found[p]])
             /\ \A i \in hits : \/ i \in Range(found)
                                \/ /\ Len(found) > Limit
                                   /\ \A p \in DOMAIN found :
                                        Before(updated_at[i], i, [at |-> updated_at[found[p]], id |-> found[p]])
  <1> DEFINE hits == Hits(f, cursor)
             found == list(f, cursor)
  <1>1. hits \in SUBSET Ids
    BY DEF Hits
  <1>2. IsFiniteSet(hits) /\ Limit + 1 \in Nat /\ Limit \in Nat
    BY <1>1, ListAssumption, FS_Subset
  <1>3. TotalOrder(hits, Later(hits)) /\ Cardinality(hits) \in Nat
    BY <1>1, <1>2, LaterOrders, FS_CardinalityType, Zenon
  <1>4. found = Ordered(hits, Later(hits), Limit + 1)
    BY DEF list
  <1> HIDE DEF hits, found
  <1>5. /\ found \in Seq(hits) /\ Len(found) = Lesser(Limit + 1, Cardinality(hits))
        /\ \A p, q \in DOMAIN found : p < q => found[p] \in Later(hits)[found[q]]
        /\ \A i \in hits : i \in Range(found) \/ (\A p \in DOMAIN found : found[p] \in Later(hits)[i])
        /\ Limit + 1 >= Cardinality(hits) => Range(found) = hits
    BY <1>2, <1>3, <1>4, OrderedList, Zenon
  <1>6. \A p \in DOMAIN found : found[p] \in hits
    BY <1>5
  <1>7. \A i, j \in hits : j \in Later(hits)[i] => Before(updated_at[i], i, [at |-> updated_at[j], id |-> j])
    BY DEF Later
  <1>8. found \in Seq(Ids) /\ Range(found) \subseteq hits
    <2>1. \A p \in 1 .. Len(found) : found[p] \in Ids
      BY <1>1, <1>5, <1>6
    <2>2. found \in [1 .. Len(found) -> Ids] /\ Len(found) \in Nat
      BY <1>5, <2>1
    <2>3. found \in Seq(Ids)
      BY <2>2
    <2> QED  BY <1>6, <2>3, Zenon DEF Range
  <1>9. \A i \in hits : i \notin Range(found) => Len(found) > Limit
    BY <1>2, <1>3, <1>5 DEF Lesser
  <1>10. \A p, q \in DOMAIN found : p < q =>
           Before(updated_at[found[q]], found[q], [at |-> updated_at[found[p]], id |-> found[p]])
    BY <1>5, <1>6, <1>7, Zenon
  <1>11. \A i \in hits : i \notin Range(found) =>
           \A p \in DOMAIN found : Before(updated_at[i], i, [at |-> updated_at[found[p]], id |-> found[p]])
    BY <1>5, <1>6, <1>7, Zenon
  <1> QED  BY <1>1, <1>8, <1>9, <1>10, <1>11 DEF hits, found

\* A page as the API serves it satisfies PageInv.
LEMMA PageFacts ==
  ASSUME updated_at \in [Ids -> Nat], NEW r \in Requests
  PROVE  LET page == Page(r.filter, r.cursor)
         IN  page \in Pages /\ page.served /\ PageInv([r EXCEPT !.page = page])
  <1> DEFINE hits == Hits(r.filter, r.cursor)
             found == list(r.filter, r.cursor)
             page == Page(r.filter, r.cursor)
             m == Lesser(Limit, Len(found))
             last == found[Limit]
             at(i) == [at |-> updated_at[i], id |-> i]
  <1>1. Limit \in Nat \ {0} /\ Ids \subseteq Nat
    BY ListAssumption
  <1>2. /\ hits \subseteq Ids /\ found \in Seq(Ids) /\ Range(found) \subseteq hits
        /\ \A p, q \in DOMAIN found : p < q => Before(updated_at[found[q]], found[q], at(found[p]))
        /\ \A i \in hits : \/ i \in Range(found)
                           \/ /\ Len(found) > Limit
                              /\ \A p \in DOMAIN found : Before(updated_at[i], i, at(found[p]))
    BY ListFacts, Zenon
  <1>3. \A i \in hits : Matches(r.filter, i) /\ Past(i, r.cursor)
    BY DEF Hits
  <1>4. \A i \in Ids : Matches(r.filter, i) /\ Past(i, r.cursor) => i \in hits
    BY DEF Hits
  <1>5. /\ page.served /\ page.served \in BOOLEAN /\ page.touched = {}
        /\ page.rows = SubSeq(found, 1, m)
        /\ page.next = IF Len(found) > Limit THEN [at |-> toISOString(updated_at[last]), id |-> last]
                       ELSE NoCursor
    BY Zenon DEF Page, NextCursor, encodeCursor
  <1>6. page = [served |-> page.served, rows |-> page.rows, next |-> page.next, touched |-> page.touched]
    BY DEF Page
  <1> HIDE DEF hits, found, page
  <1>7. Len(found) \in Nat /\ DOMAIN found = 1 .. Len(found) /\ m \in Nat /\ m <= Len(found)
    BY <1>1, <1>2 DEF Lesser
  <1>8. /\ page.rows \in Seq(Ids) /\ DOMAIN page.rows = 1 .. m
        /\ \A p \in 1 .. m : p \in DOMAIN found /\ page.rows[p] = found[p] /\ page.rows[p] \in hits
    <2>1. /\ SubSeq(found, 1, m) \in Seq(Ids) /\ DOMAIN SubSeq(found, 1, m) = 1 .. m
          /\ \A p \in 1 .. m : SubSeq(found, 1, m)[p] = found[p]
      BY <1>2, <1>7
    <2>2. \A p \in 1 .. m : p \in DOMAIN found /\ found[p] \in hits
      BY <1>2, <1>7 DEF Range
    <2> QED  BY <1>5, <2>1, <2>2, Zenon
  <1>9. ASSUME Len(found) > Limit
        PROVE  /\ m = Limit /\ Limit \in 1 .. m /\ last \in hits /\ last \in Ids /\ last \in Nat
               /\ updated_at[last] \in Nat
               /\ page.next = [at |-> toISOString(updated_at[last]), id |-> last]
               /\ page.next \in Cursors /\ page.next # NoCursor
    <2>1. m = Limit /\ Limit \in 1 .. m
      BY <1>1, <1>7, <1>9 DEF Lesser
    <2>2. last \in hits /\ last \in Ids /\ last \in Nat /\ updated_at[last] \in Nat
      BY <1>1, <1>2, <1>8, <2>1, Zenon
    <2>3. page.next = [at |-> toISOString(updated_at[last]), id |-> last]
      BY <1>5, <1>9, Zenon
    <2>4. toISOString(updated_at[last]) \in Nat
      BY <2>2, Millisecond, Zenon
    <2> QED  BY <2>1, <2>2, <2>3, <2>4 DEF Cursors, NoCursor
  <1>10. page.next # NoCursor => Len(found) > Limit
    BY <1>5
  <1>11. page \in Pages
    <2>1. page.next \in Cursors
      BY <1>5, <1>9, Zenon DEF Cursors
    <2> QED  BY <1>5, <1>6, <1>8, <2>1, Zenon DEF Pages
  <1>12. \A p, q \in DOMAIN page.rows : p # q => page.rows[p] # page.rows[q]
    <2>1. ASSUME NEW p \in 1 .. m, NEW q \in 1 .. m, p < q
          PROVE  page.rows[p] # page.rows[q]
      <3>1. Before(updated_at[found[q]], found[q], at(found[p])) /\ found[p] \in Ids
        BY <1>2, <1>8, <2>1
      <3> QED  BY <1>1, <1>8, <3>1 DEF Before
    <2> QED  BY <1>7, <1>8, <2>1
  <1>13. \A p \in DOMAIN page.rows : Past(page.rows[p], r.cursor)
    BY <1>3, <1>8
  <1>14. ASSUME NEW p \in DOMAIN page.rows, ToCome(page.rows[p], page.next)
         PROVE  FALSE
    <2> DEFINE i == page.rows[p]
    <2>1. Len(found) > Limit
      BY <1>10, <1>14 DEF ToCome
    <2>2. i \in Ids /\ i \in Nat /\ updated_at[i] \in Nat /\ i = found[p] /\ p \in 1 .. Limit
      BY <1>1, <1>2, <1>8, <1>9, <2>1, Zenon
    <2>3. Before(updated_at[i], i, [at |-> toISOString(updated_at[last]), id |-> last])
      BY <1>9, <1>14, <2>1, Zenon DEF ToCome
    <2>4. toISOString(updated_at[last]) \in Nat /\ toISOString(updated_at[last]) <= updated_at[last]
      BY <1>9, <2>1, Millisecond, Zenon
    <2>5. i = last \/ Before(updated_at[last], last, at(i))
      <3>1. CASE p = Limit
        BY <2>2, <3>1, Zenon
      <3>2. CASE p < Limit
        BY <1>2, <1>8, <1>9, <2>1, <2>2, <3>2, Zenon
      <3> QED  BY <1>1, <2>2, <3>1, <3>2
    <2> HIDE DEF i
    <2> QED  BY <1>9, <2>1, <2>2, <2>3, <2>4, <2>5 DEF Before
  <1>15. r.cursor # NoCursor /\ page.next # NoCursor => Before(page.next.at, page.next.id, r.cursor)
    <2> SUFFICES ASSUME r.cursor # NoCursor, page.next # NoCursor
                 PROVE  Before(page.next.at, page.next.id, r.cursor)
      OBVIOUS
    <2>1. Len(found) > Limit
      BY <1>10, Zenon
    <2>2. Before(updated_at[last], last, r.cursor)
      BY <1>3, <1>9, <2>1, Zenon DEF Past
    <2>3. toISOString(updated_at[last]) \in Nat /\ toISOString(updated_at[last]) <= updated_at[last]
      BY <1>9, <2>1, Millisecond, Zenon
    <2>4. r.cursor.at \in Nat /\ r.cursor.id \in Nat
      BY <1>1, Zenon DEF Requests, Cursors
    <2> QED  BY <1>9, <2>1, <2>2, <2>3, <2>4 DEF Before
  <1>16. ASSUME NEW i \in hits, i \notin Range(page.rows)
         PROVE  ToCome(i, page.next) \/ toISOString(updated_at[i]) \in Ends(page)
    <2>1. i \in Nat /\ updated_at[i] \in Nat
      BY <1>1, <1>2
    <2>2. Len(found) > Limit /\ Before(updated_at[i], i, at(last))
      <3>1. CASE i \in Range(found)
        <4>1. PICK q \in DOMAIN found : i = found[q]
          BY <3>1 DEF Range
        <4>2. q \notin 1 .. m
          BY <1>8, <1>16, <4>1 DEF Range
        <4>3. Len(found) > Limit /\ Limit < q
          BY <1>1, <1>7, <4>2 DEF Lesser
        <4> QED  BY <1>2, <1>8, <1>9, <4>1, <4>3, Zenon
      <3>2. CASE i \notin Range(found)
        BY <1>2, <1>8, <1>9, <3>2, Zenon
      <3> QED  BY <3>1, <3>2
    <2>3. updated_at[i] <= updated_at[last]
      BY <1>9, <2>1, <2>2 DEF Before
    <2>4. toISOString(updated_at[last]) \in Nat
      BY <1>9, <2>2, Millisecond, Zenon
    <2>5. CASE updated_at[i] < toISOString(updated_at[last])
      BY <1>9, <2>2, <2>5 DEF ToCome, Before
    <2>6. CASE toISOString(updated_at[last]) <= updated_at[i]
      <3>1. toISOString(updated_at[i]) = toISOString(updated_at[last])
        BY <1>9, <2>1, <2>2, <2>3, <2>6, Millisecond, Zenon
      <3> QED  BY <1>9, <2>2, <3>1 DEF Ends
    <2> QED  BY <2>1, <2>4, <2>5, <2>6
  <1> DEFINE asked == [r EXCEPT !.page = page]
  <1>17. asked.page = page /\ asked.filter = r.filter /\ asked.cursor = r.cursor
    BY Zenon DEF Requests
  <1> HIDE DEF asked
  <1>18. PageInv(asked)
    <2>1. Behind(page.rows, page.next, page.touched)
      BY <1>14, Zenon DEF Behind
    <2>2. \A i \in Ids : Matches(r.filter, i) /\ i \notin page.touched /\ Past(i, r.cursor) =>
            \/ i \in Range(page.rows) \/ ToCome(i, page.next) \/ toISOString(updated_at[i]) \in Ends(page)
      BY <1>4, <1>16
    <2>3. {NoCursor} \cap {page.next, r.cursor} = {} => Before(page.next.at, page.next.id, r.cursor)
      BY <1>15, Zenon
    <2> QED  BY <1>12, <1>13, <1>17, <2>1, <2>2, <2>3, Zenon DEF PageInv
  <1> QED  BY <1>5, <1>11, <1>18 DEF asked, page

-----------------------------------------------------------------------------
(* What the steps do to requests and rows *)

\* The view's filter of a row: the other rows stay, each place once.
LEMMA WithoutFacts ==
  ASSUME NEW s \in Seq(Ids), NEW i
  PROVE  LET w == Without(s, i)
         IN  /\ w \in Seq(Ids)
             /\ Range(w) = Range(s) \ {i}
             /\ \A p, q \in DOMAIN w : p # q =>
                  \E a, b \in DOMAIN s : a # b /\ w[p] = s[a] /\ w[q] = s[b]
  <1> DEFINE kept == {p \in DOMAIN s : s[p] # i}
             below == [p \in kept |-> {q \in kept : q < p}]
             places == Ordered(kept, below, Len(s))
             w == Without(s, i)
  <1>1. Len(s) \in Nat /\ DOMAIN s = 1 .. Len(s) /\ kept \in SUBSET (1 .. Len(s)) /\ kept \subseteq Nat
    OBVIOUS
  <1>2. IsFiniteSet(kept) /\ Cardinality(kept) <= Len(s) /\ Cardinality(kept) \in Nat
    <2>1. IsFiniteSet(1 .. Len(s)) /\ Cardinality(1 .. Len(s)) = Len(s)
      <3>1. 1 \in Int /\ Len(s) \in Int
        BY <1>1
      <3>2. /\ IsFiniteSet(1 .. Len(s))
            /\ Cardinality(1 .. Len(s)) = IF 1 > Len(s) THEN 0 ELSE Len(s) - 1 + 1
        BY <3>1, FS_Interval, Zenon
      <3> QED  BY <1>1, <3>2
    <2> QED  BY <1>1, <2>1, FS_Subset, FS_CardinalityType
  <1>3. TotalOrder(kept, below)
    BY <1>1 DEF TotalOrder
  <1> DEFINE L == Lesser(Len(s), Cardinality(kept))
  <1>4. /\ places \in Seq(kept)
        /\ \A p, q \in DOMAIN places : p < q => places[p] \in below[places[q]]
        /\ Range(places) = kept
    <2> HIDE DEF kept, below
    <2> QED  BY <1>1, <1>2, <1>3, OrderedList, Zenon
  <1>5. w = [n \in DOMAIN places |-> s[places[n]]]
    BY DEF Without
  <1> HIDE DEF places, w
  <1>6. /\ Len(places) \in Nat /\ DOMAIN places = 1 .. Len(places)
        /\ \A n \in DOMAIN places : places[n] \in kept
    BY <1>4
  <1>7. \A p, q \in DOMAIN places : p # q => places[p] # places[q]
    <2>1. ASSUME NEW p \in DOMAIN places, NEW q \in DOMAIN places, p < q
          PROVE  places[p] # places[q]
      <3>1. places[q] \in kept /\ places[p] \in below[places[q]]
        BY <1>4, <1>6, <2>1, Zenon
      <3>2. places[p] < places[q] /\ places[q] \in Nat
        BY <1>1, <3>1
      <3> QED  BY <3>2
    <2> QED  BY <1>6, <2>1
  <1>8. w \in Seq(Ids)
    <2>1. w \in [1 .. Len(places) -> Ids]
      BY <1>1, <1>5, <1>6
    <2> QED  BY <1>6, <2>1
  <1>9. Range(w) = Range(s) \ {i}
    <2>1. \A j \in Range(w) : j \in Range(s) /\ j # i
      BY <1>5, <1>6, Zenon DEF Range
    <2>2. ASSUME NEW a \in DOMAIN s, s[a] # i
          PROVE  s[a] \in Range(w)
      <3>1. PICK n \in DOMAIN places : places[n] = a
        BY <1>4, <2>2, Zenon DEF Range
      <3> QED  BY <1>5, <3>1, Zenon DEF Range
    <2> QED  BY <2>1, <2>2, Zenon DEF Range
  <1>10. ASSUME NEW p \in DOMAIN w, NEW q \in DOMAIN w, p # q
         PROVE  \E a, b \in DOMAIN s : a # b /\ w[p] = s[a] /\ w[q] = s[b]
    BY <1>1, <1>5, <1>6, <1>7, <1>10, Zenon
  <1> QED  BY <1>8, <1>9, <1>10, Zenon DEF w

\* What a commit does to a request under way.
Marked(r, ids) == IF r.page.served THEN [r EXCEPT !.page.touched = @ \cup ids] ELSE r

\* What a new walk does to one.
Stray(r) == [r EXCEPT !.kind = IF @ = "more" THEN "stray" ELSE @]

\* A commit adds to the rows touched since the page was read.
LEMMA MarkedFacts ==
  ASSUME NEW r \in Requests, NEW ids \in SUBSET Ids
  PROVE  LET m == Marked(r, ids)
         IN  /\ m \in Requests /\ m.kind = r.kind /\ m.filter = r.filter /\ m.cursor = r.cursor
             /\ m.page.served = r.page.served /\ m.page.rows = r.page.rows /\ m.page.next = r.page.next
             /\ m.page.touched = IF r.page.served THEN r.page.touched \cup ids ELSE r.page.touched
  BY DEF Marked, Requests, Pages

\* A request of load more no longer belongs to the walk on display.
LEMMA StrayFacts ==
  ASSUME NEW r \in Requests
  PROVE  LET m == Stray(r)
         IN  /\ m \in Requests /\ m.filter = r.filter /\ m.cursor = r.cursor /\ m.page = r.page
             /\ m.kind = IF r.kind = "more" THEN "stray" ELSE r.kind
             /\ m.kind # "more" /\ (m.kind = "first" <=> r.kind = "first")
  BY Zenon DEF Stray, Requests

\* A request as it is sent.
LEMMA RequestFacts ==
  ASSUME NEW k \in {"first", "more", "stray"}, NEW f \in AllFilters, NEW c \in Cursors
  PROVE  LET r == Request(k, f, c)
         IN  /\ r \in Requests /\ r.kind = k /\ r.filter = f /\ r.cursor = c
             /\ ~r.page.served /\ r.page.touched = {}
  <1>1. <<>> \in Seq(Ids) /\ NoCursor \in Cursors
    BY DEF Cursors
  <1> QED  BY <1>1 DEF Request, NoPage, Requests, Pages

\* A request with its answer.
LEMMA ServedFacts ==
  ASSUME NEW r \in Requests, NEW page \in Pages
  PROVE  LET m == [r EXCEPT !.page = page]
         IN  m \in Requests /\ m.kind = r.kind /\ m.filter = r.filter /\ m.cursor = r.cursor /\ m.page = page
  BY Zenon DEF Requests

\* Of a row it does not write, a transaction changes neither the time nor the
\* status.
LEMMA WrittenFacts ==
  ASSUME TypeOK, NEW ids \in SUBSET Ids, NEW at \in Nat, NEW s \in Statuses, Written(ids, at, s)
  PROVE  /\ updated_at' \in [Ids -> Nat] /\ status' \in [Ids -> Statuses \cup {"absent"}]
         /\ \A i \in Ids \ ids : updated_at'[i] = updated_at[i] /\ status'[i] = status[i]
         /\ flight' = {Marked(r, ids) : r \in flight} /\ flight' \subseteq Requests
         /\ touched' \subseteq Ids
  <1>1. updated_at' \in [Ids -> Nat]
    BY DEF Written, TypeOK
  <1>2. status' \in [Ids -> Statuses \cup {"absent"}]
    BY DEF Written, TypeOK
  <1>3. \A i \in Ids \ ids : updated_at'[i] = updated_at[i] /\ status'[i] = status[i]
    BY DEF Written
  <1>4. flight' = {Marked(r, ids) : r \in flight}
    BY DEF Written, Marked
  <1>5. flight' \subseteq Requests
    <2>1. \A r \in flight : Marked(r, ids) \in Requests
      BY MarkedFacts, Zenon DEF TypeOK
    <2> QED  BY <1>4, <2>1
  <1>6. touched' \subseteq Ids
    BY DEF Written, TypeOK
  <1> QED  BY <1>1, <1>2, <1>3, <1>4, <1>5, <1>6, Zenon

\* Filters and views select rows; no filter is in force before the first page.
LEMMA FilterFacts ==
  /\ NoFilter \notin AllFilters /\ DlqFilter \in AllFilters /\ EMPTY_FILTERS \in AllFilters
  /\ Filters \subseteq AllFilters /\ EMPTY_FILTERS \in Filters
  /\ \A f \in AllFilters : Shown("dlq", f) \in AllFilters /\ Shown("deliveries", f) = f
  /\ TypeOK => Current \in AllFilters
  <1>1. NoFilter \notin AllFilters /\ DlqFilter \in AllFilters /\ EMPTY_FILTERS \in AllFilters
    BY DEF NoFilter, DlqFilter, EMPTY_FILTERS, AllFilters, Statuses
  <1>2. Filters \subseteq AllFilters /\ EMPTY_FILTERS \in Filters
    BY ListAssumption
  <1>3. \A f \in AllFilters : Shown("dlq", f) \in AllFilters /\ Shown("deliveries", f) = f
    BY <1>1, Zenon DEF Shown
  <1>4. TypeOK => Current \in AllFilters
    BY <1>2, <1>3, Zenon DEF TypeOK, Current, Shown
  <1> QED  BY <1>1, <1>2, <1>3, <1>4, Zenon

\* Commits keep the types, and the number of pages being loaded.
LEMMA WrittenType ==
  ASSUME TypeOK, OneLoadMore, NEW ids \in SUBSET Ids, NEW at \in Nat, NEW s \in Statuses, Written(ids, at, s)
  PROVE  OneLoadMore' /\ ((\E r \in flight' : r.kind # "first") <=> \E r \in flight : r.kind # "first")
  <1>1. flight' = {Marked(r, ids) : r \in flight} /\ flight \subseteq Requests
    BY WrittenFacts DEF TypeOK
  <1>2. \A r \in flight : Marked(r, ids).kind = r.kind
    BY <1>1, MarkedFacts, Zenon
  <1> QED  BY <1>1, <1>2 DEF OneLoadMore

\* Types, and one load more at a time.
LEMMA TypeStep ==
  ASSUME TypeOK, OneLoadMore, [Next]_vars
  PROVE  TypeOK' /\ OneLoadMore'
  <1> DEFINE Pending(fl) == \E r \in fl : r.kind # "first"
             Once(fl) == \A r, q \in fl : r.kind # "first" /\ q.kind # "first" => r = q
  <1>1. flight \subseteq Requests /\ Once(flight) /\ loading \in BOOLEAN /\ (loading <=> Pending(flight))
    BY Zenon DEF TypeOK, OneLoadMore
  <1>2. ASSUME NEW ids \in SUBSET Ids, NEW s \in Statuses, Begin(ids, s)
        PROVE  TypeOK' /\ OneLoadMore'
    <2>1. clock' \in Nat /\ open' \subseteq Transactions
      BY <1>2 DEF Begin, TypeOK, Transactions
    <2> QED  BY <1>2, <2>1, Zenon DEF Begin, TypeOK, OneLoadMore, view, walk
  <1>3. ASSUME NEW t \in open, Commit(t)
        PROVE  TypeOK' /\ OneLoadMore'
    <2> DEFINE ids == {i \in t.ids : status[i] = "PENDING" \/ (t.to = "PENDING" /\ Cardinality(t.ids) = 1)}
    <2>1. ids \in SUBSET Ids /\ t.at \in Nat /\ t.to \in Statuses
      BY Zenon DEF TypeOK, Transactions
    <2>2. Written(ids, t.at, t.to) /\ open' \subseteq open
      BY <1>3 DEF Commit
    <2> HIDE DEF ids
    <2>3. /\ updated_at' \in [Ids -> Nat] /\ status' \in [Ids -> Statuses \cup {"absent"}]
          /\ flight' \subseteq Requests /\ touched' \subseteq Ids
      BY <2>1, <2>2, WrittenFacts, Zenon
    <2>4. OneLoadMore' /\ (Pending(flight') <=> Pending(flight))
      BY <2>1, <2>2, WrittenType, Zenon
    <2> QED  BY <1>3, <2>2, <2>3, <2>4, Zenon DEF Commit, TypeOK, view
  <1>4. CASE Poll
    <2> DEFINE r == FirstPage(Current)
    <2>1. r \in Requests /\ r.kind = "first"
      BY FilterFacts, RequestFacts DEF FirstPage, Cursors
    <2>2. flight' = flight \cup {r}
      BY <1>4 DEF Poll, Send
    <2> HIDE DEF r
    <2>3. Pending(flight') <=> Pending(flight)
      BY <2>1, <2>2, Zenon
    <2>4. OneLoadMore' /\ flight' \subseteq Requests
      BY <1>1, <2>1, <2>2, Zenon DEF OneLoadMore
    <2> QED  BY <1>4, <2>3, <2>4, Zenon DEF Poll, Send, TypeOK, database, walk
  <1>5. CASE loadMore
    <2> DEFINE r == Request(IF shownFor = Current THEN "more" ELSE "stray", Current, nextCursor)
    <2>1. r \in Requests /\ r.kind # "first"
      <3>1. (IF shownFor = Current THEN "more" ELSE "stray") \in {"first", "more", "stray"}
        BY Zenon
      <3>2. nextCursor \in Cursors /\ Current \in AllFilters
        BY FilterFacts, Zenon DEF TypeOK
      <3>3. r \in Requests /\ r.kind = IF shownFor = Current THEN "more" ELSE "stray"
        BY <3>1, <3>2, RequestFacts
      <3> QED  BY <3>3
    <2>2. flight' = flight \cup {r} /\ ~loading /\ loading' = TRUE
      BY <1>5, Zenon DEF loadMore, Send
    <2> HIDE DEF r
    <2>3. OneLoadMore' /\ flight' \subseteq Requests /\ Pending(flight')
      BY <1>1, <2>1, <2>2, Zenon DEF OneLoadMore
    <2> QED  BY <1>5, <2>2, <2>3, Zenon DEF loadMore, Send, TypeOK, database, walk
  <1>6. ASSUME NEW r \in flight, Serve(r)
        PROVE  TypeOK' /\ OneLoadMore'
    <2> DEFINE m == [r EXCEPT !.page = Page(r.filter, r.cursor)]
    <2>1. m \in Requests /\ m.kind = r.kind
      <3>1. Page(r.filter, r.cursor) \in Pages
        BY <1>1, PageFacts, Zenon DEF TypeOK
      <3> QED  BY <1>1, <3>1, ServedFacts, Zenon
    <2>2. flight' = (flight \ {r}) \cup {m}
      BY <1>6, Zenon DEF Serve
    <2> HIDE DEF m
    <2>3. Pending(flight') <=> Pending(flight)
      BY <2>1, <2>2, Zenon
    <2>4. OneLoadMore' /\ flight' \subseteq Requests
      BY <1>1, <2>1, <2>2, Zenon DEF OneLoadMore
    <2> QED  BY <1>6, <2>3, <2>4, Zenon DEF Serve, TypeOK, database, view, walk
  <1>7. ASSUME NEW r \in flight, ShowFirst(r)
        PROVE  TypeOK' /\ OneLoadMore'
    <2>1. flight' = {Stray(q) : q \in flight \ {r}} /\ r.kind = "first" /\ r.page.served
      BY <1>7, Zenon DEF ShowFirst, Strayed, Stray
    <2>2. \A q \in flight : Stray(q) \in Requests /\ (Stray(q).kind = "first" <=> q.kind = "first")
      BY <1>1, StrayFacts, Zenon
    <2>3. Pending(flight') <=> Pending(flight)
      BY <2>1, <2>2, Zenon
    <2>4. OneLoadMore' /\ flight' \subseteq Requests
      BY <1>1, <2>1, <2>2 DEF OneLoadMore
    <2>5. r.filter \in AllFilters /\ r.page \in Pages
      BY <1>1, Zenon DEF Requests
    <2>6. /\ rows' \in Seq(Ids) /\ nextCursor' \in Cursors /\ shownFor' \in AllFilters
          /\ touched' \subseteq Ids /\ mixed' = FALSE /\ error' = FALSE
      BY <1>7, <2>5 DEF ShowFirst, Pages
    <2> QED  BY <1>7, <2>3, <2>4, <2>6, Zenon DEF ShowFirst, TypeOK, database
  <1>8. ASSUME NEW r \in flight, ShowMore(r)
        PROVE  TypeOK' /\ OneLoadMore'
    <2>1. r.page \in Pages
      BY <1>1, Zenon DEF Requests
    <2>2. rows' \in Seq(Ids) /\ nextCursor' \in Cursors /\ touched' \subseteq Ids
      BY <1>8, <2>1 DEF ShowMore, Pages, TypeOK
    <2>3. flight' = flight \ {r} /\ r.kind # "first" /\ loading' = FALSE /\ mixed' \in BOOLEAN
      BY <1>8 DEF ShowMore, TypeOK
    <2>4. OneLoadMore' /\ flight' \subseteq Requests /\ ~Pending(flight')
      BY <1>1, <2>3 DEF OneLoadMore
    <2> QED  BY <1>8, <2>2, <2>3, <2>4, Zenon DEF ShowMore, TypeOK, database
  <1>9. ASSUME NEW r \in flight, Fail(r)
        PROVE  TypeOK' /\ OneLoadMore'
    <2>1. flight' = flight \ {r} /\ loading' = (loading /\ r.kind = "first") /\ error' \in BOOLEAN
      BY <1>9 DEF Fail, TypeOK
    <2>2. OneLoadMore' /\ flight' \subseteq Requests /\ (Pending(flight') <=> Pending(flight) /\ r.kind = "first")
      BY <1>1, <2>1 DEF OneLoadMore
    <2> QED  BY <1>1, <1>9, <2>1, <2>2, Zenon DEF Fail, TypeOK, database, walk
  <1>10. ASSUME NEW t \in {"deliveries", "dlq"}, setTab(t)
         PROVE  TypeOK' /\ OneLoadMore'
    <2> DEFINE r == FirstPage(Shown(t, filter))
    <2>1. r \in Requests /\ r.kind = "first"
      <3>1. Shown(t, filter) \in AllFilters
        BY FilterFacts, Zenon DEF TypeOK
      <3> QED  BY <3>1, RequestFacts DEF FirstPage, Cursors
    <2>2. flight' = {r} /\ loading' = FALSE
      BY <1>10 DEF setTab
    <2> HIDE DEF r
    <2>3. OneLoadMore' /\ flight' \subseteq Requests /\ ~Pending(flight')
      BY <2>1, <2>2, Zenon DEF OneLoadMore
    <2>4. /\ rows' \in Seq(Ids) /\ nextCursor' \in Cursors /\ touched' \subseteq Ids
          /\ retrying' \in [Ids -> {"no", "sent", "ok", "refused"}]
      BY <1>10 DEF setTab, Cursors
    <2> QED  BY <1>10, <2>2, <2>3, <2>4, Zenon DEF setTab, TypeOK, database
  <1>11. ASSUME NEW f \in Filters, setFilters(f)
         PROVE  TypeOK' /\ OneLoadMore'
    <2> DEFINE r == FirstPage(f)
    <2>1. r \in Requests /\ r.kind = "first"
      BY FilterFacts, RequestFacts DEF FirstPage, Cursors
    <2>2. flight' = {Stray(q) : q \in {p \in flight : p.kind # "first"}} \cup {r}
      BY <1>11, Zenon DEF setFilters, Strayed, Stray
    <2> HIDE DEF r
    <2>3. \A q \in flight : Stray(q) \in Requests /\ (Stray(q).kind = "first" <=> q.kind = "first")
      BY <1>1, StrayFacts, Zenon
    <2>4. Pending(flight') <=> Pending(flight)
      BY <2>1, <2>2, <2>3, Zenon
    <2>5. OneLoadMore' /\ flight' \subseteq Requests
      BY <1>1, <2>1, <2>2, <2>3 DEF OneLoadMore
    <2> QED  BY <1>11, <2>4, <2>5, Zenon DEF setFilters, TypeOK, database, view, walk
  <1>12. ASSUME NEW i \in Ids, retry(i)
         PROVE  TypeOK' /\ OneLoadMore'
    BY <1>12, Zenon DEF retry, TypeOK, OneLoadMore, database, walk
  <1>13. ASSUME NEW i \in Ids, retryFromDlq(i)
         PROVE  TypeOK' /\ OneLoadMore'
    <2>1. retrying' \in [Ids -> {"no", "sent", "ok", "refused"}]
      BY <1>13, Zenon DEF retryFromDlq, TypeOK
    <2>2. CASE Written({i}, clock, "PENDING")
      <3>1. {i} \in SUBSET Ids /\ clock \in Nat /\ "PENDING" \in Statuses
        BY DEF TypeOK, Statuses
      <3>2. /\ updated_at' \in [Ids -> Nat] /\ status' \in [Ids -> Statuses \cup {"absent"}]
            /\ flight' \subseteq Requests /\ touched' \subseteq Ids
        BY <2>2, <3>1, WrittenFacts, Zenon
      <3>3. OneLoadMore' /\ (Pending(flight') <=> Pending(flight))
        BY <2>2, <3>1, WrittenType, Zenon
      <3> QED  BY <1>13, <2>1, <3>2, <3>3, Zenon DEF retryFromDlq, TypeOK
    <2>3. CASE UNCHANGED <<status, updated_at, commits, flight, touched, failures>>
      BY <1>13, <2>1, <2>3, Zenon DEF retryFromDlq, TypeOK, OneLoadMore
    <2> QED  BY <1>13, <2>2, <2>3, Zenon DEF retryFromDlq
  <1>14. ASSUME NEW i \in Ids, Retried(i)
         PROVE  TypeOK' /\ OneLoadMore'
    <2>1. retrying' \in [Ids -> {"no", "sent", "ok", "refused"}]
      BY <1>14, Zenon DEF Retried, TypeOK
    <2>2. rows' \in Seq(Ids) /\ touched' \subseteq Ids
      BY <1>14, WithoutFacts DEF Retried, TypeOK
    <2> QED  BY <1>14, <2>1, <2>2, Zenon DEF Retried, TypeOK, OneLoadMore, database
  <1>15. CASE UNCHANGED vars
    BY <1>15, Zenon DEF vars, database, view, walk, TypeOK, OneLoadMore
  <1>16. CASE BeginSome
    <2>1. \E ids \in SUBSET Ids, s \in Statuses : Begin(ids, s)
      BY <1>16, Zenon DEF BeginSome, Statuses
    <2> QED  BY <1>2, <2>1, Zenon
  <1> QED  BY <1>3, <1>4, <1>5, <1>6, <1>7, <1>8, <1>9, <1>10, <1>11, <1>12, <1>13, <1>14, <1>15, <1>16, Zenon DEF Next

\* Steps that leave the requests and the walk alone keep what relates them.
LEMMA RequestStays ==
  ASSUME RequestInv, UNCHANGED <<shownFor, mixed, nextCursor, tab, filter>>, flight' \subseteq flight,
         ~mixed /\ shownFor # NoFilter => touched \subseteq touched'
  PROVE  RequestInv'
  BY Zenon DEF RequestInv, Current

\* Commits: what a page misses, the walk on display misses too.
LEMMA RequestWritten ==
  ASSUME TypeOK, RequestInv, UNCHANGED <<shownFor, mixed, nextCursor, tab, filter>>,
         NEW ids \in SUBSET Ids, NEW at \in Nat, NEW s \in Statuses, Written(ids, at, s)
  PROVE  RequestInv'
  <1>1. flight' = {Marked(r, ids) : r \in flight} /\ flight \subseteq Requests
    BY WrittenFacts DEF TypeOK
  <1>2. ~mixed /\ shownFor # NoFilter => touched' = touched \cup ids
    BY Zenon DEF Written
  <1>3. ASSUME NEW r \in flight
        PROVE  LET m == Marked(r, ids)
               IN  /\ m.kind = "first" => m.filter = Current' /\ m.cursor = NoCursor
                   /\ m.kind # "first" => m.cursor # NoCursor /\ shownFor' # NoFilter
                   /\ m.kind = "more" /\ ~mixed' =>
                        m.filter = shownFor' /\ m.cursor = nextCursor' /\ m.page.touched \subseteq touched'
    <2> DEFINE m == Marked(r, ids)
    <2>1. /\ m.kind = r.kind /\ m.filter = r.filter /\ m.cursor = r.cursor
          /\ m.page.touched \subseteq r.page.touched \cup ids
      BY <1>1, MarkedFacts, Zenon
    <2>2. Current' = Current
      BY DEF Current
    <2> HIDE DEF m
    <2>3. m.kind = "first" => m.filter = Current' /\ m.cursor = NoCursor
      BY <2>1, <2>2, Zenon DEF RequestInv
    <2>4. m.kind # "first" => m.cursor # NoCursor /\ shownFor' # NoFilter
      BY <2>1 DEF RequestInv
    <2>5. m.kind = "more" /\ ~mixed' =>
            m.filter = shownFor' /\ m.cursor = nextCursor' /\ m.page.touched \subseteq touched'
      BY <1>2, <2>1, Zenon DEF RequestInv
    <2> QED  BY <2>3, <2>4, <2>5, Zenon DEF m
  <1> QED  BY <1>1, <1>3, Zenon DEF RequestInv

\* Requests belong to the filter in force, and to the walk on display as long
\* as they are called more.
LEMMA RequestStep ==
  ASSUME TypeOK, OneLoadMore, RequestInv, WalkInv, [Next]_vars
  PROVE  RequestInv'
  <1>1. flight \subseteq Requests
    BY Zenon DEF TypeOK
  <1>2. ASSUME NEW t \in open, Commit(t)
        PROVE  RequestInv'
    <2> DEFINE ids == {i \in t.ids : status[i] = "PENDING" \/ (t.to = "PENDING" /\ Cardinality(t.ids) = 1)}
    <2>1. ids \in SUBSET Ids /\ t.at \in Nat /\ t.to \in Statuses
      BY Zenon DEF TypeOK, Transactions
    <2>2. Written(ids, t.at, t.to) /\ UNCHANGED <<shownFor, mixed, nextCursor, tab, filter>>
      BY <1>2, Zenon DEF Commit, view
    <2> HIDE DEF ids
    <2> QED  BY <2>1, <2>2, RequestWritten, Zenon
  <1>3. CASE Poll
    <2> DEFINE r == FirstPage(Current)
    <2>1. r.kind = "first" /\ r.filter = Current /\ r.cursor = NoCursor
      BY FilterFacts, RequestFacts DEF FirstPage, Cursors
    <2>2. flight' = flight \cup {r} /\ UNCHANGED <<shownFor, mixed, nextCursor, tab, filter, touched>>
      BY <1>3 DEF Poll, Send, walk
    <2>3. Current' = Current
      BY <2>2, Zenon DEF Current
    <2> HIDE DEF r
    <2> QED  BY <2>1, <2>2, <2>3, Zenon DEF RequestInv
  <1>4. CASE loadMore
    <2> DEFINE k == IF shownFor = Current THEN "more" ELSE "stray"
               r == Request(k, Current, nextCursor)
    <2>1. k \in {"first", "more", "stray"} /\ nextCursor \in Cursors /\ Current \in AllFilters
      BY FilterFacts, Zenon DEF TypeOK
    <2>2. r.kind = k /\ r.filter = Current /\ r.cursor = nextCursor /\ r.page.touched = {}
      <3> HIDE DEF k
      <3> QED  BY <2>1, RequestFacts
    <2>3. /\ flight' = flight \cup {r} /\ UNCHANGED <<shownFor, mixed, nextCursor, tab, filter, touched>>
          /\ nextCursor # NoCursor
      BY <1>4, Zenon DEF loadMore, Send, walk
    <2>4. Current' = Current /\ shownFor # NoFilter
      BY <2>3, Zenon DEF Current, WalkInv
    <2> HIDE DEF r
    <2> QED  BY <2>2, <2>3, <2>4 DEF RequestInv
  <1>5. ASSUME NEW r \in flight, Serve(r)
        PROVE  RequestInv'
    <2> DEFINE m == [r EXCEPT !.page = Page(r.filter, r.cursor)]
    <2>1. m.kind = r.kind /\ m.filter = r.filter /\ m.cursor = r.cursor /\ m.page.touched = {}
      BY <1>1 DEF Requests, Page
    <2>2. /\ flight' = (flight \ {r}) \cup {m}
          /\ UNCHANGED <<shownFor, mixed, nextCursor, tab, filter, touched>>
      BY <1>5 DEF Serve, view, walk
    <2>3. Current' = Current
      BY <2>2, Zenon DEF Current
    <2> HIDE DEF m
    <2> QED  BY <2>1, <2>2, <2>3 DEF RequestInv
  <1>6. ASSUME NEW r \in flight, ShowFirst(r)
        PROVE  RequestInv'
    <2>1. /\ flight' = {Stray(q) : q \in flight \ {r}} /\ shownFor' = r.filter
          /\ UNCHANGED <<tab, filter>>
      BY <1>6, Zenon DEF ShowFirst, Strayed, Stray
    <2>2. shownFor' # NoFilter
      <3>1. r.filter \in AllFilters
        BY <1>1, Zenon DEF Requests
      <3> QED  BY <2>1, <3>1, FilterFacts, Zenon
    <2>3. \A q \in flight : /\ Stray(q).kind # "more" /\ (Stray(q).kind = "first" <=> q.kind = "first")
                            /\ Stray(q).filter = q.filter /\ Stray(q).cursor = q.cursor
      BY <1>1, StrayFacts, Zenon
    <2>4. Current' = Current
      BY <2>1, Zenon DEF Current
    <2> QED  BY <2>1, <2>2, <2>3, <2>4 DEF RequestInv
  <1>7. ASSUME NEW r \in flight, ShowMore(r)
        PROVE  RequestInv'
    <2>1. flight' = flight \ {r} /\ r.kind # "first" /\ UNCHANGED <<shownFor, tab, filter>>
      BY <1>7, Zenon DEF ShowMore
    <2>2. \A q \in flight' : q.kind = "first"
      BY <2>1 DEF OneLoadMore
    <2>3. Current' = Current
      BY <2>1, Zenon DEF Current
    <2> QED  BY <2>1, <2>2, <2>3, Zenon DEF RequestInv
  <1>8. ASSUME NEW r \in flight, Fail(r)
        PROVE  RequestInv'
    BY <1>8, RequestStays, Zenon DEF Fail, walk
  <1>9. ASSUME NEW t \in {"deliveries", "dlq"}, setTab(t)
        PROVE  RequestInv'
    <2> DEFINE r == FirstPage(Shown(t, filter))
    <2>1. r.kind = "first" /\ r.filter = Shown(t, filter) /\ r.cursor = NoCursor
      BY Zenon DEF FirstPage, Request
    <2>2. flight' = {r} /\ Current' = Shown(t, filter)
      BY <1>9, Zenon DEF setTab, Current
    <2> HIDE DEF r
    <2> QED  BY <2>1, <2>2, Zenon DEF RequestInv
  <1>10. ASSUME NEW f \in Filters, setFilters(f)
         PROVE  RequestInv'
    <2> DEFINE r == FirstPage(f)
    <2>1. r.kind = "first" /\ r.filter = f /\ r.cursor = NoCursor
      BY DEF FirstPage, Request
    <2>2. /\ flight' = {Stray(q) : q \in {p \in flight : p.kind # "first"}} \cup {r}
          /\ Current' = f /\ shownFor' = shownFor
      BY <1>10, Zenon DEF setFilters, Strayed, Stray, Current, Shown, walk
    <2> HIDE DEF r
    <2>3. \A q \in flight : /\ Stray(q).kind # "more" /\ (Stray(q).kind = "first" <=> q.kind = "first")
                            /\ Stray(q).filter = q.filter /\ Stray(q).cursor = q.cursor
      BY <1>1, StrayFacts, Zenon
    <2> QED  BY <2>1, <2>2, <2>3 DEF RequestInv
  <1>11. ASSUME NEW i \in Ids, retryFromDlq(i)
         PROVE  RequestInv'
    <2>1. UNCHANGED <<shownFor, mixed, nextCursor, tab, filter>>
      BY <1>11, Zenon DEF retryFromDlq
    <2>2. CASE Written({i}, clock, "PENDING")
      <3>1. {i} \in SUBSET Ids /\ clock \in Nat /\ "PENDING" \in Statuses
        BY DEF TypeOK, Statuses
      <3> QED  BY <2>1, <2>2, <3>1, RequestWritten, Zenon
    <2>3. CASE UNCHANGED <<status, updated_at, commits, flight, touched, failures>>
      BY <2>1, <2>3, RequestStays, Zenon
    <2> QED  BY <1>11, <2>2, <2>3, Zenon DEF retryFromDlq
  <1>12. ASSUME NEW i \in Ids, Retried(i)
         PROVE  RequestInv'
    BY <1>12, RequestStays, Zenon DEF Retried
  <1>13. CASE BeginSome \/ (\E i \in Ids : retry(i)) \/ UNCHANGED vars
    <2>1. UNCHANGED <<shownFor, mixed, nextCursor, tab, filter, flight, touched>>
      BY <1>13 DEF BeginSome, Begin, retry, vars, view, walk
    <2> QED  BY <2>1, RequestStays, Zenon
  <1> QED  BY <1>2, <1>3, <1>4, <1>5, <1>6, <1>7, <1>8, <1>9, <1>10, <1>11, <1>12, <1>13, Zenon DEF Next

\* PageInv speaks of the answer, and of what it was asked for.
LEMMA PageSame ==
  ASSUME NEW q, NEW r, q.page = r.page, q.filter = r.filter, q.cursor = r.cursor, PageInv(r)
  PROVE  PageInv(q)
  BY Zenon DEF PageInv

\* While no transaction commits, an answer stays as true as it was.
LEMMA PageStays ==
  ASSUME NEW r, UNCHANGED <<status, updated_at>>, PageInv(r)
  PROVE  PageInv(r)'
  BY Zenon DEF PageInv, Behind, ToCome, Past, Matches, Before, Ends, Range

\* A commit falsifies nothing of what a page says of the other rows.
LEMMA PageWritten ==
  ASSUME TypeOK, NEW ids \in SUBSET Ids, NEW at \in Nat, NEW s \in Statuses, Written(ids, at, s),
         NEW r \in Requests, r.page.served, PageInv(r)
  PROVE  PageInv(Marked(r, ids))'
  <1> DEFINE m == Marked(r, ids)
  <1>1. /\ m.filter = r.filter /\ m.cursor = r.cursor /\ m.page.rows = r.page.rows
        /\ m.page.next = r.page.next /\ m.page.touched = r.page.touched \cup ids
    <2>1. /\ m.filter = r.filter /\ m.cursor = r.cursor /\ m.page.rows = r.page.rows
          /\ m.page.next = r.page.next
          /\ m.page.touched = IF r.page.served THEN r.page.touched \cup ids ELSE r.page.touched
      BY MarkedFacts, Zenon
    <2> HIDE DEF m
    <2> QED  BY <2>1
  <1>2. \A i \in Ids \ ids : updated_at'[i] = updated_at[i] /\ status'[i] = status[i]
    BY WrittenFacts, Zenon
  <1>3. \A p \in DOMAIN r.page.rows : r.page.rows[p] \in Ids
    BY DEF Requests, Pages
  <1> HIDE DEF m
  <1>4. \A i \in Ids \ ids : \A c : Past(i, c)' <=> Past(i, c)
    BY <1>2, Zenon DEF Past, Before
  <1>5. \A i \in Ids \ ids : \A c : ToCome(i, c)' <=> ToCome(i, c)
    BY <1>2, Zenon DEF ToCome, Before
  <1>6. \A i \in Ids \ ids : \A f : Matches(f, i)' <=> Matches(f, i)
    BY <1>2 DEF Matches
  <1>7. \A p, q \in DOMAIN m.page.rows : p # q => m.page.rows[p] # m.page.rows[q]
    BY <1>1, Zenon DEF PageInv
  <1>8. \A p \in DOMAIN m.page.rows : m.page.rows[p] \notin m.page.touched => Past(m.page.rows[p], m.cursor)'
    BY <1>1, <1>3, <1>4, Zenon DEF PageInv
  <1>9. Behind(m.page.rows, m.page.next, m.page.touched)'
    BY <1>1, <1>3, <1>5, Zenon DEF PageInv, Behind
  <1>10. {NoCursor} \cap {m.page.next, m.cursor} = {} => Before(m.page.next.at, m.page.next.id, m.cursor)
    BY <1>1, Zenon DEF PageInv
  <1>11. ASSUME NEW i \in Ids, Matches(m.filter, i)', i \notin m.page.touched, Past(i, m.cursor)'
         PROVE  \/ i \in Range(m.page.rows) \/ ToCome(i, m.page.next)'
                \/ toISOString(updated_at'[i]) \in Ends(m.page)
    <2>1. i \in Ids \ ids /\ i \notin r.page.touched
      BY <1>1, <1>11, Zenon
    <2>2. Matches(r.filter, i) /\ Past(i, r.cursor)
      BY <1>1, <1>4, <1>6, <1>11, <2>1, Zenon
    <2>3. \/ i \in Range(r.page.rows) \/ ToCome(i, r.page.next) \/ toISOString(updated_at[i]) \in Ends(r.page)
      BY <2>1, <2>2, Zenon DEF PageInv
    <2>4. Ends(m.page) = Ends(r.page)
      BY <1>1 DEF Ends
    <2> QED  BY <1>1, <1>2, <1>5, <2>1, <2>3, <2>4, Zenon
  <1>12. PageInv(m)'
    BY <1>7, <1>8, <1>9, <1>10, <1>11, Zenon DEF PageInv
  <1> QED  BY <1>12, Zenon DEF m

\* The same for all pages under way.
LEMMA PagesWritten ==
  ASSUME TypeOK, NEW ids \in SUBSET Ids, NEW at \in Nat, NEW s \in Statuses, Written(ids, at, s),
         \A r \in flight : r.page.served => PageInv(r)
  PROVE  \A r \in flight' : r.page.served => PageInv(r)'
  <1>1. flight' = {Marked(r, ids) : r \in flight} /\ flight \subseteq Requests
    BY WrittenFacts, Zenon DEF TypeOK
  <1>2. \A r \in flight : r.page.served => PageInv(Marked(r, ids))'
    BY <1>1, PageWritten
  <1>3. \A r \in flight : Marked(r, ids).page.served = r.page.served
    BY <1>1, MarkedFacts, Zenon
  <1> QED  BY <1>1, <1>2, <1>3

\* Every answer under way is a page of the table, but for rows written since.
LEMMA PageStep ==
  ASSUME TypeOK, \A r \in flight : r.page.served => PageInv(r), [Next]_vars
  PROVE  \A r \in flight' : r.page.served => PageInv(r)'
  <1> DEFINE Honest == \A r \in flight' : r.page.served => PageInv(r)'
  <1>1. flight \subseteq Requests
    BY DEF TypeOK
  <1>2. ASSUME UNCHANGED <<status, updated_at>>, \A r \in flight' : r.page.served => PageInv(r)
        PROVE  Honest
    BY <1>2, PageStays
  <1>3. ASSUME NEW t \in open, Commit(t)
        PROVE  Honest
    <2> DEFINE ids == {i \in t.ids : status[i] = "PENDING" \/ (t.to = "PENDING" /\ Cardinality(t.ids) = 1)}
    <2>1. ids \in SUBSET Ids /\ t.at \in Nat /\ t.to \in Statuses
      BY Zenon DEF TypeOK, Transactions
    <2>2. Written(ids, t.at, t.to)
      BY <1>3, Zenon DEF Commit
    <2> HIDE DEF ids
    <2> QED  BY <2>1, <2>2, PagesWritten, Zenon
  <1>4. CASE Poll \/ loadMore
    <2>1. /\ UNCHANGED <<status, updated_at>>
          /\ \E k, f, c : flight' = flight \cup {Request(k, f, c)}
      BY <1>4, Zenon DEF Poll, loadMore, Send, FirstPage, database
    <2>2. \A k, f, c : ~Request(k, f, c).page.served
      BY DEF Request, NoPage
    <2> QED  BY <1>2, <2>1, <2>2, Zenon
  <1>5. ASSUME NEW r \in flight, Serve(r)
        PROVE  Honest
    <2> DEFINE m == [r EXCEPT !.page = Page(r.filter, r.cursor)]
    <2>1. PageInv(m)
      BY <1>1, PageFacts DEF TypeOK
    <2>2. flight' = (flight \ {r}) \cup {m} /\ UNCHANGED <<status, updated_at>>
      BY <1>5, Zenon DEF Serve, database
    <2> HIDE DEF m
    <2> QED  BY <1>2, <2>1, <2>2
  <1>6. ASSUME NEW r \in flight, ShowFirst(r)
        PROVE  Honest
    <2>1. flight' = {Stray(q) : q \in flight \ {r}} /\ UNCHANGED <<status, updated_at>>
      BY <1>6, Zenon DEF ShowFirst, Strayed, Stray, database
    <2>2. \A q \in flight : q.page.served => PageInv(Stray(q))
      BY <1>1, StrayFacts, PageSame, Zenon
    <2>3. \A q \in flight : Stray(q).page = q.page
      BY <1>1, StrayFacts, Zenon
    <2> QED  BY <1>2, <2>1, <2>2, <2>3
  <1>7. ASSUME NEW r \in flight, ShowMore(r) \/ Fail(r)
        PROVE  Honest
    <2>1. flight' \subseteq flight /\ UNCHANGED <<status, updated_at>>
      BY <1>7, Zenon DEF ShowMore, Fail, database
    <2> QED  BY <1>2, <2>1, Zenon
  <1>8. ASSUME NEW t, setTab(t)
        PROVE  Honest
    <2>1. flight' = {FirstPage(Shown(t, filter))} /\ UNCHANGED <<status, updated_at>>
      BY <1>8, Zenon DEF setTab, database
    <2>2. ~FirstPage(Shown(t, filter)).page.served
      BY Zenon DEF FirstPage, Request, NoPage
    <2> QED  BY <1>2, <2>1, <2>2, Zenon
  <1>9. ASSUME NEW f, setFilters(f)
        PROVE  Honest
    <2>1. /\ flight' = {Stray(q) : q \in {p \in flight : p.kind # "first"}} \cup {FirstPage(f)}
          /\ UNCHANGED <<status, updated_at>>
      BY <1>9, Zenon DEF setFilters, Strayed, Stray, database
    <2>2. ~FirstPage(f).page.served
      BY Zenon DEF FirstPage, Request, NoPage
    <2>3. \A q \in flight : q.page.served => PageInv(Stray(q))
      BY <1>1, StrayFacts, PageSame, Zenon
    <2>4. \A q \in flight : Stray(q).page = q.page
      BY <1>1, StrayFacts, Zenon
    <2> QED  BY <1>2, <2>1, <2>2, <2>3, <2>4, Zenon
  <1>10. ASSUME NEW i \in Ids, retryFromDlq(i)
         PROVE  Honest
    <2>1. CASE Written({i}, clock, "PENDING")
      <3>1. {i} \in SUBSET Ids /\ clock \in Nat /\ "PENDING" \in Statuses
        BY Zenon DEF TypeOK, Statuses
      <3> QED  BY <2>1, <3>1, PagesWritten, Zenon
    <2>2. CASE UNCHANGED <<status, updated_at, commits, flight, touched, failures>>
      BY <1>2, <2>2, Zenon
    <2> QED  BY <1>10, <2>1, <2>2, Zenon DEF retryFromDlq
  <1>11. CASE BeginSome \/ (\E i \in Ids : retry(i) \/ Retried(i)) \/ UNCHANGED vars
    <2>1. UNCHANGED <<status, updated_at, flight>>
      BY <1>11, Zenon DEF BeginSome, Begin, retry, Retried, vars, database
    <2> QED  BY <1>2, <2>1
  <1> QED  BY <1>3, <1>4, <1>5, <1>6, <1>7, <1>8, <1>9, <1>10, <1>11, Zenon DEF Next

\* Steps that change neither the table nor the list on display.
LEMMA WalkStays ==
  ASSUME WalkInv, NoDuplicate, SkipsOnlyAtPageEnds,
         UNCHANGED <<status, updated_at, rows, nextCursor, shownFor, touched, ends, mixed>>
  PROVE  WalkInv' /\ NoDuplicate' /\ SkipsOnlyAtPageEnds'
  <1>1. \A i, c : ToCome(i, c)' <=> ToCome(i, c)
    BY Zenon DEF ToCome, Before
  <1>2. WalkInv' /\ NoDuplicate'
    BY <1>1 DEF WalkInv, NoDuplicate, Behind
  <1>3. SkipsOnlyAtPageEnds'
    BY <1>1, Zenon DEF SkipsOnlyAtPageEnds, Matches
  <1> QED  BY <1>2, <1>3, Zenon

\* A commit moves only rows that count as touched from then on.
LEMMA WalkWritten ==
  ASSUME TypeOK, WalkInv, NoDuplicate, SkipsOnlyAtPageEnds,
         UNCHANGED <<rows, nextCursor, shownFor, ends, mixed>>,
         NEW ids \in SUBSET Ids, NEW at \in Nat, NEW s \in Statuses, Written(ids, at, s)
  PROVE  WalkInv' /\ NoDuplicate' /\ SkipsOnlyAtPageEnds'
  <1>1. \A i \in Ids \ ids : updated_at'[i] = updated_at[i] /\ status'[i] = status[i]
    BY WrittenFacts, Zenon
  <1>2. \A p \in DOMAIN rows : rows[p] \in Ids
    BY DEF TypeOK
  <1>3. \A i \in Ids \ ids : \A c : ToCome(i, c)' <=> ToCome(i, c)
    BY <1>1 DEF ToCome, Before
  <1>4. CASE mixed
    BY <1>4, Zenon DEF WalkInv, NoDuplicate, SkipsOnlyAtPageEnds
  <1>5. CASE shownFor = NoFilter
    <2>1. rows' = <<>> /\ nextCursor' = NoCursor
      BY <1>5, Zenon DEF WalkInv
    <2>2. WalkInv' /\ NoDuplicate'
      BY <2>1 DEF WalkInv, NoDuplicate, Behind
    <2> QED  BY <1>5, <2>2, Zenon DEF SkipsOnlyAtPageEnds
  <1>6. CASE ~mixed /\ shownFor # NoFilter
    <2>1. touched' = touched \cup ids
      BY <1>6, Zenon DEF Written
    <2>2. WalkInv'
      BY <1>2, <1>3, <1>6, <2>1, Zenon DEF WalkInv, Behind
    <2>3. NoDuplicate'
      BY <2>1 DEF NoDuplicate
    <2>4. ASSUME NEW i \in Ids, Matches(shownFor, i)', i \notin touched'
          PROVE  i \in Range(rows) \/ ToCome(i, nextCursor)' \/ toISOString(updated_at'[i]) \in ends
      <3>1. i \in Ids \ ids /\ i \notin touched
        BY <2>1, <2>4
      <3>2. Matches(shownFor, i)
        BY <1>1, <2>4, <3>1, Zenon DEF Matches
      <3>3. i \in Range(rows) \/ ToCome(i, nextCursor) \/ toISOString(updated_at[i]) \in ends
        BY <1>6, <3>1, <3>2, Zenon DEF SkipsOnlyAtPageEnds
      <3>4. ToCome(i, nextCursor)' <=> ToCome(i, nextCursor)
        BY <1>1, <3>1 DEF ToCome, Before
      <3> QED  BY <1>1, <3>1, <3>3, <3>4, Zenon
    <2>5. SkipsOnlyAtPageEnds'
      BY <2>4, Zenon DEF SkipsOnlyAtPageEnds
    <2> QED  BY <2>2, <2>3, <2>5
  <1> QED  BY <1>4, <1>5, <1>6

\* A poll's answer begins a walk.
LEMMA WalkFirst ==
  ASSUME TypeOK, RequestInv, NEW r \in flight, PageInv(r), ShowFirst(r)
  PROVE  WalkInv' /\ NoDuplicate' /\ SkipsOnlyAtPageEnds'
  <1>1. r.cursor = NoCursor /\ r.filter \in AllFilters
    BY Zenon DEF RequestInv, ShowFirst, TypeOK, Requests
  <1>2. /\ rows' = r.page.rows /\ nextCursor' = r.page.next /\ shownFor' = r.filter
        /\ touched' = r.page.touched /\ ends' = Ends(r.page) /\ mixed' = FALSE
        /\ UNCHANGED <<status, updated_at>>
    BY Zenon DEF ShowFirst, database
  <1>3. \A i, c : ToCome(i, c)' <=> ToCome(i, c)
    BY <1>2 DEF ToCome, Before
  <1>4. WalkInv'
    <2>1. shownFor' # NoFilter
      BY <1>1, <1>2, FilterFacts
    <2> QED  BY <1>2, <1>3, <2>1, Zenon DEF WalkInv, PageInv, Behind
  <1>5. NoDuplicate'
    BY <1>2, Zenon DEF NoDuplicate, PageInv
  <1>6. SkipsOnlyAtPageEnds'
    <2>1. \A i \in Ids : Past(i, r.cursor)
      BY <1>1 DEF Past
    <2>2. \A i \in Ids : Matches(r.filter, i) /\ i \notin r.page.touched =>
            \/ i \in Range(r.page.rows) \/ ToCome(i, r.page.next)
            \/ toISOString(updated_at[i]) \in Ends(r.page)
      BY <2>1, Zenon DEF PageInv
    <2>3. \A i : Matches(r.filter, i)' <=> Matches(r.filter, i)
      BY <1>2, Zenon DEF Matches
    <2> QED  BY <1>2, <1>3, <2>2, <2>3, Zenon DEF SkipsOnlyAtPageEnds
  <1> QED  BY <1>4, <1>5, <1>6

\* The order of the pages is transitive.
LEMMA BeforeTransitive ==
  ASSUME NEW i \in Ids, updated_at[i] \in Nat, NEW c \in Cursors, NEW d \in Cursors,
         Before(updated_at[i], i, c), Before(c.at, c.id, d), c # NoCursor, d # NoCursor
  PROVE  Before(updated_at[i], i, d)
  <1>1. i \in Nat /\ c.at \in Nat /\ c.id \in Nat /\ d.at \in Nat /\ d.id \in Nat
    BY ListAssumption, Zenon DEF Cursors
  <1> QED  BY <1>1 DEF Before

\* The next page of the walk on display is appended: what the walk still had
\* to come is on the page or after it, and nothing of it was there before.
LEMMA WalkMore ==
  ASSUME TypeOK, RequestInv, WalkInv, NoDuplicate, SkipsOnlyAtPageEnds,
         NEW r \in flight, PageInv(r), ShowMore(r)
  PROVE  WalkInv' /\ NoDuplicate' /\ SkipsOnlyAtPageEnds'
  <1>1. r \in Requests /\ r.kind # "first" /\ r.page \in Pages
    BY Zenon DEF ShowMore, TypeOK, Requests
  <1>2. r.cursor # NoCursor /\ shownFor # NoFilter /\ shownFor' = shownFor
    BY <1>1, Zenon DEF RequestInv, ShowMore
  <1>3. rows' = rows \o r.page.rows /\ nextCursor' = r.page.next /\ UNCHANGED <<status, updated_at>>
    BY DEF ShowMore, database
  <1>4. CASE mixed'
    BY <1>2, <1>4, Zenon DEF WalkInv, NoDuplicate, SkipsOnlyAtPageEnds
  <1>5. CASE ~mixed'
    <2>1. ~mixed /\ r.kind = "more" /\ touched' = touched /\ ends' = ends \cup Ends(r.page)
      BY <1>1, <1>5, Zenon DEF ShowMore, Requests
    <2>2. r.filter = shownFor /\ r.cursor = nextCursor /\ r.page.touched \subseteq touched
      BY <2>1, Zenon DEF RequestInv
    <2>3. \A i, c : ToCome(i, c)' <=> ToCome(i, c)
      BY <1>3, Zenon DEF ToCome, Before
    <2>4. /\ rows \in Seq(Ids) /\ r.page.rows \in Seq(Ids)
          /\ \A i \in Ids : updated_at[i] \in Nat
      BY <1>1 DEF TypeOK, Pages
    <2>5. /\ Range(rows') = Range(rows) \cup Range(r.page.rows)
          /\ \A p, q \in DOMAIN rows' : p # q /\ rows'[p] = rows'[q] =>
               \/ \E a, b \in DOMAIN rows : a # b /\ rows[a] = rows[b] /\ rows[a] = rows'[p]
               \/ \E a, b \in DOMAIN r.page.rows : a # b /\ r.page.rows[a] = r.page.rows[b]
               \/ rows'[p] \in Range(rows) \cap Range(r.page.rows)
      <3> DEFINE u == rows \o r.page.rows
      <3>1. /\ Range(u) = Range(rows) \cup Range(r.page.rows)
            /\ \A p, q \in DOMAIN u : p # q /\ u[p] = u[q] =>
                 \/ \E a, b \in DOMAIN rows : a # b /\ rows[a] = rows[b] /\ rows[a] = u[p]
                 \/ \E a, b \in DOMAIN r.page.rows : a # b /\ r.page.rows[a] = r.page.rows[b]
                 \/ u[p] \in Range(rows) \cap Range(r.page.rows)
        BY <2>4, Appended, Zenon
      <3>2. rows' = u
        BY <1>3, Zenon
      <3> HIDE DEF u
      <3> QED  BY <3>1, <3>2, Zenon
    <2>6. Range(rows) \subseteq Ids /\ Range(r.page.rows) \subseteq Ids
      BY <2>4 DEF Range
    <2>7. ASSUME NEW i \in Ids, ToCome(i, r.page.next)
          PROVE  ToCome(i, nextCursor)
      <3>1. r.page.next \in Cursors /\ r.cursor \in Cursors /\ r.page.next # NoCursor
        BY <1>1, <2>7 DEF Requests, Pages, ToCome
      <3>2. Before(updated_at[i], i, r.page.next) /\ Before(r.page.next.at, r.page.next.id, r.cursor)
        BY <1>2, <2>7, <3>1, Zenon DEF ToCome, PageInv
      <3>3. Before(updated_at[i], i, r.cursor)
        BY <1>2, <2>4, <3>1, <3>2, BeforeTransitive, Zenon
      <3> QED  BY <1>2, <2>2, <3>3, Zenon DEF ToCome
    <2>8. \A i \in Range(rows) : i \notin touched => ~ToCome(i, nextCursor)
      BY <2>1, Zenon DEF WalkInv, Behind, Range
    <2>9. \A i \in Range(r.page.rows) : i \notin touched => ToCome(i, nextCursor) /\ ~ToCome(i, r.page.next)
      <3>1. \A i \in Range(r.page.rows) : i \notin touched => ~ToCome(i, r.page.next)
        BY <2>2, Zenon DEF PageInv, Behind, Range
      <3>2. \A i \in Range(r.page.rows) : i \notin touched => Past(i, r.cursor)
        BY <2>2, Zenon DEF PageInv, Range
      <3> QED  BY <1>2, <2>2, <3>1, <3>2, Zenon DEF Past, ToCome
    <2>10. WalkInv'
      <3>1. \A i \in Range(rows') : i \notin touched => ~ToCome(i, r.page.next)
        BY <2>5, <2>6, <2>7, <2>8, <2>9, Zenon
      <3>2. Behind(rows, nextCursor, touched)'
        BY <1>3, <2>1, <2>3, <3>1, Zenon DEF Behind, Range
      <3> QED  BY <1>2, <3>2, Zenon DEF WalkInv
    <2>11. NoDuplicate'
      <3>1. ASSUME NEW p \in DOMAIN rows', NEW q \in DOMAIN rows', p # q, rows'[p] = rows'[q]
            PROVE  rows'[p] \in touched
        <4>1. CASE \E a, b \in DOMAIN rows : a # b /\ rows[a] = rows[b] /\ rows[a] = rows'[p]
          BY <2>1, <4>1, Zenon DEF NoDuplicate
        <4>2. ~\E a, b \in DOMAIN r.page.rows : a # b /\ r.page.rows[a] = r.page.rows[b]
          BY Zenon DEF PageInv
        <4>3. CASE rows'[p] \in Range(rows) \cap Range(r.page.rows)
          BY <2>8, <2>9, <4>3, Zenon
        <4> QED  BY <2>5, <3>1, <4>1, <4>2, <4>3, Zenon
      <3> QED  BY <2>1, <3>1, Zenon DEF NoDuplicate
    <2>12. SkipsOnlyAtPageEnds'
      <3>1. ASSUME NEW i \in Ids, Matches(shownFor, i), i \notin touched
            PROVE  \/ i \in Range(rows') \/ ToCome(i, r.page.next)
                   \/ toISOString(updated_at[i]) \in ends'
        <4>1. i \in Range(rows) \/ ToCome(i, nextCursor) \/ toISOString(updated_at[i]) \in ends
          BY <1>2, <2>1, <3>1 DEF SkipsOnlyAtPageEnds
        <4>2. CASE ToCome(i, nextCursor)
          <5>1. Past(i, r.cursor) /\ Matches(r.filter, i) /\ i \notin r.page.touched
            BY <2>2, <3>1, <4>2, Zenon DEF Past, ToCome
          <5> QED  BY <2>1, <2>5, <5>1, Zenon DEF PageInv
        <4> QED  BY <2>1, <2>5, <4>1, <4>2, Zenon
      <3>2. \A i : Matches(shownFor, i)' <=> Matches(shownFor, i)
        BY <1>2, <1>3, Zenon DEF Matches
      <3> QED  BY <1>2, <1>3, <2>1, <2>3, <3>1, <3>2, Zenon DEF SkipsOnlyAtPageEnds
    <2> QED  BY <2>10, <2>11, <2>12
  <1> QED  BY <1>4, <1>5, Zenon

\* A retried row leaves the list and counts as touched.
LEMMA WalkRetried ==
  ASSUME TypeOK, WalkInv, NoDuplicate, SkipsOnlyAtPageEnds, NEW i \in Ids, Retried(i)
  PROVE  WalkInv' /\ NoDuplicate' /\ SkipsOnlyAtPageEnds'
  <1>1. UNCHANGED <<status, updated_at, nextCursor, shownFor, ends, mixed>>
    BY Zenon DEF Retried, database
  <1>2. CASE UNCHANGED <<rows, touched>>
    BY <1>1, <1>2, WalkStays, Zenon
  <1>3. CASE /\ rows' = Without(rows, i)
             /\ touched' = IF mixed \/ shownFor = NoFilter THEN {} ELSE touched \cup {i}
    <2>1. rows \in Seq(Ids)
      BY Zenon DEF TypeOK
    <2>2. /\ rows' \in Seq(Ids) /\ Range(rows') = Range(rows) \ {i}
          /\ \A p, q \in DOMAIN rows' : p # q =>
               \E a, b \in DOMAIN rows : a # b /\ rows'[p] = rows[a] /\ rows'[q] = rows[b]
      BY <1>3, <2>1, WithoutFacts
    <2>3. \A j, c : ToCome(j, c)' <=> ToCome(j, c)
      BY <1>1, Zenon DEF ToCome, Before
    <2>4. shownFor' = NoFilter => rows' = <<>> /\ nextCursor' = NoCursor
      <3> SUFFICES ASSUME shownFor = NoFilter
                   PROVE  rows' = <<>> /\ nextCursor' = NoCursor
        BY <1>1
      <3>1. rows = <<>> /\ nextCursor = NoCursor
        BY Zenon DEF WalkInv
      <3>2. Range(rows') = {}
        BY <2>2, <3>1 DEF Range
      <3>3. DOMAIN rows' = {}
        BY <3>2, Zenon DEF Range
      <3>4. DOMAIN rows' = 1 .. Len(rows') /\ Len(rows') \in Nat
        BY <2>2
      <3>5. Len(rows') = 0
        BY <3>3, <3>4
      <3> QED  BY <1>1, <2>2, <3>1, <3>5
    <2>5. CASE mixed \/ shownFor = NoFilter
      <3>1. shownFor = NoFilter => WalkInv' /\ NoDuplicate'
        BY <1>1, <2>4 DEF WalkInv, NoDuplicate, Behind
      <3>2. mixed => WalkInv' /\ NoDuplicate'
        BY <1>1, <2>4, Zenon DEF WalkInv, NoDuplicate
      <3> QED  BY <1>1, <2>5, <3>1, <3>2, Zenon DEF SkipsOnlyAtPageEnds
    <2>6. CASE ~mixed /\ shownFor # NoFilter
      <3>1. touched' = touched \cup {i}
        BY <1>3, <2>6, Zenon
      <3>2. \A p \in DOMAIN rows' : \E a \in DOMAIN rows : rows'[p] = rows[a]
        BY <2>2 DEF Range
      <3>3. WalkInv'
        BY <1>1, <2>3, <2>4, <2>6, <3>1, <3>2, Zenon DEF WalkInv, Behind
      <3>4. NoDuplicate'
        BY <2>2, <2>6, <3>1 DEF NoDuplicate
      <3>5. \A j : Matches(shownFor, j)' <=> Matches(shownFor, j)
        BY <1>1, Zenon DEF Matches
      <3>6. SkipsOnlyAtPageEnds'
        BY <1>1, <2>2, <2>3, <2>6, <3>1, <3>5, Zenon DEF SkipsOnlyAtPageEnds
      <3> QED  BY <3>3, <3>4, <3>6, Zenon
    <2> QED  BY <2>5, <2>6, Zenon
  <1> QED  BY <1>2, <1>3, Zenon DEF Retried

\* The walk on display.
LEMMA WalkStep ==
  ASSUME ListInv, [Next]_vars
  PROVE  WalkInv' /\ NoDuplicate' /\ SkipsOnlyAtPageEnds'
  <1> DEFINE Walks == WalkInv' /\ NoDuplicate' /\ SkipsOnlyAtPageEnds'
  <1>1. /\ TypeOK /\ RequestInv /\ WalkInv /\ NoDuplicate /\ SkipsOnlyAtPageEnds
        /\ \A r \in flight : r.page.served => PageInv(r)
    BY Zenon DEF ListInv
  <1>2. ASSUME NEW t \in open, Commit(t)
        PROVE  Walks
    <2> DEFINE ids == {i \in t.ids : status[i] = "PENDING" \/ (t.to = "PENDING" /\ Cardinality(t.ids) = 1)}
    <2>1. ids \in SUBSET Ids /\ t.at \in Nat /\ t.to \in Statuses
      BY <1>1, Zenon DEF TypeOK, Transactions
    <2>2. Written(ids, t.at, t.to) /\ UNCHANGED <<rows, nextCursor, shownFor, ends, mixed>>
      BY <1>2, Zenon DEF Commit, view
    <2> HIDE DEF ids
    <2> QED  BY <1>1, <2>1, <2>2, WalkWritten, Zenon
  <1>3. ASSUME NEW i \in Ids, retryFromDlq(i)
        PROVE  Walks
    <2>1. UNCHANGED <<rows, nextCursor, shownFor, ends, mixed>>
      BY <1>3, Zenon DEF retryFromDlq
    <2>2. CASE Written({i}, clock, "PENDING")
      <3>1. {i} \in SUBSET Ids /\ clock \in Nat /\ "PENDING" \in Statuses
        BY <1>1, Zenon DEF TypeOK, Statuses
      <3> QED  BY <1>1, <2>1, <2>2, <3>1, WalkWritten, Zenon
    <2>3. CASE UNCHANGED <<status, updated_at, commits, flight, touched, failures>>
      BY <1>1, <2>1, <2>3, WalkStays, Zenon
    <2> QED  BY <1>3, <2>2, <2>3, Zenon DEF retryFromDlq
  <1>4. ASSUME NEW r \in flight, ShowFirst(r)
        PROVE  Walks
    <2>1. r.page.served
      BY <1>4, Zenon DEF ShowFirst
    <2> QED  BY <1>1, <1>4, <2>1, WalkFirst, Zenon
  <1>5. ASSUME NEW r \in flight, ShowMore(r)
        PROVE  Walks
    <2>1. r.page.served
      BY <1>5, Zenon DEF ShowMore
    <2> QED  BY <1>1, <1>5, <2>1, WalkMore, Zenon
  <1>6. ASSUME NEW t, setTab(t)
        PROVE  Walks
    <2>1. rows' = <<>> /\ nextCursor' = NoCursor /\ shownFor' = NoFilter
      BY <1>6, Zenon DEF setTab
    <2> QED  BY <2>1 DEF WalkInv, NoDuplicate, SkipsOnlyAtPageEnds, Behind
  <1>7. ASSUME NEW i \in Ids, Retried(i)
        PROVE  Walks
    BY <1>1, <1>7, WalkRetried, Zenon
  <1>8. CASE \/ BeginSome \/ Poll \/ loadMore \/ (\E r \in flight : Serve(r) \/ Fail(r))
             \/ (\E f \in Filters : setFilters(f)) \/ (\E i \in Ids : retry(i)) \/ UNCHANGED vars
    <2>1. UNCHANGED <<status, updated_at, rows, nextCursor, shownFor, touched, ends, mixed>>
      BY <1>8 DEF BeginSome, Begin, Poll, loadMore, Send, Serve, Fail, setFilters, retry, vars, database, view, walk
    <2> QED  BY <1>1, <2>1, WalkStays, Zenon
  <1> QED  BY <1>2, <1>3, <1>4, <1>5, <1>6, <1>7, <1>8, Zenon DEF Next

-----------------------------------------------------------------------------
(* The theorems *)

\* Before the first page there is nothing to be wrong.
LEMMA ListInit == Init => ListInv
  <1> SUFFICES ASSUME Init
               PROVE  ListInv
    BY Zenon
  <1> DEFINE r == FirstPage(EMPTY_FILTERS)
  <1>1. /\ r \in Requests /\ r.kind = "first" /\ r.filter = EMPTY_FILTERS /\ r.cursor = NoCursor
        /\ ~r.page.served
    BY FilterFacts, RequestFacts DEF FirstPage, Cursors
  <1>2. flight = {r} /\ Current = EMPTY_FILTERS
    BY Zenon DEF Init, Current, Shown
  <1> HIDE DEF r
  <1>3. /\ status \in [Ids -> Statuses \cup {"absent"}] /\ updated_at \in [Ids -> Nat]
        /\ clock \in Nat /\ open \subseteq Transactions
    BY ListAssumption, Zenon DEF Init
  <1>4. TypeOK
    <2>1. tab \in {"deliveries", "dlq"} /\ filter \in Filters /\ shownFor \in AllFilters \cup {NoFilter}
      BY FilterFacts, Zenon DEF Init
    <2>2. rows \in Seq(Ids) /\ nextCursor \in Cursors /\ touched \subseteq Ids
      BY DEF Init, Cursors
    <2>3. /\ {loading, error, mixed} \subseteq BOOLEAN
          /\ retrying \in [Ids -> {"no", "sent", "ok", "refused"}]
      BY Zenon DEF Init
    <2>4. flight \subseteq Requests /\ (loading <=> \E q \in flight : q.kind # "first")
      BY <1>1, <1>2, Zenon DEF Init
    <2> QED  BY <1>3, <2>1, <2>2, <2>3, <2>4, Zenon DEF TypeOK
  <1>5. OneLoadMore /\ RequestInv /\ \A q \in flight : q.page.served => PageInv(q)
    BY <1>1, <1>2, Zenon DEF OneLoadMore, RequestInv
  <1>6. WalkInv /\ NoDuplicate /\ SkipsOnlyAtPageEnds
    BY DEF Init, WalkInv, NoDuplicate, SkipsOnlyAtPageEnds, Behind
  <1> QED  BY <1>4, <1>5, <1>6 DEF ListInv

\* The invariant is inductive.
LEMMA ListStep == ListInv /\ [Next]_vars => ListInv'
  <1> SUFFICES ASSUME ListInv, [Next]_vars
               PROVE  ListInv'
    OBVIOUS
  <1>1. /\ TypeOK /\ OneLoadMore /\ RequestInv /\ WalkInv
        /\ \A r \in flight : r.page.served => PageInv(r)
    BY DEF ListInv
  <1>2. TypeOK' /\ OneLoadMore'
    BY <1>1, TypeStep
  <1>3. RequestInv'
    BY <1>1, RequestStep, Zenon
  <1>4. \A r \in flight' : r.page.served => PageInv(r)'
    BY <1>1, PageStep, Zenon
  <1>5. WalkInv' /\ NoDuplicate' /\ SkipsOnlyAtPageEnds'
    BY WalkStep
  <1> QED  BY <1>2, <1>3, <1>4, <1>5, Zenon DEF ListInv

\* The types of the table, the view and the requests, and that the view is
\* loading exactly while its load more is under way.
THEOREM ListTypes == Spec => []TypeOK
  <1>1. ListInv => TypeOK
    BY DEF ListInv
  <1> QED  BY <1>1, ListInit, ListStep, PTL DEF Spec

\* Keyset pages (deliveries.repo.ts list and listDlq): whatever transactions
\* do between two pages, a row none of them wrote is listed once.
THEOREM ListedOnce == Spec => []NoDuplicate
  <1>1. ListInv => NoDuplicate
    BY DEF ListInv
  <1> QED  BY <1>1, ListInit, ListStep, PTL DEF Spec

\* ... and is listed, or still to come, unless it shares the millisecond of
\* a page's last row (deliveries.ts: last.updated_at.toISOString()).
THEOREM SkippedOnlyAtPageEnds == Spec => []SkipsOnlyAtPageEnds
  <1>1. ListInv => SkipsOnlyAtPageEnds
    BY DEF ListInv
  <1> QED  BY <1>1, ListInit, ListStep, PTL DEF Spec

\* The cleanup of the effect (DeliveryTable.tsx: cancelled = true): no answer
\* brings back the rows of a filter or a tab that was left.
THEOREM NoFilterReturns == Spec => LatestFilterShown
  <1>1. ListInv /\ [Next]_vars => [shownFor' # shownFor => shownFor' \in {Current, NoFilter}]_vars
    <2> SUFFICES ASSUME ListInv, Next
                 PROVE  shownFor' # shownFor => shownFor' \in {Current, NoFilter}
      BY Zenon
    <2>1. ASSUME NEW r \in flight, ShowFirst(r)
          PROVE  shownFor' = Current
      BY <2>1, Zenon DEF ShowFirst, ListInv, RequestInv
    <2>2. ASSUME NEW t, setTab(t)
          PROVE  shownFor' = NoFilter
      BY <2>2 DEF setTab
    <2>3. CASE ~(\E r \in flight : ShowFirst(r)) /\ ~(\E t \in {"deliveries", "dlq"} : setTab(t))
      BY <2>3, Zenon DEF Next, BeginSome, Begin, Commit, Poll, loadMore, Send, Serve, ShowMore, Fail, setFilters,
                  retry, retryFromDlq, Retried, walk
    <2> QED  BY <2>1, <2>2, <2>3
  <1> QED  BY <1>1, ListInit, ListStep, PTL DEF Spec, LatestFilterShown

=============================================================================
