--------------------------- MODULE BrowsingProofs ---------------------------
(***************************************************************************)
(* What a client that reads a listing page by page may miss or see twice.  *)
(*                                                                         *)
(* A row has a place: how many rows of the listing precede it, by the log  *)
(* of its table or by question_number.  Whichever order the query returns, *)
(* a row that is not tied stands at its place (PlacesRight), so the pages  *)
(* read so far show the rows up to (page - 1) * PageSize (PageRight).      *)
(* While no row leaves the listing places only grow, and while none comes  *)
(* they only shrink (PlacesMove).  Hence what was not shown stays ahead of *)
(* the walk, and what was shown stays behind: WalkInv.                     *)
(***************************************************************************)
EXTENDS Browsing, ReviewQueueProofs, SortingProofs

-----------------------------------------------------------------------------
(* Orders of rows.                                                         *)

(* An order names the rows one by one.                                     *)
IsOrder(s, rows, c) ==
  /\ c \in Nat /\ DOMAIN s = 1..c
  /\ \A k \in 1..c : s[k] \in rows
  /\ \A j, k \in 1..c : s[j] = s[k] => j = k
  /\ \A x \in rows : \E k \in 1..c : s[k] = x

LEMMA RangeSize ==
  ASSUME NEW s, NEW rows, NEW c, IsOrder(s, rows, c), NEW a \in Nat, NEW b \in Nat, a <= b, b <= c,
         NEW part, \A y : y \in part <=> \E k \in 1..c : a < k /\ k <= b /\ y = s[k]
  PROVE  IsFiniteSet(part) /\ Cardinality(part) = b - a
<1> DEFINE D == (a + 1)..b
           f == [k \in D |-> s[k]]
<1>1. c \in Nat /\ \A k : k \in D <=> k \in 1..c /\ a < k /\ k <= b
  BY DEF IsOrder
<1>2. IsFiniteSet(D) /\ Cardinality(D) = b - a
  <2>1. a + 1 \in Int /\ b \in Int /\ (a + 1 > b => b - a = 0) /\ b - (a + 1) + 1 = b - a
    OBVIOUS
  <2> QED BY <2>1, FS_Interval
<1>3. \A j, k \in D : f[j] = f[k] => j = k
  BY <1>1 DEF IsOrder
<1> HIDE DEF D
<1>4. f \in [D -> part] /\ \A y \in part : \E k \in D : f[k] = y
  BY <1>1
<1> HIDE DEF f
<1>5. f \in Injection(D, part)
  BY <1>3, <1>4, Fun_IsInj
<1>6. f \in Surjection(D, part)
  BY <1>4, Fun_IsSurj
<1>7. IsFiniteSet(part) /\ Cardinality(part) = Cardinality(D)
  BY <1>2, <1>5, <1>6, FS_Surjection
<1> QED BY <1>2, <1>7

LEMMA OrderSize ==
  ASSUME NEW s, NEW rows, NEW c, IsOrder(s, rows, c)
  PROVE  IsFiniteSet(rows) /\ Cardinality(rows) = c
<1>1. c \in Nat /\ 0 \in Nat /\ 0 <= c /\ c <= c /\ c - 0 = c
  BY DEF IsOrder
<1>2. \A y : y \in rows <=> \E k \in 1..c : 0 < k /\ k <= c /\ y = s[k]
  BY <1>1 DEF IsOrder
<1> QED BY <1>1, <1>2, RangeSize

LEMMA PrefixSize ==
  ASSUME NEW s, NEW rows, NEW c, IsOrder(s, rows, c), NEW k \in 1..c,
         NEW part, \A y : y \in part <=> \E j \in 1..c : j <= k /\ y = s[j]
  PROVE  Cardinality(part) = k
<1>1. c \in Nat /\ 0 \in Nat /\ k \in Nat /\ 0 <= k /\ k <= c /\ k - 0 = k
  BY DEF IsOrder
<1>2. \A y : y \in part <=> \E j \in 1..c : 0 < j /\ j <= k /\ y = s[j]
  BY <1>1
<1> QED BY <1>1, <1>2, RangeSize

(* The log of a table names each of its rows once.                         *)
IsLog(log) == \A j, k \in DOMAIN log : log[j] = log[k] => j = k

Newer(log, y, x) == \E j, k \in DOMAIN log : k <= j /\ log[j] = y /\ log[k] = x

LEMMA NewestFirstRight ==
  ASSUME NEW T, NEW log \in Seq(T), IsLog(log),
         NEW rows, \A x \in rows : \E k \in DOMAIN log : log[k] = x,
         NEW s, s = NewestFirst(log, rows)
  PROVE  \E c : /\ IsOrder(s, rows, c)
                /\ \A j, k \in 1..c : j <= k <=> Newer(log, s[j], s[k])
<1> DEFINE n == Len(log)
           newest == [k \in DOMAIN log |-> log[n + 1 - k]]
           I == {k \in DOMAIN newest : newest[k] \in rows}
           c == Cardinality(I)
           at == Sorted(I)
<1>1. n \in Nat /\ DOMAIN log = 1..n /\ DOMAIN newest = 1..n
  OBVIOUS
<1>2. \A k \in 1..n : n + 1 - k \in 1..n /\ n + 1 - (n + 1 - k) = k
  BY <1>1
<1>3. \A k \in 1..n : newest[k] = log[n + 1 - k] /\ newest[k] \in T
  BY <1>1, <1>2
<1>4. newest \in Seq(T)
  BY <1>1, <1>3
<1>5. \A j, k \in 1..n : newest[j] = newest[k] => j = k
  <2> TAKE j, k \in 1..n
  <2>1. newest[j] = newest[k] => n + 1 - j = n + 1 - k
    BY <1>1, <1>2, <1>3 DEF IsLog
  <2> QED BY <1>1, <2>1
<1>6. \A x \in rows : \E k \in 1..n : newest[k] = x
  <2> TAKE x \in rows
  <2>1. PICK k \in 1..n : log[k] = x
    BY <1>1
  <2>2. n + 1 - k \in 1..n /\ newest[n + 1 - k] = log[n + 1 - (n + 1 - k)]
    BY <1>2, <1>3
  <2> QED BY <1>2, <2>1, <2>2
<1>7. s = Kept(newest, I)
  BY DEF NewestFirst
<1>8. I \in SUBSET DOMAIN newest /\ I \in SUBSET Nat /\ \A k \in 1..n : k \in I <=> newest[k] \in rows
  BY <1>1
<1> HIDE DEF newest, I, n
<1>9. /\ IsFiniteSet(I) /\ c \in Nat
      /\ DOMAIN s = 1..c /\ at \in [1..c -> I]
      /\ \A k \in 1..c : s[k] = newest[at[k]]
      /\ \A j, k \in 1..c : j < k => at[j] < at[k]
  BY <1>4, <1>7, <1>8, KeptRight
<1>10. \A i \in I : \E k \in 1..c : at[k] = i
  BY <1>8, <1>9, SortedRight
<1> HIDE DEF at, c
<1>11. \A k \in 1..c : at[k] \in 1..n /\ at[k] \in Nat /\ s[k] \in rows
  BY <1>1, <1>8, <1>9
<1>12. \A j, k \in 1..c : j <= k <=> at[j] <= at[k]
  <2> TAKE j, k \in 1..c
  <2>1. j \in Nat /\ k \in Nat /\ at[j] \in Nat /\ at[k] \in Nat
    BY <1>11
  <2>2. (j < k => at[j] < at[k]) /\ (k < j => at[k] < at[j])
    BY <1>9
  <2> QED BY <2>1, <2>2
<1>13. \A j, k \in 1..c : s[j] = s[k] => j = k
  <2> TAKE j, k \in 1..c
  <2>1. s[j] = s[k] => at[j] = at[k]
    BY <1>5, <1>9, <1>11
  <2>2. j \in Nat /\ k \in Nat /\ at[j] \in Nat /\ at[k] \in Nat
    BY <1>11
  <2>3. (j < k => at[j] < at[k]) /\ (k < j => at[k] < at[j])
    BY <1>9
  <2> QED BY <2>1, <2>2, <2>3
<1>14. \A x \in rows : \E k \in 1..c : s[k] = x
  BY <1>6, <1>8, <1>9, <1>10
<1>15. ASSUME NEW j \in 1..c, NEW k \in 1..c
       PROVE  j <= k <=> Newer(log, s[j], s[k])
  <2> DEFINE J == n + 1 - at[j]
             K == n + 1 - at[k]
  <2>1. J \in 1..n /\ K \in 1..n /\ log[J] = s[j] /\ log[K] = s[k]
    BY <1>2, <1>3, <1>9, <1>11
  <2>2. at[j] <= at[k] <=> K <= J
    BY <1>1, <1>11
  <2>3. Newer(log, s[j], s[k]) <=> K <= J
    <3> HIDE DEF J, K
    <3>1. \A i \in 1..n : (log[i] = s[j] => i = J) /\ (log[i] = s[k] => i = K)
      BY <1>1, <2>1 DEF IsLog
    <3> QED BY <1>1, <2>1, <3>1 DEF Newer
  <2> QED BY <1>12, <2>2, <2>3
<1>16. IsOrder(s, rows, c)
  BY <1>9, <1>11, <1>13, <1>14 DEF IsOrder
<1> QED BY <1>15, <1>16

(* ORDER BY question_number: a row that shares its number with no other    *)
(* has its place.                                                          *)
LEMMA ByNumberRight ==
  ASSUME NEW rows, IsFiniteSet(rows), \A x \in rows : Number[x] \in Nat, NEW s \in ByNumber(rows)
  PROVE  \E c : /\ IsOrder(s, rows, c)
                /\ \A j, k \in 1..c : j <= k => Number[s[j]] <= Number[s[k]]
<1> DEFINE c == Cardinality(rows)
<1>1. /\ c \in Nat /\ s \in [1..c -> rows]
      /\ \A j, k \in 1..c : j < k => s[j] # s[k] /\ Number[s[j]] <= Number[s[k]]
  BY FS_CardinalityType DEF ByNumber
<1>2. IsFiniteSet(1..c) /\ Cardinality(1..c) = c
  <2>1. 1 \in Int /\ c \in Int /\ (1 > c => c = 0) /\ c - 1 + 1 = c
    BY <1>1
  <2> QED BY <2>1, FS_Interval
<1>3. c = Cardinality(rows)
  OBVIOUS
<1> HIDE DEF c
<1>4. \A j, k \in 1..c : s[j] = s[k] => j = k
  BY <1>1
<1>5. s \in Injection(1..c, rows)
  BY <1>1, <1>4, Fun_IsInj
<1>6. s \in Surjection(1..c, rows)
  BY <1>2, <1>3, <1>5, FS_Injection
<1>7. \A x \in rows : \E k \in 1..c : s[k] = x
  <2> DEFINE D == 1..c
  <2>1. s \in Surjection(D, rows)
    BY <1>6
  <2> HIDE DEF D
  <2>2. \A x \in rows : \E k \in D : s[k] = x
    BY <2>1, Fun_SurjectionProperties
  <2> QED BY <2>2 DEF D
<1>8. IsOrder(s, rows, c)
  BY <1>1, <1>4, <1>7 DEF IsOrder
<1>9. \A j, k \in 1..c : j <= k => Number[s[j]] <= Number[s[k]]
  <2> TAKE j, k \in 1..c
  <2>1. CASE j < k
    BY <1>1, <2>1
  <2>2. CASE j = k
    <3>1. Number[s[k]] \in Nat
      BY <1>1
    <3> QED BY <2>2, <3>1
  <2>3. CASE ~(j < k) /\ j # k
    BY <2>3
  <2> QED BY <2>1, <2>2, <2>3
<1> QED BY <1>8, <1>9

LEMMA PagesCover ==
  ASSUME NEW total \in Nat, NEW page \in Nat, NEW size \in Nat \ {0},
         page >= (total + size - 1) \div size
  PROVE  total <= page * size
OBVIOUS

-----------------------------------------------------------------------------
(* The tables beneath the listings.                                        *)

(* documents.created_at and review_items.created_at order rows that are    *)
(* there once; questions have the numbers stage 4 gave them.               *)
LogInv ==
  /\ IsLog(docLog) /\ IsLog(itemLog)
  /\ \A d \in Docs : status[d] # "none" <=> \E k \in DOMAIN docLog : docLog[k] = d
  /\ \A d \in Docs : asked[d] <= NumQuestions[d]

TableInv == RequestInvariants /\ LogInv

TableTypes == RunTypes /\ ItemTypes

LEMMA TableType == TableInv => TableTypes
BY DEF TableInv, RequestInvariants, QueueInv, TypeOK, TableTypes

Grown(old, new) ==
  Len(old) <= Len(new) /\ \A k \in DOMAIN old : k \in DOMAIN new /\ new[k] = old[k]

LEMMA GrownRight ==
  ASSUME NEW T, NEW old \in Seq(T), NEW x, NEW new, new = old \/ new = Append(old, x)
  PROVE  Grown(old, new)
<1>1. CASE new = old
  BY <1>1 DEF Grown
<1>2. CASE new = Append(old, x)
  BY <1>2, AppendProperties DEF Grown
<1> QED BY <1>1, <1>2

(* What a step does to the tables.                                         *)
TablesGrow ==
  /\ Grown(docLog, docLog') /\ Grown(itemLog, itemLog')
  /\ \A d \in Docs : asked[d] <= asked'[d]

LEMMA FilePendingLog ==
  ASSUME NEW d, NEW due, FilePending(d, due)
  PROVE  \E i : itemLog' = itemLog \/ itemLog' = Append(itemLog, i)
BY DEF FilePending, File

(* An upload adds its document, and stage 6 the questions of one.          *)
LEMMA ProcessTables ==
  ASSUME TableInv, NEW d \in Docs, Process(d)
  PROVE  /\ \E i : itemLog' = itemLog \/ itemLog' = Append(itemLog, i)
         /\ \/ /\ docLog' = docLog
               /\ \A e \in Docs : status'[e] # "none" <=> status[e] # "none"
            \/ /\ docLog' = Append(docLog, d) /\ status[d] = "none"
               /\ \A e \in Docs : status'[e] # "none" <=> status[e] # "none" \/ e = d
         /\ \/ asked' = asked
            \/ \E q \in Nat : /\ asked[d] = 0 /\ q <= NumQuestions[d]
                              /\ asked' = [asked EXCEPT ![d] = q]
<1>1. /\ status \in [Docs -> {"none", "QUEUED", "PROCESSING", "COMPLETED", "FAILED"}]
      /\ asked \in [Docs -> Nat] /\ drafted \in [Docs -> Nat]
      /\ drafted[d] <= NumQuestions[d] /\ NumQuestions[d] \in Nat
      /\ pc[d] = "scoring" => asked[d] = 0
      /\ pc[d] # "none" => status[d] # "none"
  BY SizeAssumption, TableType
  DEF TableTypes, RunTypes, TableInv, RequestInvariants, QueueInv, OneScoring
<1>2. CASE Upload(d)
  BY <1>1, <1>2 DEF Upload, itemVars
<1>3. CASE Start(d) \/ Extract(d) \/ ExtractionClash(d) \/ Raise(d) \/ MarkFailed(d)
           \/ Lost(d) \/ Reap(d)
  BY <1>1, <1>3 DEF Start, Extract, ExtractionClash, Raise, MarkFailed, Lost, Reap,
                    tableVars, itemVars
<1>4. CASE Validate(d)
  BY <1>1, <1>4 DEF Validate, File, tableVars
<1>5. CASE Draft(d)
  BY <1>1, <1>5, FilePendingLog DEF Draft, tableVars
<1>6. ASSUME NEW q \in 0..drafted[d], NEW a, NEW due, CommitDrafts(d, q, a, due)
      PROVE  /\ \E i : itemLog' = itemLog \/ itemLog' = Append(itemLog, i)
             /\ docLog' = docLog
             /\ pc[d] = "scoring" =>
                  \E n \in Nat : /\ asked[d] = 0 /\ n <= NumQuestions[d]
                                 /\ asked' = [asked EXCEPT ![d] = n]
  <2>1. asked' = [asked EXCEPT ![d] = asked[d] + q]
    BY <1>1, <1>6 DEF CommitDrafts
  <2>2. q \in Nat /\ q <= NumQuestions[d] /\ (asked[d] = 0 => asked[d] + q = q)
    BY <1>1
  <2> QED BY <1>1, <1>6, <2>1, <2>2, FilePendingLog DEF CommitDrafts
<1>7. CASE Complete(d)
  <2>1. drafted[d] \in 0..drafted[d]
    BY <1>1
  <2>2. \A e \in Docs : status'[e] # "none" <=> status[e] # "none"
    BY <1>1, <1>7 DEF Complete
  <2> QED BY <1>6, <1>7, <2>1, <2>2 DEF Complete
<1>8. CASE SoftLimit(d)
  <2>1. drafted[d] \in 0..drafted[d]
    BY <1>1
  <2> QED BY <1>6, <1>8, <2>1 DEF SoftLimit
<1> QED BY <1>2, <1>3, <1>4, <1>5, <1>7, <1>8 DEF Process

LEMMA NextTables ==
  ASSUME TableInv, [Next]_vars
  PROVE  LogInv' /\ TablesGrow
<1>1. RequestInvariants'
  BY NextRight DEF TableInv
<1>2. /\ docLog \in Seq(Docs) /\ docLog' \in Seq(Docs) /\ itemLog \in Seq(Items)
      /\ IsLog(itemLog') /\ asked \in [Docs -> Nat] /\ NumQuestions \in [Docs -> Nat]
  BY <1>1, TableType, SizeAssumption
  DEF TableTypes, RunTypes, ItemTypes, IsLog, RequestInvariants, QueueInv, TypeOK
<1>3. CASE UNCHANGED <<docLog, itemLog, asked, status>>
  <2>1. LogInv'
    BY <1>3 DEF LogInv, TableInv, IsLog
  <2>2. TablesGrow
    BY <1>2, <1>3 DEF TablesGrow, Grown
  <2> QED BY <2>1, <2>2
<1>4. ASSUME NEW d \in Docs, Process(d)
      PROVE  LogInv' /\ TablesGrow
  <2>1. PICK i : itemLog' = itemLog \/ itemLog' = Append(itemLog, i)
    BY <1>4, ProcessTables
  <2>2. Grown(itemLog, itemLog')
    BY <1>2, <2>1, GrownRight
  <2>3. /\ \A e \in Docs : asked'[e] <= NumQuestions[e]
        /\ \A e \in Docs : asked[e] <= asked'[e]
    <3>1. CASE asked' = asked
      BY <1>2, <3>1 DEF TableInv, LogInv
    <3>2. CASE \E q \in Nat : /\ asked[d] = 0 /\ q <= NumQuestions[d]
                              /\ asked' = [asked EXCEPT ![d] = q]
      BY <1>2, <3>2 DEF TableInv, LogInv
    <3> QED BY <1>4, <3>1, <3>2, ProcessTables
  <2>4. /\ Grown(docLog, docLog') /\ IsLog(docLog')
        /\ \A e \in Docs : status'[e] # "none" <=> \E k \in DOMAIN docLog' : docLog'[k] = e
    <3>1. CASE /\ docLog' = docLog
               /\ \A e \in Docs : status'[e] # "none" <=> status[e] # "none"
      <4>1. Grown(docLog, docLog')
        BY <1>2, <3>1, GrownRight
      <4> QED BY <3>1, <4>1 DEF TableInv, LogInv, IsLog
    <3>2. CASE /\ docLog' = Append(docLog, d) /\ status[d] = "none"
               /\ \A e \in Docs : status'[e] # "none" <=> status[e] # "none" \/ e = d
      <4> DEFINE n == Len(docLog)
      <4>1. /\ n \in Nat /\ DOMAIN docLog = 1..n /\ DOMAIN docLog' = 1..(n + 1)
            /\ docLog'[n + 1] = d /\ \A k \in 1..n : docLog'[k] = docLog[k]
        BY <1>2, <3>2, AppendProperties
      <4> HIDE DEF n
      <4>2. /\ \A k \in 1..n : docLog[k] # d
            /\ \A j, k \in 1..n : docLog[j] = docLog[k] => j = k
            /\ \A e \in Docs : status[e] # "none" <=> \E k \in 1..n : docLog[k] = e
        BY <3>2, <4>1 DEF TableInv, LogInv, IsLog
      <4>3. \A k \in 1..(n + 1) : k = n + 1 \/ k \in 1..n
        BY <4>1
      <4>4. n + 1 \in 1..(n + 1) /\ \A k \in 1..n : k \in 1..(n + 1)
        BY <4>1
      <4>5. IsLog(docLog')
        BY <4>1, <4>2, <4>3 DEF IsLog
      <4>6. \A e \in Docs : (\E k \in 1..(n + 1) : docLog'[k] = e) <=> (\E k \in 1..n : docLog[k] = e) \/ e = d
        BY <4>1, <4>3, <4>4
      <4>7. Grown(docLog, docLog')
        BY <1>2, <3>2, GrownRight
      <4> QED BY <3>2, <4>1, <4>2, <4>5, <4>6, <4>7
    <3> QED BY <1>4, <3>1, <3>2, ProcessTables
  <2> QED BY <1>2, <2>2, <2>3, <2>4 DEF LogInv, TablesGrow
<1>5. ASSUME NEW c \in Clients, LoadItem(c) \/ CommitItem(c) \/ Respond(c)
      PROVE  UNCHANGED <<docLog, itemLog, asked, status>>
  BY <1>5 DEF LoadItem, CommitItem, Respond, tableVars, itemVars
<1>6. CASE UNCHANGED vars
  <2>1. UNCHANGED <<docLog, itemLog, asked, status>>
    BY <1>6 DEF vars, tableVars, itemVars
  <2> QED BY <1>3, <2>1
<1> QED BY <1>3, <1>4, <1>5, <1>6 DEF Next

-----------------------------------------------------------------------------
(* The place of a row.                                                     *)

LogOf(l) == IF l.table = "documents" THEN docLog ELSE itemLog

(* y is listed before x, whatever else the listing has, or is x. *)
Precedes(l, log, y, x) ==
  IF l.table = "questions" THEN Number[y] <= Number[x] ELSE Newer(log, y, x)

PlaceIn(l, log, rows, x) == Cardinality({y \in rows : Precedes(l, log, y, x)})

LEMMA ListingRight ==
  ASSUME NEW l \in AllListings
  PROVE  /\ l.table \in {"documents", "items", "questions"}
         /\ l.table = "questions" => l.filter \in Docs
BY DEF AllListings

(* The rows of a listing are in its log, or are questions with numbers.    *)
Kinds == Docs \cup Items

WellListed(l, log, rows) ==
  IF l.table = "questions"
    THEN IsFiniteSet(rows) /\ \A x \in rows : Number[x] \in Nat
  ELSE /\ log \in Seq(Kinds) /\ IsLog(log)
       /\ \A x \in rows : \E k \in DOMAIN log : log[k] = x

LEMMA RowsRight ==
  ASSUME TableInv, NEW l \in AllListings, NEW user
  PROVE  WellListed(l, LogOf(l), Matching(l, user))
<1> DEFINE rows == Matching(l, user)
<1>0. rows = Matching(l, user)
  OBVIOUS
<1> HIDE DEF rows
<1>1. CASE l.table = "documents"
  <2>1. docLog \in Seq(Docs) /\ IsLog(docLog)
    BY TableType DEF TableTypes, RunTypes, TableInv, LogInv
  <2>2. docLog \in Seq(Kinds)
    BY <2>1 DEF Kinds
  <2>3. \A x \in rows : \E k \in DOMAIN docLog : docLog[k] = x
    BY <1>0, <1>1 DEF Matching, TableInv, LogInv
  <2> QED BY <1>0, <1>1, <2>1, <2>2, <2>3 DEF WellListed, LogOf
<1>2. CASE l.table = "items"
  <2>1. itemLog \in Seq(Items) /\ IsLog(itemLog)
    BY TableType DEF TableTypes, ItemTypes, TableInv, LogInv
  <2>2. itemLog \in Seq(Kinds)
    BY <2>1 DEF Kinds
  <2>3. rows \subseteq visible
    BY <1>0, <1>2 DEF Matching
  <2>4. \A x \in rows : \E k \in DOMAIN itemLog : itemLog[k] = x
    BY <2>3, TableType DEF TableTypes, ItemTypes, Logged
  <2> QED BY <1>0, <1>2, <2>1, <2>2, <2>4 DEF WellListed, LogOf
<1>3. CASE l.table = "questions"
  <2> DEFINE d == l.filter
             K == {k \in 1..asked[d] : Owner[d] = user}
  <2>1. d \in Docs /\ asked[d] \in Nat /\ asked[d] <= NumQuestions[d] /\ NumQuestions[d] \in Nat
    BY <1>3, ListingRight, TableType, SizeAssumption DEF TableTypes, RunTypes, TableInv, LogInv
  <2>2. rows = {<<d, n>> : n \in K}
    BY <1>0, <1>3 DEF Matching
  <2>3. K \in SUBSET (1..asked[d]) /\ \A n \in K : n \in 1..NumQuestions[d]
    BY <2>1
  <2> HIDE DEF K, d
  <2>4. IsFiniteSet(K)
    <3>1. 1 \in Int /\ asked[d] \in Int
      BY <2>1
    <3> QED BY <2>3, <3>1, FS_Interval, FS_Subset
  <2>5. IsFiniteSet(rows)
    <3> DEFINE f == [n \in K |-> <<d, n>>]
    <3>1. f \in [K -> rows] /\ \A y \in rows : \E n \in K : f[n] = y
      BY <2>2
    <3> HIDE DEF f
    <3>2. f \in Surjection(K, rows)
      BY <3>1, Fun_IsSurj
    <3> QED BY <2>4, <3>2, FS_Surjection
  <2>6. \A x \in rows : x \in Questions
    BY <2>1, <2>2, <2>3 DEF Questions
  <2> QED BY <1>0, <1>3, <2>5, <2>6, NumberAssumption DEF WellListed
<1> QED BY <1>1, <1>2, <1>3, ListingRight

LEMMA RowsFinite ==
  ASSUME NEW l, NEW log, NEW rows, WellListed(l, log, rows)
  PROVE  IsFiniteSet(rows) /\ Cardinality(rows) \in Nat
<1>1. CASE l.table # "questions"
  <2> DEFINE s == NewestFirst(log, rows)
  <2>1. s = NewestFirst(log, rows)
    OBVIOUS
  <2> HIDE DEF s
  <2>2. \E c : IsOrder(s, rows, c)
    BY <1>1, <2>1, NewestFirstRight DEF WellListed
  <2> QED BY <2>2, OrderSize, FS_CardinalityType
<1> QED BY <1>1, FS_CardinalityType DEF WellListed

(* Another row of the listing has the same number. *)
Shared(l, rows, x) ==
  l.table = "questions" /\ \E y \in rows : y # x /\ Number[y] = Number[x]

(* Whichever order the query returns: a row that is not tied has the place *)
(* its number or its time gives it.                                        *)
LEMMA OrderRight ==
  ASSUME NEW l \in AllListings, NEW rows, WellListed(l, LogOf(l), rows), NEW s \in Orders(l, rows)
  PROVE  \E c : /\ IsOrder(s, rows, c)
                /\ \A j, k \in 1..c : j <= k => Precedes(l, LogOf(l), s[j], s[k])
                /\ \A j, k \in 1..c :
                     ~Shared(l, rows, s[k]) /\ Precedes(l, LogOf(l), s[j], s[k]) => j <= k
<1>1. CASE l.table # "questions"
  <2>1. s = NewestFirst(LogOf(l), rows)
    BY <1>1, ListingRight DEF Orders, LogOf
  <2>2. PICK c : IsOrder(s, rows, c) /\ \A j, k \in 1..c : j <= k <=> Newer(LogOf(l), s[j], s[k])
    BY <1>1, <2>1, NewestFirstRight DEF WellListed
  <2> QED BY <1>1, <2>2 DEF Precedes
<1>2. CASE l.table = "questions"
  <2>1. s \in ByNumber(rows)
    BY <1>2 DEF Orders
  <2>2. IsFiniteSet(rows) /\ \A x \in rows : Number[x] \in Nat
    BY <1>2 DEF WellListed
  <2>3. PICK c : IsOrder(s, rows, c) /\ \A j, k \in 1..c : j <= k => Number[s[j]] <= Number[s[k]]
    BY <2>1, <2>2, ByNumberRight
  <2>4. ASSUME NEW j \in 1..c, NEW k \in 1..c, ~Shared(l, rows, s[k]), Number[s[j]] <= Number[s[k]]
        PROVE  j <= k
    <3> SUFFICES ASSUME ~(j <= k) PROVE FALSE
      OBVIOUS
    <3>1. s[j] \in rows /\ s[k] \in rows /\ c \in Nat /\ (s[j] = s[k] => j = k)
      BY <2>3 DEF IsOrder
    <3>2. k <= j /\ j # k
      BY <3>1
    <3>3. Number[s[k]] <= Number[s[j]] /\ Number[s[j]] \in Nat /\ Number[s[k]] \in Nat
      BY <2>2, <2>3, <3>1, <3>2
    <3>4. Number[s[j]] = Number[s[k]] /\ s[j] # s[k]
      BY <2>4, <3>1, <3>2, <3>3
    <3> QED BY <1>2, <2>4, <3>1, <3>4 DEF Shared
  <2> QED BY <1>2, <2>3, <2>4 DEF Precedes
<1> QED BY <1>1, <1>2

LEMMA PlacesRight ==
  ASSUME NEW l \in AllListings, NEW rows, WellListed(l, LogOf(l), rows), NEW s \in Orders(l, rows)
  PROVE  \E c : /\ IsOrder(s, rows, c) /\ Cardinality(rows) = c
                /\ \A k \in 1..c :
                     ~Shared(l, rows, s[k]) => PlaceIn(l, LogOf(l), rows, s[k]) = k
<1>1. PICK c : /\ IsOrder(s, rows, c)
               /\ \A j, k \in 1..c : j <= k => Precedes(l, LogOf(l), s[j], s[k])
               /\ \A j, k \in 1..c :
                    ~Shared(l, rows, s[k]) /\ Precedes(l, LogOf(l), s[j], s[k]) => j <= k
  BY OrderRight
<1>2. Cardinality(rows) = c
  BY <1>1, OrderSize
<1>3. ASSUME NEW k \in 1..c, ~Shared(l, rows, s[k])
      PROVE  PlaceIn(l, LogOf(l), rows, s[k]) = k
  <2> DEFINE ahead == {y \in rows : Precedes(l, LogOf(l), y, s[k])}
  <2>1. IsOrder(s, rows, c)
    BY <1>1
  <2>2. \A j \in 1..c : s[j] \in ahead <=> j <= k
    BY <1>1, <1>3 DEF IsOrder
  <2>3. \A y \in ahead : \E j \in 1..c : y = s[j]
    BY <1>1 DEF IsOrder
  <2> HIDE DEF ahead
  <2>4. \A y : y \in ahead <=> \E j \in 1..c : j <= k /\ y = s[j]
    BY <2>2, <2>3
  <2>5. Cardinality(ahead) = k
    BY <2>1, <2>4, PrefixSize
  <2> QED BY <2>5 DEF ahead, PlaceIn
<1> QED BY <1>1, <1>2, <1>3

(* Every row has a place, and the listing ends with the last one.          *)
LEMMA PlacesType ==
  ASSUME NEW l, NEW log, NEW rows, WellListed(l, log, rows), NEW x \in rows
  PROVE  /\ PlaceIn(l, log, rows, x) \in Nat \ {0}
         /\ PlaceIn(l, log, rows, x) <= Cardinality(rows)
<1> DEFINE ahead == {y \in rows : Precedes(l, log, y, x)}
<1>1. Precedes(l, log, x, x)
  <2>1. CASE l.table = "questions"
    <3>1. Number[x] \in Nat
      BY <2>1 DEF WellListed
    <3>2. Number[x] <= Number[x]
      BY <3>1
    <3> QED BY <2>1, <3>2 DEF Precedes
  <2>2. CASE l.table # "questions"
    <3>1. PICK k \in DOMAIN log : log[k] = x /\ log \in Seq(Kinds)
      BY <2>2 DEF WellListed
    <3>2. k <= k
      BY <3>1
    <3> QED BY <2>2, <3>1, <3>2 DEF Precedes, Newer
  <2> QED BY <2>1, <2>2
<1>2. ahead \in SUBSET rows /\ x \in ahead
  BY <1>1
<1> HIDE DEF ahead
<1>3. IsFiniteSet(ahead) /\ Cardinality(ahead) <= Cardinality(rows)
  BY <1>2, RowsFinite, FS_Subset
<1>4. Cardinality(ahead) \in Nat /\ Cardinality(ahead) # 0
  BY <1>2, <1>3, FS_CardinalityType, FS_EmptySet
<1> QED BY <1>3, <1>4 DEF ahead, PlaceIn

-----------------------------------------------------------------------------
(* While no row leaves, places only grow; while none comes, they shrink.   *)

LEMMA NewerGrown ==
  ASSUME NEW old \in Seq(Kinds), NEW new \in Seq(Kinds), IsLog(new), Grown(old, new),
         NEW x, NEW y, \E k \in DOMAIN old : old[k] = x, \E k \in DOMAIN old : old[k] = y
  PROVE  Newer(new, y, x) <=> Newer(old, y, x)
<1>1. PICK i \in DOMAIN old : old[i] = x
  OBVIOUS
<1>2. PICK j \in DOMAIN old : old[j] = y
  OBVIOUS
<1>3. /\ \A k \in DOMAIN old : k \in DOMAIN new /\ new[k] = old[k]
      /\ \A k, m \in DOMAIN new : new[k] = new[m] => k = m
  BY DEF Grown, IsLog
<1>4. Newer(new, y, x) <=> i <= j
  BY <1>1, <1>2, <1>3 DEF Newer
<1>5. Newer(old, y, x) <=> i <= j
  BY <1>1, <1>2, <1>3 DEF Newer
<1> QED BY <1>4, <1>5

LEMMA PlacesMove ==
  ASSUME NEW l, NEW old, NEW new, NEW rows, NEW later,
         WellListed(l, old, rows), WellListed(l, new, later), Grown(old, new),
         NEW x \in rows, x \in later
  PROVE  /\ rows \subseteq later => PlaceIn(l, old, rows, x) <= PlaceIn(l, new, later, x)
         /\ later \subseteq rows => PlaceIn(l, new, later, x) <= PlaceIn(l, old, rows, x)
<1> DEFINE ahead == {y \in rows : Precedes(l, old, y, x)}
           behind == {y \in later : Precedes(l, new, y, x)}
<1>1. \A y \in rows : Precedes(l, new, y, x) <=> Precedes(l, old, y, x)
  <2>1. CASE l.table = "questions"
    BY <2>1 DEF Precedes
  <2>2. CASE l.table # "questions"
    BY <2>2, NewerGrown DEF Precedes, WellListed
  <2> QED BY <2>1, <2>2
<1>2. IsFiniteSet(ahead) /\ IsFiniteSet(behind)
  <2>1. IsFiniteSet(rows) /\ IsFiniteSet(later)
    BY RowsFinite
  <2>2. ahead \in SUBSET rows /\ behind \in SUBSET later
    OBVIOUS
  <2> QED BY <2>1, <2>2, FS_Subset
<1>3. rows \subseteq later => ahead \in SUBSET behind
  BY <1>1
<1>4. later \subseteq rows => behind \in SUBSET ahead
  BY <1>1
<1> HIDE DEF ahead, behind
<1>5. /\ rows \subseteq later => Cardinality(ahead) <= Cardinality(behind)
      /\ later \subseteq rows => Cardinality(behind) <= Cardinality(ahead)
  BY <1>2, <1>3, <1>4, FS_Subset
<1> QED BY <1>5 DEF ahead, behind, PlaceIn

-----------------------------------------------------------------------------
(* The invariant of a walk.                                                *)

WalkedLog == LogOf(walk.listing)
PlaceOf(x) == PlaceIn(walk.listing, WalkedLog, Rows, x)

(* The rows of the pages so far are those up to this place. *)
Passed == (walk.page - 1) * PageSize

WalkTypes ==
  /\ walk = [pc |-> walk.pc, client |-> walk.client, listing |-> walk.listing,
             user |-> walk.user, page |-> walk.page, total |-> walk.total,
             shown |-> walk.shown, again |-> walk.again]
  /\ walk.pc \in {"count", "select", "told", "done"}
  /\ walk.listing \in AllListings /\ walk.page \in Nat \ {0} /\ walk.total \in Nat
  /\ watch = [kept |-> watch.kept, left |-> watch.left, came |-> watch.came,
              late |-> watch.late]
  /\ watch.left \in BOOLEAN /\ watch.came \in BOOLEAN /\ watch.late \in BOOLEAN
  /\ watch.kept \subseteq Rows

(* While no row leaves, what was not shown is still ahead ... *)
StillAhead ==
  ~watch.left => \A x \in watch.kept \ walk.shown : PlaceOf(x) > Passed \/ Tied(x)

(* ... and while none comes, what was shown stays behind. *)
StaysBehind ==
  ~watch.came =>
    /\ \A x \in walk.shown \cap Rows : PlaceOf(x) <= Passed \/ Tied(x)
    /\ \A x \in walk.again : Tied(x)

(* The count bounds the listing until a row comes, so nothing is ahead of  *)
(* the page that the walk ends with.                                       *)
CountBounds ==
  walk.pc = "select" /\ ~watch.late => Cardinality(Rows) <= walk.total

NothingAhead ==
  (walk.pc = "done" \/ (walk.pc = "told" /\ ~watch.late)) /\ ~watch.left =>
    \A x \in watch.kept \ walk.shown : Tied(x)

WalkInv ==
  \/ walk = NoWalk /\ watch = Unwatched
  \/ WalkTypes /\ StillAhead /\ StaysBehind /\ CountBounds /\ NothingAhead

BrowsingInv == TableInv /\ WalkInv

LEMMA TiedShared == \A x : Tied(x) <=> Shared(walk.listing, Rows, x)
BY DEF Tied, Shared

LEMMA WalkedRight ==
  ASSUME TableInv, walk.listing \in AllListings
  PROVE  WellListed(walk.listing, WalkedLog, Rows)
BY RowsRight DEF Rows, WalkedLog

Walked == WellListed(walk.listing, WalkedLog, Rows)

LEMMA WalkedWell == TableInv /\ walk.listing \in AllListings => Walked
BY WalkedRight DEF Walked

(* The requests of a walk change no table.                                 *)
LEMMA WalkFrame ==
  ASSUME UNCHANGED vars, walk'.listing = walk.listing, walk'.user = walk.user
  PROVE  /\ Rows' = Rows /\ WalkedLog' = WalkedLog
         /\ \A x : PlaceOf(x)' = PlaceOf(x) /\ (Tied(x)' <=> Tied(x))
<1>1. Rows' = Rows
  BY DEF Rows, Matching, InFilter, vars, tableVars, itemVars
<1>2. WalkedLog' = WalkedLog
  BY DEF WalkedLog, LogOf, vars, tableVars, itemVars
<1> QED BY <1>1, <1>2 DEF PlaceOf, Tied

(* A page has the rows whose places it covers; if it is not full, the      *)
(* listing ends before its end.                                            *)
LEMMA PageRight ==
  ASSUME NEW l \in AllListings, NEW rows, WellListed(l, LogOf(l), rows), NEW s \in Orders(l, rows),
         NEW page \in Nat \ {0}
  PROVE  LET lo == (page - 1) * PageSize
             hi == page * PageSize
         IN /\ Page(s, page) \subseteq rows
            /\ \A x \in rows : ~Shared(l, rows, x) =>
                 (x \in Page(s, page) <=> lo < PlaceIn(l, LogOf(l), rows, x)
                                          /\ PlaceIn(l, LogOf(l), rows, x) <= hi)
            /\ Cardinality(Page(s, page)) < PageSize => Cardinality(rows) < hi
<1> DEFINE lo == (page - 1) * PageSize
           hi == page * PageSize
           on == Page(s, page)
<1>1. lo \in Nat /\ hi \in Nat /\ hi = lo + PageSize /\ PageSize \in Nat \ {0}
  BY PageAssumption
<1>2. PICK c : /\ IsOrder(s, rows, c) /\ Cardinality(rows) = c
               /\ \A k \in 1..c : ~Shared(l, rows, s[k]) => PlaceIn(l, LogOf(l), rows, s[k]) = k
  BY PlacesRight
<1>3. on = {s[k] : k \in {n \in DOMAIN s : n > lo /\ n <= hi}}
  BY DEF Page
<1> HIDE DEF lo, hi, on
<1>4. c \in Nat /\ \A y : y \in on <=> \E k \in 1..c : lo < k /\ k <= hi /\ y = s[k]
  <2>1. c \in Nat /\ DOMAIN s = 1..c
    BY <1>2 DEF IsOrder
  <2>2. \A k \in 1..c : k > lo <=> lo < k
    BY <1>1, <2>1
  <2> QED BY <1>3, <2>1, <2>2
<1>5. on \subseteq rows
  BY <1>2, <1>4 DEF IsOrder
<1>6. ASSUME NEW x \in rows, ~Shared(l, rows, x)
      PROVE  x \in on <=> lo < PlaceIn(l, LogOf(l), rows, x) /\ PlaceIn(l, LogOf(l), rows, x) <= hi
  <2>1. PICK k \in 1..c : s[k] = x
    BY <1>2 DEF IsOrder
  <2>2. PlaceIn(l, LogOf(l), rows, x) = k
    BY <1>2, <1>6, <2>1
  <2>3. x \in on <=> lo < k /\ k <= hi
    BY <1>2, <1>4, <2>1 DEF IsOrder
  <2> QED BY <2>2, <2>3
<1>7. ASSUME Cardinality(on) < PageSize
      PROVE  Cardinality(rows) < hi
  <2> SUFFICES ASSUME hi <= c PROVE FALSE
    BY <1>1, <1>2, <1>4
  <2>0. hi <= c
    OBVIOUS
  <2>1. IsOrder(s, rows, c)
    BY <1>2
  <2>2. lo \in Nat /\ hi \in Nat /\ lo <= hi /\ hi <= c
    BY <1>1, <2>0
  <2>3. \A y : y \in on <=> \E k \in 1..c : lo < k /\ k <= hi /\ y = s[k]
    BY <1>4
  <2>4. IsFiniteSet(on) /\ Cardinality(on) = hi - lo
    BY <2>1, <2>2, <2>3, RangeSize
  <2>5. hi - lo = PageSize
    BY <1>1
  <2> QED BY <1>1, <1>7, <2>4, <2>5
<1> QED BY <1>5, <1>6, <1>7 DEF lo, hi, on

LEMMA BeginWalkStep ==
  ASSUME BrowsingInv, BeginWalk
  PROVE  WalkInv'
<1>1. PICK l \in Listings, user \in Users, c \in Clients :
        /\ walk' = [pc |-> "count", client |-> c, listing |-> l, user |-> user,
                    page |-> 1, total |-> 0, shown |-> {}, again |-> {}]
        /\ watch' = [watch EXCEPT !.kept = Matching(l, user)]
  BY DEF BeginWalk
<1>2. UNCHANGED vars /\ watch = Unwatched
  BY DEF BeginWalk, BrowsingInv, WalkInv, WalkTypes
<1>3. l \in AllListings
  BY ListingAssumption
<1>4. watch' = [kept |-> Matching(l, user), left |-> FALSE, came |-> FALSE, late |-> FALSE]
  BY <1>1, <1>2 DEF Unwatched
<1>5. Rows' = Matching(l, user) /\ WalkedLog' = LogOf(l)
  <2>1. Matching(l, user)' = Matching(l, user)
    BY <1>2 DEF Matching, InFilter, vars, tableVars, itemVars
  <2>2. walk'.listing = l /\ walk'.user = user
    BY <1>1
  <2>3. Rows' = Matching(l, user)
    BY <1>2, <2>2 DEF Rows, Matching, InFilter, vars, tableVars, itemVars
  <2> QED BY <1>2, <2>2, <2>3 DEF WalkedLog, LogOf, vars, tableVars, itemVars
<1>6. \A x \in Matching(l, user) : PlaceIn(l, LogOf(l), Matching(l, user), x) \in Nat \ {0}
  BY <1>3, RowsRight, PlacesType DEF BrowsingInv
<1>7. Passed' = 0
  BY <1>1, PageAssumption DEF Passed
<1>8. \A x \in Matching(l, user) : PlaceOf(x)' > Passed'
  <2>1. \A x : PlaceOf(x)' = PlaceIn(l, LogOf(l), Matching(l, user), x)
    BY <1>1, <1>5 DEF PlaceOf, PlaceIn, Precedes
  <2> QED BY <1>6, <1>7, <2>1
<1>9. WalkTypes'
  <2>1. watch'.kept \subseteq Rows'
    BY <1>4, <1>5
  <2>2. /\ walk'.pc = "count" /\ walk'.listing \in AllListings
        /\ walk'.page = 1 /\ walk'.total = 0
    BY <1>1, <1>3
  <2>3. walk' = [pc |-> walk'.pc, client |-> walk'.client, listing |-> walk'.listing,
                 user |-> walk'.user, page |-> walk'.page, total |-> walk'.total,
                 shown |-> walk'.shown, again |-> walk'.again]
    BY <1>1
  <2>4. /\ watch' = [kept |-> watch'.kept, left |-> watch'.left, came |-> watch'.came,
                     late |-> watch'.late]
        /\ watch'.left \in BOOLEAN /\ watch'.came \in BOOLEAN /\ watch'.late \in BOOLEAN
    BY <1>4
  <2> QED BY <2>1, <2>2, <2>3, <2>4 DEF WalkTypes
<1>10. StillAhead' /\ StaysBehind' /\ CountBounds' /\ NothingAhead'
  BY <1>1, <1>4, <1>8 DEF StillAhead, StaysBehind, CountBounds, NothingAhead
<1> QED BY <1>9, <1>10 DEF WalkInv

LEMMA CountRowsStep ==
  ASSUME BrowsingInv, CountRows
  PROVE  WalkInv'
<1>1. WalkTypes /\ StillAhead /\ StaysBehind
  BY DEF BrowsingInv, WalkInv, CountRows, NoWalk
<1>2. /\ walk' = [pc |-> "select", client |-> walk.client, listing |-> walk.listing,
                  user |-> walk.user, page |-> walk.page, total |-> Cardinality(Rows),
                  shown |-> walk.shown, again |-> walk.again]
      /\ watch' = [kept |-> watch.kept, left |-> watch.left, came |-> watch.came,
                   late |-> FALSE]
      /\ UNCHANGED vars
  BY <1>1 DEF CountRows, WalkTypes
<1>3. /\ Rows' = Rows
      /\ \A x : PlaceOf(x)' = PlaceOf(x) /\ (Tied(x)' <=> Tied(x))
  BY <1>2, WalkFrame
<1>4. Cardinality(Rows) \in Nat
  BY <1>1, WalkedRight, RowsFinite DEF BrowsingInv, WalkTypes
<1>5. WalkTypes'
  BY <1>1, <1>2, <1>3, <1>4 DEF WalkTypes
<1>6. Passed' = Passed
  BY <1>2 DEF Passed
<1>7. StillAhead' /\ StaysBehind'
  BY <1>1, <1>2, <1>3, <1>6 DEF StillAhead, StaysBehind
<1>8. CountBounds' /\ NothingAhead'
  BY <1>2, <1>3, <1>4 DEF CountBounds, NothingAhead
<1> QED BY <1>5, <1>7, <1>8 DEF WalkInv

LEMMA SelectPageStep ==
  ASSUME BrowsingInv, SelectPage
  PROVE  WalkInv'
<1>1. WalkTypes /\ StillAhead /\ StaysBehind /\ CountBounds /\ TableInv
  BY DEF BrowsingInv, WalkInv, SelectPage, NoWalk
<1>2. PICK s \in Orders(walk.listing, Rows) :
        walk' = [walk EXCEPT
                  !.pc = AfterPage(Page(s, walk.page)),
                  !.page = @ + 1,
                  !.shown = @ \cup Page(s, walk.page),
                  !.again = @ \cup (Page(s, walk.page) \cap walk.shown)]
  BY DEF SelectPage
<1> DEFINE on == Page(s, walk.page)
           hi == walk.page * PageSize
<1>3. /\ walk' = [pc |-> AfterPage(on), client |-> walk.client, listing |-> walk.listing,
                  user |-> walk.user, page |-> walk.page + 1, total |-> walk.total,
                  shown |-> walk.shown \cup on,
                  again |-> walk.again \cup (on \cap walk.shown)]
      /\ UNCHANGED <<vars, watch>> /\ walk.pc = "select"
  BY <1>1, <1>2 DEF SelectPage, WalkTypes
<1>4. /\ Rows' = Rows
      /\ \A x : PlaceOf(x)' = PlaceOf(x) /\ (Tied(x)' <=> Tied(x))
  BY <1>3, WalkFrame
<1>5. WellListed(walk.listing, WalkedLog, Rows)
  BY <1>1, WalkedRight DEF WalkTypes
<1>6. /\ on \subseteq Rows
      /\ \A x \in Rows : ~Tied(x) => (x \in on <=> Passed < PlaceOf(x) /\ PlaceOf(x) <= hi)
      /\ Cardinality(on) < PageSize => Cardinality(Rows) < hi
  BY <1>1, <1>5, PageRight, TiedShared DEF WalkTypes, WalkedLog, PlaceOf, Passed
<1>7. \A x \in Rows : PlaceOf(x) \in Nat /\ PlaceOf(x) <= Cardinality(Rows)
  BY <1>5, PlacesType DEF PlaceOf
<1>8. Passed \in Nat /\ hi \in Nat /\ Passed <= hi
  BY <1>1, PageAssumption DEF WalkTypes, Passed
<1>9. Passed' = hi
  BY <1>1, <1>3 DEF WalkTypes, Passed
<1>10. AfterPage(on) \in {"done", "told", "count"}
  BY DEF AfterPage
<1>11. Cardinality(Rows) \in Nat
  BY <1>5, RowsFinite
<1>12. AfterPage(on) = "done" => Cardinality(Rows) < hi
  BY <1>6 DEF AfterPage
<1>13. AfterPage(on) = "told" /\ ~watch.late => Cardinality(Rows) <= hi
  <2> SUFFICES ASSUME AfterPage(on) = "told", ~watch.late
               PROVE  Cardinality(Rows) <= hi
    OBVIOUS
  <2>1. walk.page >= TotalPages(walk.total)
    BY DEF AfterPage
  <2>2. walk.total <= hi
    BY <1>1, <2>1, PagesCover, PageAssumption DEF TotalPages, WalkTypes
  <2>3. Cardinality(Rows) <= walk.total
    BY <1>1, <1>3 DEF CountBounds
  <2> QED BY <1>1, <1>8, <1>11, <2>2, <2>3 DEF WalkTypes
<1> HIDE DEF on, hi
<1>14. WalkTypes'
  BY <1>1, <1>3, <1>4, <1>10 DEF WalkTypes
<1>15. ASSUME ~watch.left
       PROVE  \A x \in watch.kept \ (walk.shown \cup on) : PlaceOf(x) > hi \/ Tied(x)
  <2> TAKE x \in watch.kept \ (walk.shown \cup on)
  <2>1. x \in Rows /\ (PlaceOf(x) > Passed \/ Tied(x))
    BY <1>1, <1>15 DEF WalkTypes, StillAhead
  <2> QED BY <1>6, <1>7, <1>8, <2>1
<1>16. StillAhead'
  BY <1>3, <1>4, <1>9, <1>15 DEF StillAhead
<1>17. ASSUME ~watch.came
       PROVE  /\ \A x \in (walk.shown \cup on) \cap Rows : PlaceOf(x) <= hi \/ Tied(x)
              /\ \A x \in walk.again \cup (on \cap walk.shown) : Tied(x)
  <2>1. ASSUME NEW x \in walk.shown \cap Rows
        PROVE  PlaceOf(x) <= Passed \/ Tied(x)
    BY <1>1, <1>17 DEF StaysBehind
  <2>2. ASSUME NEW x \in (walk.shown \cup on) \cap Rows
        PROVE  PlaceOf(x) <= hi \/ Tied(x)
    BY <1>6, <1>7, <1>8, <2>1
  <2>3. ASSUME NEW x \in on \cap walk.shown
        PROVE  Tied(x)
    BY <1>6, <1>7, <1>8, <2>1
  <2>4. \A x \in walk.again : Tied(x)
    BY <1>1, <1>17 DEF StaysBehind
  <2> QED BY <2>2, <2>3, <2>4
<1>18. StaysBehind'
  BY <1>3, <1>4, <1>9, <1>17 DEF StaysBehind
<1>19. CountBounds'
  BY <1>3, <1>10 DEF CountBounds
<1>20. NothingAhead'
  <2>1. ASSUME Cardinality(Rows) <= hi, ~watch.left
        PROVE  \A x \in watch.kept \ (walk.shown \cup on) : Tied(x)
    <3> TAKE x \in watch.kept \ (walk.shown \cup on)
    <3>1. x \in Rows /\ (PlaceOf(x) > hi \/ Tied(x))
      BY <1>1, <1>15, <2>1 DEF WalkTypes
    <3> QED BY <1>7, <1>8, <1>11, <2>1, <3>1
  <2>2. AfterPage(on) = "done" \/ (AfterPage(on) = "told" /\ ~watch.late) =>
          Cardinality(Rows) <= hi
    BY <1>8, <1>11, <1>12, <1>13
  <2> QED BY <1>3, <1>4, <2>1, <2>2 DEF NothingAhead
<1> QED BY <1>14, <1>16, <1>18, <1>19, <1>20 DEF WalkInv

LEMMA EndWalkStep ==
  ASSUME EndWalk
  PROVE  WalkInv'
BY DEF EndWalk, WalkInv, NoWalk, Unwatched

LEMMA WalkStutters ==
  ASSUME WalkInv, UNCHANGED <<vars, browseVars>>
  PROVE  WalkInv'
<1>1. UNCHANGED vars /\ walk' = walk /\ watch' = watch
  BY DEF browseVars
<1>2. CASE walk = NoWalk /\ watch = Unwatched
  BY <1>1, <1>2 DEF WalkInv, NoWalk, Unwatched
<1>3. CASE WalkTypes /\ StillAhead /\ StaysBehind /\ CountBounds /\ NothingAhead
  <2>1. /\ Rows' = Rows /\ Passed' = Passed
        /\ \A x : PlaceOf(x)' = PlaceOf(x) /\ (Tied(x)' <=> Tied(x))
    BY <1>1, WalkFrame DEF Passed
  <2>2. WalkTypes'
    BY <1>1, <1>3, <2>1 DEF WalkTypes
  <2>3. StillAhead' /\ StaysBehind'
    BY <1>1, <1>3, <2>1 DEF StillAhead, StaysBehind
  <2>4. CountBounds' /\ NothingAhead'
    BY <1>1, <1>3, <2>1 DEF CountBounds, NothingAhead
  <2> QED BY <2>2, <2>3, <2>4 DEF WalkInv
<1> QED BY <1>2, <1>3 DEF WalkInv

(* A document keeps its questions, so a number that is shared stays so.    *)
LEMMA TiedStays ==
  ASSUME TableInv, TableInv', TablesGrow, walk' = walk, walk.listing \in AllListings,
         NEW x, Tied(x)
  PROVE  Tied(x)'
<1> DEFINE d == walk.listing.filter
           user == walk.user
<1>1. walk.listing.table = "questions" /\ \E y \in Rows : y # x /\ Number[y] = Number[x]
  BY DEF Tied
<1>2. d \in Docs /\ asked[d] \in Nat /\ asked'[d] \in Nat /\ asked[d] <= asked'[d]
  BY <1>1, ListingRight
  DEF TableInv, RequestInvariants, QueueInv, TypeOK, RunTypes, TablesGrow
<1>3. /\ Rows = {<<d, n>> : n \in {k \in 1..asked[d] : Owner[d] = user}}
      /\ Rows' = {<<d, n>> : n \in {k \in 1..asked'[d] : Owner[d] = user}}
  BY <1>1 DEF Rows, Matching
<1> HIDE DEF d, user
<1>4. \A k \in 1..asked[d] : k \in 1..asked'[d]
  BY <1>2
<1>5. Rows \subseteq Rows'
  BY <1>3, <1>4
<1>6. walk'.listing.table = "questions" /\ \E y \in Rows' : y # x /\ Number[y] = Number[x]
  BY <1>1, <1>5
<1> QED BY <1>6 DEF Tied

(* Rows come and go beneath a walk. *)
LEMMA WatchStep ==
  ASSUME BrowsingInv, Next, Watch, TableInv'
  PROVE  WalkInv'
<1>1. TablesGrow /\ TableInv /\ walk' = walk
  BY NextTables DEF BrowsingInv, Watch
<1>2. CASE walk = NoWalk /\ watch = Unwatched
  <2>1. ~Walking
    BY <1>2 DEF Walking, NoWalk
  <2> QED BY <1>1, <1>2, <2>1 DEF Watch, WalkInv, NoWalk, Unwatched
<1>3. CASE WalkTypes /\ StillAhead /\ StaysBehind /\ CountBounds /\ NothingAhead
  <2>1. /\ walk.pc \in {"count", "select", "told"}
        /\ walk.listing \in AllListings /\ watch.kept \subseteq Rows
    BY <1>3 DEF WalkTypes, Watch
  <2>2. watch' = [kept |-> watch.kept \cap Rows',
                  left |-> watch.left \/ ~(Rows \subseteq Rows'),
                  came |-> watch.came \/ ~(Rows' \subseteq Rows),
                  late |-> watch.late \/ (walk.pc = "select" /\ ~(Rows' \subseteq Rows))]
    BY <2>1 DEF Watch, Walking
  <2>3. /\ watch'.kept = watch.kept \cap Rows'
        /\ ~watch'.left => ~watch.left /\ Rows \subseteq Rows'
        /\ ~watch'.came => ~watch.came /\ Rows' \subseteq Rows
        /\ ~watch'.late => ~watch.late /\ (walk.pc = "select" => Rows' \subseteq Rows)
    BY <2>2
  <2>4. WellListed(walk.listing, WalkedLog, Rows)
    BY <1>1, <2>1, WalkedRight
  <2>5. WellListed(walk.listing, WalkedLog', Rows')
    <3>1. TableInv' /\ (walk.listing \in AllListings)' => Walked'
      BY WalkedWell, PTL
    <3> QED BY <1>1, <2>1, <3>1 DEF Walked
  <2>6. Grown(WalkedLog, WalkedLog')
    BY <1>1 DEF WalkedLog, LogOf, TablesGrow
  <2>7. ASSUME NEW x \in Rows, x \in Rows'
        PROVE  /\ PlaceOf(x) \in Nat /\ PlaceOf(x)' \in Nat
               /\ Rows \subseteq Rows' => PlaceOf(x) <= PlaceOf(x)'
               /\ Rows' \subseteq Rows => PlaceOf(x)' <= PlaceOf(x)
    BY <1>1, <2>4, <2>5, <2>6, <2>7, PlacesMove, PlacesType DEF PlaceOf
  <2>8. \A x : Tied(x) => Tied(x)'
    BY <1>1, <2>1, TiedStays
  <2>9. Passed \in Nat /\ Passed' = Passed
    BY <1>1, <1>3, PageAssumption DEF Passed, WalkTypes
  <2>10. WalkTypes'
    <3>1. /\ watch' = [kept |-> watch'.kept, left |-> watch'.left, came |-> watch'.came,
                       late |-> watch'.late]
          /\ watch'.left \in BOOLEAN /\ watch'.came \in BOOLEAN /\ watch'.late \in BOOLEAN
      BY <2>2
    <3> QED BY <1>1, <1>3, <2>3, <3>1 DEF WalkTypes
  <2>11. StillAhead'
    <3> SUFFICES ASSUME ~watch'.left, NEW x \in watch'.kept \ walk'.shown
                 PROVE  PlaceOf(x)' > Passed' \/ Tied(x)'
      BY DEF StillAhead
    <3>1. x \in watch.kept \ walk.shown /\ x \in Rows /\ x \in Rows' /\ Rows \subseteq Rows'
      BY <1>1, <2>1, <2>3
    <3>2. PlaceOf(x) > Passed \/ Tied(x)
      BY <1>3, <2>3, <3>1 DEF StillAhead
    <3> QED BY <2>7, <2>8, <2>9, <3>1, <3>2
  <2>12. StaysBehind'
    <3> SUFFICES ASSUME ~watch'.came
                 PROVE  /\ \A x \in walk'.shown \cap Rows' : PlaceOf(x)' <= Passed' \/ Tied(x)'
                        /\ \A x \in walk'.again : Tied(x)'
      BY DEF StaysBehind
    <3>1. Rows' \subseteq Rows
      BY <2>3
    <3>2. /\ \A x \in walk.shown \cap Rows : PlaceOf(x) <= Passed \/ Tied(x)
          /\ \A x \in walk.again : Tied(x)
      BY <1>3, <2>3 DEF StaysBehind
    <3>3. ASSUME NEW x \in walk'.shown \cap Rows'
          PROVE  PlaceOf(x)' <= Passed' \/ Tied(x)'
      <4>1. x \in walk.shown \cap Rows /\ x \in Rows /\ x \in Rows'
        BY <1>1, <3>1
      <4> QED BY <2>7, <2>8, <2>9, <3>1, <3>2, <4>1
    <3>4. \A x \in walk'.again : Tied(x)'
      BY <1>1, <2>8, <3>2
    <3> QED BY <3>3, <3>4
  <2>13. CountBounds'
    <3> SUFFICES ASSUME walk'.pc = "select", ~watch'.late
                 PROVE  Cardinality(Rows') <= walk'.total
      BY DEF CountBounds
    <3>1. Rows' \in SUBSET Rows /\ Cardinality(Rows) <= walk.total /\ walk.total \in Nat
      BY <1>1, <1>3, <2>3 DEF CountBounds, WalkTypes
    <3>2. IsFiniteSet(Rows) /\ Cardinality(Rows) \in Nat /\ Cardinality(Rows') \in Nat
      BY <2>4, <2>5, RowsFinite
    <3>3. Cardinality(Rows') <= Cardinality(Rows)
      BY <3>1, <3>2, FS_Subset
    <3> QED BY <1>1, <3>1, <3>2, <3>3
  <2>14. NothingAhead'
    <3> SUFFICES ASSUME walk'.pc = "told" /\ ~watch'.late, ~watch'.left,
                        NEW x \in watch'.kept \ walk'.shown
                 PROVE  Tied(x)'
      BY <1>1, <2>1 DEF NothingAhead
    <3>1. Tied(x)
      BY <1>1, <1>3, <2>3 DEF NothingAhead
    <3> QED BY <2>8, <3>1
  <2> QED BY <2>10, <2>11, <2>12, <2>13, <2>14 DEF WalkInv
<1> QED BY <1>2, <1>3 DEF BrowsingInv, WalkInv

LEMMA BrowsingInitRight == BrowsingInit => BrowsingInv
<1> SUFFICES ASSUME BrowsingInit
             PROVE  BrowsingInv
  OBVIOUS
<1>1. RequestInvariants
  BY InitRight DEF BrowsingInit
<1>2. LogInv
  BY SizeAssumption DEF BrowsingInit, Init, LogInv, IsLog
<1> QED BY <1>1, <1>2 DEF BrowsingInv, TableInv, WalkInv, BrowsingInit

LEMMA BrowsingNextRight ==
  BrowsingInv /\ [BrowsingNext]_<<vars, browseVars>> => BrowsingInv'
<1> SUFFICES ASSUME BrowsingInv, [BrowsingNext]_<<vars, browseVars>>
             PROVE  BrowsingInv'
  OBVIOUS
<1>1. [Next]_vars
  BY DEF BrowsingNext, Browse, BeginWalk, CountRows, SelectPage, EndWalk
<1>2. TableInv'
  BY <1>1, NextRight, NextTables DEF BrowsingInv, TableInv
<1>3. WalkInv'
  <2>1. CASE Browse
    BY <2>1, BeginWalkStep, CountRowsStep, SelectPageStep, EndWalkStep DEF Browse
  <2>2. CASE Next /\ Watch
    BY <1>2, <2>2, WatchStep
  <2>3. CASE UNCHANGED <<vars, browseVars>>
    BY <2>3, WalkStutters DEF BrowsingInv
  <2> QED BY <2>1, <2>2, <2>3 DEF BrowsingNext
<1> QED BY <1>2, <1>3 DEF BrowsingInv

(* Whoever walks a listing only reads: the system under it behaves as in   *)
(* ReviewQueue, so what is proved of that module holds of this one, too.   *)
THEOREM BrowsingIsReviewing == BrowsingSpec => Spec
<1>1. BrowsingInit => Init
  BY DEF BrowsingInit
<1>2. [BrowsingNext]_<<vars, browseVars>> => [Next]_vars
  BY DEF BrowsingNext, Browse, BeginWalk, CountRows, SelectPage, EndWalk
<1> QED BY <1>1, <1>2, PTL DEF BrowsingSpec, Spec

LEMMA BrowsingInvariant == BrowsingSpec => []BrowsingInv
BY BrowsingInitRight, BrowsingNextRight, PTL DEF BrowsingSpec

(* What a client that reads a listing of the API to its end has not been   *)
(* shown, of the rows that were there all the time: it is missing because  *)
(* a row before it left the listing, because a row came between the count  *)
(* that told the client to stop and the page, or because its place among   *)
(* the questions of its number is open.                                    *)
THEOREM MissedRows == BrowsingSpec => []MissedForCause
<1>1. BrowsingInv => MissedForCause
  BY DEF BrowsingInv, WalkInv, NothingAhead, MissedForCause, NoWalk
<1>2. QED
  BY <1>1, BrowsingInvariant, PTL

(* A client that reads a listing page by page is shown a row twice only if *)
(* a row came to the listing, or if the row's place is open.               *)
THEOREM RowsShownTwice == BrowsingSpec => []TwiceForCause
<1>1. BrowsingInv => TwiceForCause
  BY DEF BrowsingInv, WalkInv, StaysBehind, TwiceForCause, NoWalk
<1>2. QED
  BY <1>1, BrowsingInvariant, PTL
=============================================================================
