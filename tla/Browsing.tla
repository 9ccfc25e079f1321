------------------------------ MODULE Browsing ------------------------------
(***************************************************************************)
(* The paginated listings of the API, read page by page while the rows     *)
(* beneath them change: documents by status, the questions of a document,  *)
(* and the review queue by resolution.  Each request counts the matching   *)
(* rows and then selects one page of them, two statements that see         *)
(* different commits.                                                      *)
(***************************************************************************)
EXTENDS ReviewQueue, FiniteSets, Sorting

CONSTANTS
  PageSize,   \* page_size of the client's requests
  Number,     \* questions.question_number
  Listings    \* the listings that are walked, see AllListings

AllListings ==
  [table : {"documents"}, filter : {"all", "QUEUED", "PROCESSING", "COMPLETED", "FAILED"}]
  \cup [table : {"items"}, filter : {"all", "open", "resolved"}]
  \cup [table : {"questions"}, filter : Docs]

ASSUME PageAssumption == PageSize \in Nat \ {0}
ASSUME NumberAssumption == Number \in [Questions -> Nat]
ASSUME ListingAssumption == Listings \subseteq AllListings

VARIABLES
  walk,    \* a client's walk through a listing
  watch    \* history: what happened to the listing during the walk

browseVars == <<walk, watch>>

-----------------------------------------------------------------------------
(* The rows of a listing and their order.                                  *)

InFilter(i, f) ==
  \/ f = "all"
  \/ f = "open" /\ i \notin resolved
  \/ f = "resolved" /\ i \in resolved

(* The rows of the user's documents that pass the filter. *)
Matching(l, user) ==
  CASE l.table = "documents" ->
         {d \in Docs : status[d] # "none" /\ Owner[d] = user
                       /\ l.filter \in {"all", status[d]}}
    [] l.table = "items" ->
         {i \in visible : Owner[i.doc] = user /\ InFilter(i, l.filter)}
    [] l.table = "questions" ->
         {<<l.filter, n>> : n \in {k \in 1..asked[l.filter] : Owner[l.filter] = user}}

(* ORDER BY created_at DESC. *)
NewestFirst(log, rows) ==
  LET newest == [k \in DOMAIN log |-> log[Len(log) + 1 - k]] IN
  Kept(newest, {k \in DOMAIN newest : newest[k] \in rows})

(* ORDER BY question_number leaves the order of equal numbers open, in     *)
(* every query anew.                                                       *)
ByNumber(rows) ==
  {s \in [1..Cardinality(rows) -> rows] :
     \A j, k \in DOMAIN s : j < k => s[j] # s[k] /\ Number[s[j]] <= Number[s[k]]}

Orders(l, rows) ==
  CASE l.table = "documents" -> {NewestFirst(docLog, rows)}
    [] l.table = "items" -> {NewestFirst(itemLog, rows)}
    [] l.table = "questions" -> ByNumber(rows)

(* Mutant: a page starts with the last row of the page before. *)
Mut_PageOverlaps(s, page) ==
  {s[k] : k \in {n \in DOMAIN s : n >= (page - 1) * PageSize /\ n <= page * PageSize}}

(* OFFSET (page - 1) * page_size LIMIT page_size. *)
Page(s, page) ==
  {s[k] : k \in {n \in DOMAIN s : n > (page - 1) * PageSize /\ n <= page * PageSize}}

(* Mutant: the last, incomplete page is not counted. *)
Mut_TotalPagesFloor(total) == total \div PageSize

TotalPages(total) == (total + PageSize - 1) \div PageSize

-----------------------------------------------------------------------------
(* A walk: the client asks for page 1, 2, ... until it gets a page that is *)
(* not full, or stops earlier, when total_pages tells it to.               *)

Rows == Matching(walk.listing, walk.user)
Walking == walk.pc \in {"count", "select", "told"}

NoWalk == [pc |-> "off"]
Unwatched == [kept |-> {}, left |-> FALSE, came |-> FALSE, late |-> FALSE]

BrowsingInit == Init /\ walk = NoWalk /\ watch = Unwatched

(* verify_document_owner answers 404 to a listing of another's questions. *)
BeginWalk ==
  /\ walk.pc = "off"
  /\ \E l \in Listings, user \in Users, c \in Clients :
       /\ req[c].pc = "idle"
       /\ l.table = "questions" => status[l.filter] # "none" /\ Owner[l.filter] = user
       /\ walk' = [pc |-> "count", client |-> c, listing |-> l, user |-> user,
                   page |-> 1, total |-> 0, shown |-> {}, again |-> {}]
       /\ watch' = [watch EXCEPT !.kept = Matching(l, user)]
  /\ UNCHANGED vars

(* query.count() *)
CountRows ==
  /\ walk.pc \in {"count", "told"}
  /\ walk' = [walk EXCEPT !.pc = "select", !.total = Cardinality(Rows)]
  /\ watch' = [watch EXCEPT !.late = FALSE]
  /\ UNCHANGED vars

AfterPage(rows) ==
  IF Cardinality(rows) < PageSize THEN "done"
  ELSE IF walk.page >= TotalPages(walk.total) THEN "told" ELSE "count"

(* query.order_by(...).offset(offset).limit(page_size).all() *)
SelectPage ==
  /\ walk.pc = "select"
  /\ \E s \in Orders(walk.listing, Rows) :
       LET rows == Page(s, walk.page) IN
       walk' = [walk EXCEPT
                  !.pc = AfterPage(rows),
                  !.page = @ + 1,
                  !.shown = @ \cup rows,
                  !.again = @ \cup (rows \cap walk.shown)]
  /\ UNCHANGED <<watch, vars>>

(* The client has got all it will get, and may begin anew. *)
EndWalk ==
  /\ walk.pc \in {"told", "done"}
  /\ walk' = NoWalk /\ watch' = Unwatched
  /\ UNCHANGED vars

(* What a step of the system does to the listing that is being walked.  The *)
(* client that walks sends nothing else.                                   *)
Watch ==
  /\ walk.pc # "done"
  /\ Walking => req'[walk.client] = NoRequest
  /\ UNCHANGED walk
  /\ IF Walking
       THEN watch' = [kept |-> watch.kept \cap Rows',
                      left |-> watch.left \/ ~(Rows \subseteq Rows'),
                      came |-> watch.came \/ ~(Rows' \subseteq Rows),
                      late |-> watch.late \/
                               (walk.pc = "select" /\ ~(Rows' \subseteq Rows))]
       ELSE UNCHANGED watch

Browse == BeginWalk \/ CountRows \/ SelectPage \/ EndWalk

BrowsingNext == Browse \/ (Next /\ Watch)

BrowsingSpec == BrowsingInit /\ [][BrowsingNext]_<<vars, browseVars>>

-----------------------------------------------------------------------------
(* Properties.                                                             *)

(* Another question of the document that is walked has the same number. *)
Tied(x) ==
  /\ walk.listing.table = "questions"
  /\ \E y \in Rows : y # x /\ Number[y] = Number[x]

(* A row that was in the listing all the time is missed only for a cause:  *)
(* another row left the listing and those behind it moved up, a row came   *)
(* between the count and the page it was to tell the end of, or the row's  *)
(* place is not determined.                                                *)
MissedForCause ==
  walk.pc \in {"told", "done"} =>
    \A x \in watch.kept \ walk.shown :
      watch.left \/ (watch.late /\ walk.pc = "told") \/ Tied(x)

(* A row is shown twice only if another one came during the walk, or its   *)
(* place is not determined.                                                *)
TwiceForCause ==
  walk.pc \in {"told", "done"} => \A x \in walk.again : watch.came \/ Tied(x)
=============================================================================
