---------------------------- MODULE DeliveryList ----------------------------
(***************************************************************************)
(* The delivery lists: the keyset pages of GET /v1/deliveries and GET      *)
(* /v1/dlq, and the dashboard that polls the first page, appends the next  *)
(* one on "load more" and retries dead letters, while transactions move    *)
(* rows in the order the pages follow.                                     *)
(***************************************************************************)
EXTENDS Integers, FiniteSets, Sequences, Functions

CONSTANTS
  Ids,                       \* deliveries, numbered in the order of their uuids
  Limit,                     \* rows of a page
  PerMs,                     \* clock ticks (microseconds of timestamptz) in a millisecond
  Filters,                   \* filters the user may set: statuses, ids of endpoint and period
  StartTables,               \* where the walks may start: status, updated_at, clock, open, commits
  MaxWrites, MaxFlight, MaxFailures

\* PENDING stands for every status but DLQ; absent: not inserted yet.
Statuses == {"PENDING", "DLQ"}
AllFilters == [statuses : SUBSET Statuses, scope : SUBSET Ids]
EMPTY_FILTERS == [statuses |-> {}, scope |-> Ids]
NoFilter == [statuses |-> {"absent"}, scope |-> {}]
DlqFilter == [statuses |-> {"DLQ"}, scope |-> Ids]
NoCursor == [at |-> -1, id |-> -1]
NoPage == [served |-> FALSE, rows |-> <<>>, next |-> NoCursor, touched |-> {}]
Cursors == [at : Nat, id : Ids] \cup {NoCursor}
Transactions == [ids : SUBSET Ids, at : Nat, to : Statuses]
Pages == [served : BOOLEAN, rows : Seq(Ids), next : Cursors, touched : SUBSET Ids]
Requests == [kind : {"first", "more", "stray"}, filter : AllFilters, cursor : Cursors, page : Pages]

ASSUME ListAssumption ==
  /\ Ids \subseteq Nat /\ IsFiniteSet(Ids)
  /\ {Limit, PerMs} \subseteq Nat \ {0}
  /\ {MaxWrites, MaxFlight, MaxFailures} \subseteq Nat
  /\ Filters \subseteq AllFilters /\ EMPTY_FILTERS \in Filters
  /\ \A table \in StartTables :
       /\ table.status \in [Ids -> Statuses \cup {"absent"}] /\ table.updated_at \in [Ids -> Nat]
       /\ {table.clock, table.commits} \subseteq Nat /\ table.open \subseteq Transactions

VARIABLES
  status, updated_at,        \* the table deliveries
  clock, open,               \* now(); transactions begun and not committed
  commits,                   \* transactions ended so far
  tab, filter,               \* App
  rows, nextCursor, loading, error, retrying,   \* DeliveryTable or DlqView, whichever is mounted
  flight,                    \* requests under way
  shownFor, touched, ends, mixed,   \* history of the walk on display, see ShowFirst
  failures

database == <<status, updated_at, clock, open, commits>>
view == <<rows, nextCursor, loading, error, retrying>>
walk == <<shownFor, touched, ends, mixed>>
vars == <<database, tab, filter, view, flight, walk, failures>>

-----------------------------------------------------------------------------
(* The query *)

\* (updated_at, id) < (cursor.updatedAt, cursor.id), as SQL compares rows.
Before(at, id, cursor) == at < cursor.at \/ (at = cursor.at /\ id < cursor.id)

Matches(f, i) == status[i] \in (IF f.statuses = {} THEN Statuses ELSE f.statuses) /\ i \in f.scope

\* Date.toISOString: a JavaScript date holds milliseconds.
toISOString(t) == (t \div PerMs) * PerMs

\* Mutant: the cursor's own row again.
Past_Inclusive(i, cursor) ==
  cursor # NoCursor => Before(updated_at[i], i, cursor) \/ (updated_at[i] = cursor.at /\ i = cursor.id)

\* Mutant: both columns compared, instead of the pair.
Past_BothLess(i, cursor) == cursor # NoCursor => updated_at[i] < cursor.at /\ i < cursor.id

Past(i, cursor) == cursor # NoCursor => Before(updated_at[i], i, cursor)

Lesser(n, m) == IF n < m THEN n ELSE m

\* The first members of S, at most n, each after those of ahead[i].
Ordered(S, ahead, n) ==
  [k \in 1 .. Lesser(n, Cardinality(S)) |-> CHOOSE i \in S : Cardinality(ahead[i]) = k - 1]

Hits(f, cursor) == {i \in Ids : Matches(f, i) /\ Past(i, cursor)}

\* ORDER BY updated_at DESC, id DESC.
Later(S) == [i \in S |-> {j \in S : Before(updated_at[i], i, [at |-> updated_at[j], id |-> j])}]

\* LIMIT limit + 1 of the rows after the cursor.
list(f, cursor) == LET hits == Hits(f, cursor) IN Ordered(hits, Later(hits), Limit + 1)

encodeCursor(i) == [at |-> toISOString(updated_at[i]), id |-> i]

NextCursor(found) == IF Len(found) > Limit THEN encodeCursor(found[Limit]) ELSE NoCursor

Page(f, cursor) ==
  LET found == list(f, cursor)
  IN  [served |-> TRUE, rows |-> SubSeq(found, 1, Lesser(Limit, Len(found))), next |-> NextCursor(found), touched |-> {}]

-----------------------------------------------------------------------------
(* Transactions: now() is the time of BEGIN, not of COMMIT *)

Written(ids, at, s) ==
  /\ updated_at' = [i \in Ids |-> IF i \in ids THEN at ELSE updated_at[i]]
  /\ status' = [i \in Ids |-> IF i \in ids THEN s ELSE status[i]]
  /\ commits' = commits + 1
  /\ flight' = {IF r.page.served THEN [r EXCEPT !.page.touched = @ \cup ids] ELSE r : r \in flight}
  /\ touched' = IF mixed \/ shownFor = NoFilter THEN {} ELSE touched \cup ids

Begin(ids, s) ==
  /\ commits + Cardinality(open) < MaxWrites
  /\ \E now \in {clock, clock + 1} :
       clock' = now /\ open' = open \cup {[ids |-> ids, at |-> now, to |-> s]}
  /\ UNCHANGED <<status, updated_at, commits, tab, filter, view, flight, walk, failures>>

\* An ingestion inserts, a transition moves one row, the reconciler touches many.
BeginSome ==
  \/ \E i \in Ids, s \in Statuses : Begin({i}, s)
  \/ \E ids \in SUBSET {i \in Ids : status[i] = "PENDING"} : Cardinality(ids) > 1 /\ Begin(ids, "PENDING")

\* The rows are locked when their status is read, so the reads and writes of a
\* transaction are one step.  One that finds another status changes nothing.
Commit(t) ==
  /\ open' = open \ {t}
  /\ Written({i \in t.ids : status[i] = "PENDING" \/ (t.to = "PENDING" /\ Cardinality(t.ids) = 1)},
             t.at, t.to)
  /\ UNCHANGED <<clock, tab, filter, view, shownFor, ends, mixed, failures>>

-----------------------------------------------------------------------------
(* Requests of the dashboard *)

Shown(t, f) == IF t = "dlq" THEN DlqFilter ELSE f
Current == Shown(tab, filter)

\* first: a poll; more: the page after the walk on display; stray: the page
\* after a walk that is no longer, or was never, the one on display.
Request(kind, f, cursor) == [kind |-> kind, filter |-> f, cursor |-> cursor, page |-> NoPage]
FirstPage(f) == Request("first", f, NoCursor)

Send(r) ==
  /\ Cardinality(flight) < MaxFlight /\ r \notin flight
  /\ flight' = flight \cup {r}
  /\ UNCHANGED <<database, tab, filter, rows, nextCursor, error, retrying, walk, failures>>

\* fetch1 / usePoll's run, at the interval whether or not the last has answered.
Poll == Send(FirstPage(Current)) /\ UNCHANGED loading

\* The button is there while there is a cursor; an error hides the delivery table.
loadMore ==
  /\ nextCursor # NoCursor /\ ~loading /\ (tab = "deliveries" => ~error)
  /\ loading' = TRUE
  /\ Send(Request(IF shownFor = Current THEN "more" ELSE "stray", Current, nextCursor))

Serve(r) ==
  /\ ~r.page.served
  /\ flight' = (flight \ {r}) \cup {[r EXCEPT !.page = Page(r.filter, r.cursor)]}
  /\ UNCHANGED <<database, tab, filter, view, walk, failures>>

Strayed(requests) == {[r EXCEPT !.kind = IF @ = "more" THEN "stray" ELSE @] : r \in requests}

Ends(page) == IF page.next = NoCursor THEN {} ELSE {page.next.at}

\* Mutant: an error stays on display.
ShowFirst_ErrorStays(r) ==
  /\ r.kind = "first" /\ r.page.served
  /\ rows' = r.page.rows /\ nextCursor' = r.page.next
  /\ flight' = Strayed(flight \ {r})
  /\ shownFor' = r.filter /\ touched' = r.page.touched /\ ends' = Ends(r.page) /\ mixed' = FALSE
  /\ UNCHANGED <<database, tab, filter, loading, error, retrying, failures>>

\* The answer of a poll replaces what is on display: a new walk begins, as of
\* that page's query; touched are the rows written since, or taken out of the
\* list, ends the page ends it has met.
ShowFirst(r) ==
  /\ r.kind = "first" /\ r.page.served
  /\ rows' = r.page.rows /\ nextCursor' = r.page.next /\ error' = FALSE
  /\ flight' = Strayed(flight \ {r})
  /\ shownFor' = r.filter /\ touched' = r.page.touched /\ ends' = Ends(r.page) /\ mixed' = FALSE
  /\ UNCHANGED <<database, tab, filter, loading, retrying, failures>>

\* Nothing asks whether the rows are still those the page was asked for.
ShowMore(r) ==
  /\ r.kind # "first" /\ r.page.served
  /\ rows' = rows \o r.page.rows /\ nextCursor' = r.page.next /\ loading' = FALSE
  /\ flight' = flight \ {r}
  /\ mixed' = (mixed \/ r.kind = "stray")
  /\ ends' = IF mixed' THEN {} ELSE ends \cup Ends(r.page)
  /\ touched' = IF mixed' THEN {} ELSE touched
  /\ UNCHANGED <<database, tab, filter, error, retrying, shownFor, failures>>

\* Mutant: loadMore resets loading on success only.
Fail_StillLoading(r) ==
  /\ failures < MaxFailures /\ failures' = failures + 1
  /\ flight' = flight \ {r}
  /\ error' = (error \/ r.kind = "first" \/ tab = "deliveries")
  /\ UNCHANGED <<database, tab, filter, rows, nextCursor, loading, retrying, walk>>

\* An error of a poll is shown in both views; loadMore's only in the table of
\* deliveries.  The rows stay.
Fail(r) ==
  /\ failures < MaxFailures /\ failures' = failures + 1
  /\ flight' = flight \ {r}
  /\ error' = (error \/ r.kind = "first" \/ tab = "deliveries")
  /\ loading' = (loading /\ r.kind = "first")
  /\ UNCHANGED <<database, tab, filter, rows, nextCursor, retrying, walk>>

-----------------------------------------------------------------------------
(* The user *)

\* App unmounts one view and mounts the other, whose state starts empty and
\* whose first poll leaves at once.
setTab(t) ==
  /\ t # tab /\ tab' = t
  /\ rows' = <<>> /\ nextCursor' = NoCursor /\ loading' = FALSE /\ error' = FALSE
  /\ retrying' = [i \in Ids |-> "no"]
  /\ flight' = {FirstPage(Shown(t, filter))}
  /\ shownFor' = NoFilter /\ touched' = {} /\ ends' = {} /\ mixed' = FALSE
  /\ UNCHANGED <<database, filter, failures>>

\* Mutant: the effect's cleanup does not cancel the polls under way.
setFilters_NotCancelled(f) ==
  /\ tab = "deliveries" /\ f # filter /\ filter' = f
  /\ flight' = Strayed(flight) \cup {FirstPage(f)}
  /\ UNCHANGED <<database, tab, view, walk, failures>>

\* The effect runs again and polls at once: answers to earlier polls are
\* dropped when they come (cancelled), those to loadMore are not.  The rows
\* stay until the next answer.
setFilters(f) ==
  /\ tab = "deliveries" /\ f # filter /\ filter' = f
  /\ flight' = Strayed({r \in flight : r.kind # "first"}) \cup {FirstPage(f)}
  /\ UNCHANGED <<database, tab, view, walk, failures>>

retry(i) ==
  /\ tab = "dlq" /\ i \in Range(rows) /\ retrying[i] = "no"
  /\ retrying' = [retrying EXCEPT ![i] = "sent"]
  /\ UNCHANGED <<database, tab, filter, rows, nextCursor, loading, error, flight, walk, failures>>

\* The route answers 202, 409 for a row no longer in DLQ, or 500 when the job
\* could not be added although the row is PENDING again.  A request whose
\* view is gone is one of the transactions above.
retryFromDlq(i) ==
  /\ retrying[i] = "sent"
  /\ \/ /\ status[i] = "DLQ" /\ commits + Cardinality(open) < MaxWrites
        /\ Written({i}, clock, "PENDING")
        /\ \/ retrying' = [retrying EXCEPT ![i] = "ok"] /\ failures' = failures
           \/ /\ failures < MaxFailures /\ failures' = failures + 1
              /\ retrying' = [retrying EXCEPT ![i] = "refused"]
     \/ /\ status[i] # "DLQ" /\ retrying' = [retrying EXCEPT ![i] = "refused"]
        /\ UNCHANGED <<status, updated_at, commits, flight, touched, failures>>
  /\ UNCHANGED <<clock, open, tab, filter, rows, nextCursor, loading, error, shownFor, ends, mixed>>

\* rs.filter((r) => r.id !== id)
Without(s, i) ==
  LET kept == {p \in DOMAIN s : s[p] # i}
      places == Ordered(kept, [p \in kept |-> {q \in kept : q < p}], Len(s))
  IN  [n \in DOMAIN places |-> s[places[n]]]

\* On 202 the row leaves the list, even one a later poll has brought back; on
\* an error a toast is shown.
Retried(i) ==
  /\ \/ /\ retrying[i] = "ok" /\ rows' = Without(rows, i)
        /\ touched' = IF mixed \/ shownFor = NoFilter THEN {} ELSE touched \cup {i}
     \/ retrying[i] = "refused" /\ UNCHANGED <<rows, touched>>
  /\ retrying' = [retrying EXCEPT ![i] = "no"]
  /\ UNCHANGED <<database, tab, filter, nextCursor, loading, error, flight, shownFor, ends, mixed, failures>>

-----------------------------------------------------------------------------
Init ==
  /\ \E table \in StartTables :
       /\ status = table.status /\ updated_at = table.updated_at
       /\ clock = table.clock /\ open = table.open /\ commits = table.commits
  /\ tab = "deliveries" /\ filter = EMPTY_FILTERS
  /\ rows = <<>> /\ nextCursor = NoCursor /\ loading = FALSE /\ error = FALSE
  /\ retrying = [i \in Ids |-> "no"] /\ flight = {FirstPage(EMPTY_FILTERS)}
  /\ shownFor = NoFilter /\ touched = {} /\ ends = {} /\ mixed = FALSE /\ failures = 0

Next ==
  \/ BeginSome \/ \E t \in open : Commit(t)
  \/ Poll \/ loadMore
  \/ \E r \in flight : Serve(r) \/ ShowFirst(r) \/ ShowMore(r) \/ Fail(r)
  \/ \E t \in {"deliveries", "dlq"} : setTab(t)
  \/ \E f \in Filters : setFilters(f)
  \/ \E i \in Ids : retry(i) \/ retryFromDlq(i) \/ Retried(i)

Spec == Init /\ [][Next]_vars

\* The timer fires, the API answers, answers are shown.
FairSpec ==
  /\ Spec
  /\ WF_vars(Poll)
  /\ WF_vars(\E r \in flight : r.kind = "first" /\ Serve(r))
  /\ WF_vars(\E r \in flight : ShowFirst(r))

-----------------------------------------------------------------------------
\* The types, and: the view is loading exactly while its load more is under way.
TypeOK ==
  /\ status \in [Ids -> Statuses \cup {"absent"}] /\ updated_at \in [Ids -> Nat]
  /\ clock \in Nat /\ open \subseteq Transactions
  /\ tab \in {"deliveries", "dlq"} /\ filter \in Filters
  /\ rows \in Seq(Ids) /\ nextCursor \in Cursors /\ {loading, error, mixed} \subseteq BOOLEAN
  /\ retrying \in [Ids -> {"no", "sent", "ok", "refused"}] /\ flight \subseteq Requests
  /\ shownFor \in AllFilters \cup {NoFilter} /\ touched \subseteq Ids
  /\ loading <=> \E r \in flight : r.kind # "first"

\* A row is listed twice only if a transaction wrote it during the walk: for
\* all others the cursor's order holds while rows around them move.
NoDuplicate ==
  ~mixed => \A p, q \in DOMAIN rows : p # q /\ rows[p] = rows[q] => rows[p] \in touched

ToCome(i, next) == next # NoCursor /\ Before(updated_at[i], i, next)

\* A row no transaction wrote during the walk, nor a retry took out of the
\* list, is on display, or is still to come, or was last written in the very
\* millisecond at which some page ends.
SkipsOnlyAtPageEnds ==
  shownFor # NoFilter /\ ~mixed =>
    \A i \in Ids : Matches(shownFor, i) /\ i \notin touched =>
      i \in Range(rows) \/ ToCome(i, nextCursor) \/ toISOString(updated_at[i]) \in ends

\* "No dup/skip while inserting new rows mid-walk": a finished walk shows
\* every row no transaction wrote meanwhile.
WalkSkipsNothing ==
  shownFor # NoFilter /\ ~mixed /\ nextCursor = NoCursor =>
    \A i \in Ids : Matches(shownFor, i) /\ i \notin touched => i \in Range(rows)

\* The answer to a poll never brings back rows of a filter or a tab the user
\* has left.
LatestFilterShown == [][shownFor' # shownFor => shownFor' \in {Current, NoFilter}]_vars

\* Whatever answers come late, in whatever order: unless the user goes on
\* changing tabs and filters for ever, the view keeps returning to the first
\* page of the table as it is.
EventuallyFresh ==
  \/ []<><<TRUE>>_<<tab, filter>>
  \/ []<>(rows = Page(Current, NoCursor).rows /\ ~error)
=============================================================================
