------------------------------ MODULE Listings ------------------------------
(***************************************************************************)
(* The listings of payments, payouts, activities, invites and so on: a     *)
(* client walks through one of them page by page while rows are recorded   *)
(* and change.  A row's place is decided by when its object was made,      *)
(* which may be before rows that are committed earlier; rows made at the   *)
(* same time come in any order.                                            *)
(***************************************************************************)
EXTENDS Integers, SequencesExt

CONSTANTS
  Members,    \* memberships: pairs of an account and a pod
  Due,        \* their payout dates
  Reader,     \* the membership whose account, or pod, is listed
  Limits,     \* sizes of the pages that the client asks for
  MaxRows,    \* bound on rows
  MaxTime     \* bound on the clock

VARIABLES
  tables,   \* rows of each table
  now,
  walk      \* the client: what it asks for and what it has seen

vars == <<tables, now, walk>>

Time == 0..MaxTime

\* A row belongs to a membership, or to its account or its pod; it is done when
\* it is settled, accepted, paid out or completed, whatever that is in its table.
Row == [of : Members, at : Time, done : BOOLEAN]

-----------------------------------------------------------------------------
(***************************************************************************)
(* The listings: the tables that each reads in turn, whose rows, what it   *)
(* lets the client choose, and how the answer is put together: a page of   *)
(* one table, a page of two that have been sorted into one list, or a page *)
(* of one after the other.                                                 *)
(***************************************************************************)
Listing(reads, whose, takes) ==
  [reads |-> reads, whose |-> whose, takes |-> takes, how |-> "page", open |-> FALSE]

\* What a member may choose.
MemberFilters == {"status", "timeframe", "range", "sort"}

ListAccountPayments == Listing(<<"payments">>, "account", MemberFilters)
ListAccountPayouts == Listing(<<"payouts">>, "account", MemberFilters)
ListPodPayments == Listing(<<"payments">>, "membership", MemberFilters)
ListPodPayouts == Listing(<<"payouts">>, "membership", MemberFilters)

Merged(listing) == [listing EXCEPT !.how = "merge"]

ListAccountTransactions ==
  Merged(Listing(<<"payments", "payouts">>, "account", MemberFilters \cup {"type"}))
ListPodTransactions ==
  Merged(Listing(<<"payments", "payouts">>, "membership", MemberFilters \cup {"type"}))

ListPodActivities == Listing(<<"activities">>, "pod", {})
ListAccountPodActivities == Listing(<<"memberships", "activities">>, "pods", {})

ListAdminAccountPayments == Listing(<<"payments">>, "account", {"status"})
ListAdminAccountPayouts == Listing(<<"payouts">>, "account", {"status", "timeframe"})

\* Upcoming payouts are memberships that are due and not paid out; together with
\* the recorded ones they are read from their beginnings.
ListRecordedPayouts == Listing(<<"payouts">>, "all", {})
ListUpcomingPayouts == [Listing(<<"memberships">>, "all", {}) EXCEPT !.open = TRUE]
ListAllPayouts == [Listing(<<"memberships", "payouts">>, "all", {}) EXCEPT !.how = "chain"]

Open(listing) == [listing EXCEPT !.open = TRUE]

ListPendingPodInvites == Open(Listing(<<"invites">>, "all", {}))
ListPodPendingInvites == Open(Listing(<<"invites">>, "pod", {}))

ListAdminAccounts == Listing(<<"accounts">>, "all", {})
ListAdminAnnouncements == Listing(<<"announcements">>, "all", {})
ListAccountVerificationAttempts == Listing(<<"attempts">>, "all", {})
ListAdminPods == Listing(<<"pods">>, "all", {"status"})

\* Lists that answer for a pod look for the reader's membership of it first.
NeedsMembership == {ListPodPayments, ListPodPayouts, ListPodTransactions, ListPodActivities}

Tables ==
  {"memberships", "payments", "payouts", "activities", "invites", "accounts", "announcements",
   "attempts", "pods"}

Listings ==
  {ListAccountPayments, ListAccountPayouts, ListPodPayments, ListPodPayouts,
   ListAccountTransactions, ListPodTransactions, ListPodActivities, ListAccountPodActivities,
   ListAdminAccountPayments, ListAdminAccountPayouts,
   ListRecordedPayouts, ListUpcomingPayouts, ListAllPayouts,
   ListPendingPodInvites, ListPodPendingInvites,
   ListAdminAccounts, ListAdminAnnouncements, ListAccountVerificationAttempts, ListAdminPods}

\* What a client asks for when it leaves all to the listing.
Plain(limit) ==
  [type |-> "all", status |-> "any", timeframe |-> "any", from |-> 0, to |-> MaxTime,
   sort |-> "desc", limit |-> limit]

\* The filters are tried one at a time.
Queries(listing) ==
  LET plain == {Plain(limit) : limit \in Limits}
      Choosing(filter, queries) == IF filter \in listing.takes THEN queries ELSE {}
  IN  plain
      \cup Choosing("sort", {[q EXCEPT !.sort = "asc"] : q \in plain})
      \cup Choosing("type", {[q EXCEPT !.type = t] : q \in plain, t \in {"payments", "payouts"}})
      \cup Choosing("status", {[q EXCEPT !.status = "done"] : q \in plain})
      \cup Choosing("timeframe",
             {[q EXCEPT !.timeframe = t] : q \in plain, t \in {"past", "upcoming"}})
      \cup Choosing("range",
             {[q EXCEPT !.from = 1, !.timeframe = t] : q \in plain, t \in {"any", "upcoming"}}
             \cup {[q EXCEPT !.to = 0] : q \in plain})

-----------------------------------------------------------------------------
(***************************************************************************)
(* Which rows a listing is of, and in which order.                         *)
(***************************************************************************)
At(id) == tables[id[1]][id[2]]

Account(member) == member[1]
Pod(member) == member[2]

InScope(listing, row, pods) ==
  CASE listing.whose = "account" -> Account(row.of) = Account(Reader)
    [] listing.whose = "membership" -> row.of = Reader
    [] listing.whose = "pod" -> Pod(row.of) = Pod(Reader)
    [] listing.whose = "pods" -> Pod(row.of) \in pods
    [] OTHER -> TRUE

\* A payment's time is when it was recorded, a payout's when it was due.
TimeOf(id) == IF id[1] = "payouts" THEN Due[At(id).of] ELSE At(id).at

\* Asked for what is upcoming and for what was recorded from a date on, the
\* later of the two conditions on the same column replaces the earlier one.
Upcoming(q, id) == TimeOf(id) >= now \/ (q.from > 0 /\ id[1] = "payments")

Asked(q, id) ==
  /\ q.type \in {"all", id[1]}
  /\ q.status = "done" => At(id).done
  /\ q.timeframe = "past" => TimeOf(id) < now
  /\ q.timeframe = "upcoming" => Upcoming(q, id)
  /\ q.from <= At(id).at /\ At(id).at <= q.to

\* Memberships are listed as payouts to come, or only to learn the pods.
ToCome(id) == Due[At(id).of] >= now /\ ~At(id).done

IdsOf(table) == {<<table, k>> : k \in DOMAIN tables[table]}

\* What is read of the i-th table.
Found(listing, q, i, pods) ==
  LET ids == IdsOf(listing.reads[i])
  IN  IF listing.reads[i] # "memberships"
      THEN {id \in ids : InScope(listing, At(id), pods) /\ Asked(q, id)
                            /\ (listing.open => ~At(id).done)}
      ELSE IF listing.whose = "pods"
      THEN {id \in ids : Account(At(id).of) = Account(Reader)}
      ELSE {id \in ids : ToCome(id)}

\* The place of a row, from the first on.
Place(listing, q, id) ==
  IF id[1] = "memberships" \/ (q.timeframe = "upcoming" /\ "sort" \notin listing.takes)
  THEN Due[At(id).of]
  ELSE IF q.sort = "asc" THEN At(id).at ELSE 0 - At(id).at

\* The orders in which rows may come.
Orders(listing, q, ids) ==
  {s \in SetToSeqs(ids) :
     \A j, k \in DOMAIN s : j < k => Place(listing, q, s[j]) <= Place(listing, q, s[k])}

Slice(s, offset, limit) ==
  SubSeq(s, offset + 1, IF offset + limit < Len(s) THEN offset + limit ELSE Len(s))

-----------------------------------------------------------------------------
(***************************************************************************)
(* The walk.  `found' is what the request under way has read, `counts' the *)
(* rows it has counted, `total' and `items' are its answer; `offset' is    *)
(* how many items the client has got, `seen' which; `owed' are the rows    *)
(* that were there when it began.                                          *)
(***************************************************************************)
Init ==
  /\ \E joined \in {Members, Members \ {Reader}} :
       tables = [t \in Tables |-> IF t # "memberships" THEN <<>>
                   ELSE SetToSeq({[of |-> m, at |-> 0, done |-> FALSE] : m \in joined})]
  /\ now = 0
  /\ \E listing \in Listings : \E q \in Queries(listing) :
       walk = [listing |-> listing, q |-> q, pc |-> "begin", found |-> <<>>, counts |-> <<>>,
               total |-> 0, items |-> <<>>, offset |-> 0, seen |-> {}, owed |-> {},
               quiet |-> TRUE]

Goes(w) == walk' = w /\ UNCHANGED <<tables, now>>

\* The pods of the memberships that have been read first.
PodsOf(ids) == {Pod(At(id).of) : id \in ids}

PodsFound == PodsOf(IF walk.found = <<>> THEN {} ELSE ToSet(walk.found[1]))

MyPods == PodsOf({id \in IdsOf("memberships") : Account(At(id).of) = Account(Reader)})

LastRead == Len(walk.listing.reads)

Owed ==
  Found(walk.listing, walk.q, LastRead, MyPods)
  \cup IF walk.listing.how = "merge" THEN Found(walk.listing, walk.q, 1, {}) ELSE {}

Begin ==
  /\ walk.pc = "begin"
  /\ Goes([walk EXCEPT !.pc = IF walk.listing \in NeedsMembership THEN "check" ELSE "read",
                       !.owed = Owed, !.quiet = TRUE])

CheckMembership ==
  /\ walk.pc = "check"
  /\ Goes([walk EXCEPT !.pc = IF \E id \in IdsOf("memberships") : At(id).of = Reader
                              THEN "read" ELSE "refused"])

\* Mutant: every page is read from the beginning.
MutWindow(s) == Slice(s, 0, walk.q.limit)

\* A page goes to the database; of a list that is put together from its
\* beginning all is read that the page may need, of the others all there is.
Window(s) ==
  LET w == walk
  IN  IF w.listing.how = "chain" THEN Slice(s, 0, w.offset + w.q.limit)
      ELSE IF w.listing.how = "page" /\ Len(w.found) + 1 = LastRead
      THEN Slice(s, w.offset, w.q.limit)
      ELSE s

\* What is read in full is counted by its reader, and comes in any order.
InFull(i) == walk.listing.how = "merge" \/ (walk.listing.how = "page" /\ i < LastRead)

\* Rows and number are read at the same time, in either order, and the next table
\* after both.
Find ==
  LET w == walk
      i == Len(w.found) + 1
      ids == Found(w.listing, w.q, i, PodsFound)
  IN  /\ w.pc = "read" /\ i <= LastRead /\ Len(w.counts) >= i - 1
      /\ IF InFull(i)
         THEN Goes([w EXCEPT !.found = Append(@, SetToSeq(ids)), !.counts = Append(@, Cardinality(ids))])
         ELSE \E s \in Orders(w.listing, w.q, ids) : Goes([w EXCEPT !.found = Append(@, Window(s))])

Count ==
  LET w == walk
      i == Len(w.counts) + 1
  IN  /\ w.pc = "read" /\ i <= LastRead /\ Len(w.found) >= i - 1 /\ ~InFull(i)
      /\ Goes([w EXCEPT !.counts =
                  Append(@, Cardinality(Found(w.listing, w.q, i, PodsFound)))])

\* The lists that an answer may be a page of.
Wholes(w) == Orders(w.listing, w.q, ToSet(w.found[1]) \cup ToSet(w.found[2]))

Items(w) ==
  CASE w.listing.how = "page" -> {w.found[LastRead]}
    [] w.listing.how = "merge" -> {Slice(s, w.offset, w.q.limit) : s \in Wholes(w)}
    [] w.listing.how = "chain" -> {Slice(w.found[1] \o w.found[2], w.offset, w.q.limit)}

Total(w) == IF w.listing.how = "page" THEN w.counts[LastRead] ELSE w.counts[1] + w.counts[2]

Answer ==
  LET w == walk
  IN  /\ w.pc = "read" /\ Len(w.found) = LastRead /\ Len(w.counts) = LastRead
      /\ \E items \in Items(w) :
           Goes([w EXCEPT !.pc = "answered", !.items = items, !.total = Total(w),
                          !.offset = @ + Len(items), !.seen = @ \cup ToSet(items),
                          !.found = <<>>, !.counts = <<>>])

\* The client goes on until a page brings nothing.
NextPage ==
  /\ walk.pc = "answered"
  /\ Goes([walk EXCEPT !.pc = IF walk.items = <<>> THEN "ended" ELSE "read",
                       !.items = <<>>, !.total = 0, !.quiet = TRUE])

-----------------------------------------------------------------------------
(***************************************************************************)
(* Meanwhile.                                                              *)
(***************************************************************************)
Changes(t, table) ==
  /\ walk.pc \notin {"refused", "ended"}
  /\ tables' = [tables EXCEPT ![t] = table]
  /\ walk' = [walk EXCEPT !.quiet = FALSE]
  /\ UNCHANGED now

\* Tables that the listing does not read make no difference to it, nor does whose
\* a row is to a list of all, or whether it is done to one that does not ask.
Record(t, row) ==
  /\ t \in ToSet(walk.listing.reads) \ {"memberships"}
  /\ Len(tables[t]) < MaxRows
  /\ \E id \in IdsOf("memberships") : At(id).of = row.of
  /\ row.at <= now /\ ~row.done /\ (walk.listing.whose = "all" => row.of = Reader)
  /\ Changes(t, Append(tables[t], row))

Settle(t, k) ==
  /\ t \in ToSet(walk.listing.reads) /\ k \in DOMAIN tables[t] /\ ~tables[t][k].done
  /\ walk.listing.open \/ walk.q.status = "done" \/ t = "memberships"
  /\ Changes(t, [tables[t] EXCEPT ![k].done = TRUE])

Tick ==
  /\ now < MaxTime /\ walk.pc \notin {"refused", "ended"}
  /\ now' = now + 1
  /\ walk' = [walk EXCEPT !.quiet = FALSE]
  /\ UNCHANGED tables

Step == Begin \/ CheckMembership \/ Find \/ Count \/ Answer \/ NextPage

Event ==
  \/ \E t \in Tables : (\E row \in Row : Record(t, row)) \/ (\E k \in 1..MaxRows : Settle(t, k))
  \/ Tick

Next == Step \/ Event

Spec == Init /\ [][Next]_vars

-----------------------------------------------------------------------------
\* Rows of such a listing may join it but never leave it.
Steady(w) ==
  /\ ~w.listing.open /\ w.listing.how # "chain"
  /\ w.q.status = "any" /\ w.q.timeframe # "upcoming"

\* Paging by offsets misses nothing: whatever is recorded during the walk, the
\* client sees every row that was there when it began, unless it shares its time
\* with another one.
WalksMissNothing ==
  walk.pc = "ended" /\ Steady(walk) =>
    \A id \in walk.owed :
      \/ id \in walk.seen
      \/ \E other \in UNION {IdsOf(t) : t \in ToSet(walk.listing.reads)} \ {id} :
           Place(walk.listing, walk.q, other) = Place(walk.listing, walk.q, id)

\* The listing as one list, read in one go.
WholeLists ==
  LET w == walk
      Of(i) == Found(w.listing, w.q, i, MyPods)
  IN  CASE w.listing.how = "chain" -> {s \o t : s \in Orders(w.listing, w.q, Of(1)),
                                               t \in Orders(w.listing, w.q, Of(2))}
        [] w.listing.how = "merge" -> Orders(w.listing, w.q, Of(1) \cup Of(2))
        [] OTHER -> Orders(w.listing, w.q, Of(LastRead))

\* An answer is a page of that list, and says how long it is, as long as nothing
\* changes while it is put together.
QuietPages ==
  walk.pc = "answered" /\ walk.quiet =>
    \E s \in WholeLists :
      /\ walk.total = Len(s)
      /\ walk.items = Slice(s, walk.offset - Len(walk.items), walk.q.limit)

PagesHold == WalksMissNothing /\ QuietPages
=============================================================================
