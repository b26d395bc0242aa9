----------------------------- MODULE Pagination -----------------------------
(***************************************************************************)
(* _paginate of src/chic/moysklad/client.py against a list on the server   *)
(* that other users may change between two pages.                          *)
(*                                                                         *)
(* A row is a number; the server's rows are in its fixed order.  Each page *)
(* is a request of its own: what the client asks for is decided by what it *)
(* has got so far.                                                         *)
(***************************************************************************)
EXTENDS Naturals, Sequences

CONSTANTS
    PageLimit,      \* _page_limit
    AuditLimit,     \* the cap of get_audit, 100 in the code
    Limits,         \* the limits callers ask for; 0: all
    MaxRows         \* bound: rows the server ever has

ASSUME PagesAssumption ==
    PageLimit \in Nat \ {0} /\ AuditLimit \in Nat \ {0} /\ Limits \subseteq Nat /\ MaxRows \in Nat

VARIABLES
    server,     \* the rows there are
    fresh,      \* the next row to be made
    limit,      \* total_limit
    pageSize,   \* page_size
    offset,
    rows,       \* the rows collected
    pc,         \* "get" or "done"
    known,      \* history: how many rows there were at the call
    disturbed   \* history: were rows removed, or put in before others

pagesVars == <<server, fresh, limit, pageSize, offset, rows, pc, known, disturbed>>
request == <<limit, pageSize, offset, rows, pc, known>>

\* The endpoint's page size, and the limit itself when that is smaller.
PageSize(endpoint, total) ==
    LET full == IF endpoint = "audit" /\ AuditLimit < PageLimit THEN AuditLimit ELSE PageLimit
    IN  IF 0 < total /\ total < full THEN total ELSE full

\* An endpoint method is called: each hands its limit on, and the audit its page size.
PagesInit ==
    /\ \E n \in 0 .. MaxRows : server = [i \in 1 .. n |-> i] /\ fresh = n + 1 /\ known = n
    /\ limit \in Limits
    /\ \E endpoint \in {"audit", "other"} : pageSize = PageSize(endpoint, limit)
    /\ offset = 0 /\ rows = <<>> /\ pc = "get" /\ disturbed = "no"

-----------------------------------------------------------------------------
(* The account's other users.                                              *)

RemoveAt(s, i) == SubSeq(s, 1, i - 1) \o SubSeq(s, i + 1, Len(s))
InsertAt(s, i, r) == SubSeq(s, 1, i - 1) \o <<r>> \o SubSeq(s, i, Len(s))

\* A row is made: at the end of the order, or before others.
Make ==
    /\ fresh <= MaxRows
    /\ \E i \in 1 .. Len(server) + 1 :
         /\ server' = InsertAt(server, i, fresh)
         /\ disturbed' = IF i <= Len(server) THEN "yes" ELSE disturbed
    /\ fresh' = fresh + 1
    /\ UNCHANGED request

Remove ==
    /\ \E i \in 1 .. Len(server) : server' = RemoveAt(server, i)
    /\ disturbed' = "yes"
    /\ UNCHANGED <<fresh, request>>

-----------------------------------------------------------------------------
(* The client.                                                             *)

\* MoySklad: the rows behind the offset, a page of them.
Page == SubSeq(server, offset + 1,
               IF offset + pageSize < Len(server) THEN offset + pageSize ELSE Len(server))

\* Mutant of Short: a page that is exactly full ends the listing.
ShortOrFull(page) == Len(page) <= pageSize

\* "len(page.rows) < page_size"
Short(page) == Len(page) < pageSize

\* Mutant of NextOffset: the pages overlap by a row.
NextOffsetOverlap == IF pageSize > 1 THEN offset + pageSize - 1 ELSE offset + 1

NextOffset == offset + pageSize

\* "total_limit > 0 and len(rows) >= total_limit"
Reached(got) == limit > 0 /\ Len(got) >= limit

\* One page: meta.size is the size of the list, or is not given.
Get ==
    /\ pc = "get"
    /\ \E size \in {0, Len(server)} :
         LET got == rows \o Page
         IN  IF Short(Page)
             THEN rows' = got /\ pc' = "done" /\ UNCHANGED offset
             ELSE IF Reached(got)
             THEN rows' = SubSeq(got, 1, limit) /\ pc' = "done" /\ UNCHANGED offset
             ELSE /\ rows' = got
                  /\ offset' = NextOffset
                  /\ pc' = IF size > 0 /\ offset' >= size THEN "done" ELSE "get"
    /\ UNCHANGED <<server, fresh, limit, pageSize, known, disturbed>>

\* The request fails for good, and so does the call.
Fail ==
    /\ pc = "get"
    /\ pc' = "raised"
    /\ UNCHANGED <<server, fresh, limit, pageSize, offset, rows, known, disturbed>>

PagesNext == Make \/ Remove \/ Get \/ Fail

PagesSpec == PagesInit /\ [][PagesNext]_pagesVars

-----------------------------------------------------------------------------
(* Properties.                                                             *)

\* Shape of the state; the offset is never past the rows collected.
PagesTypeOK ==
    /\ server \in Seq(1 .. MaxRows) /\ fresh \in 1 .. MaxRows + 1
    /\ limit \in Limits /\ pageSize \in 1 .. PageLimit
    /\ rows \in Seq(1 .. MaxRows) /\ offset \in 0 .. Len(rows)
    /\ pc \in {"get", "done", "raised"} /\ known \in 0 .. MaxRows /\ disturbed \in {"yes", "no"}

\* Rows that are only added behind the others disturb nothing: the answer is
\* the beginning of the list, each row once and in order, ...
InOrder ==
    disturbed = "no" => Len(rows) <= Len(server) /\ rows = SubSeq(server, 1, Len(rows))

\* ... and has all that was asked for and was there when the call was made.
Complete ==
    pc = "done" /\ disturbed = "no" =>
        Len(rows) >= IF 0 < limit /\ limit < known THEN limit ELSE known
=============================================================================
