------------------------------ MODULE Register ------------------------------
(***************************************************************************)
(* The register client: it lists the repositories of two queries, the      *)
(* endpoint without its publiccode filter and with publiccode=false, page  *)
(* by page, and joins them, while the register goes on changing.           *)
(*                                                                         *)
(* The register keeps a sequence of entries.  It is external: whether it   *)
(* leaves out repositories without a publiccode.yml by default, and even   *)
(* whether it honours the page parameter, is not up to the client.         *)
(***************************************************************************)
EXTENDS Integers, Sequences, SequencesExt

CONSTANTS
  Ids,         \* repository IDs
  URLs,        \* repository URLs
  Starts,      \* what the register may hold when the listing starts
  NewEntries,  \* what may be added during the listing
  PerPage,     \* perPage: entries of a full page (100)
  MaxPages,    \* bound: the highest page number asked for
  MaxChanges   \* bound: changes of the register during the listing

Entries == [id : Ids, url : URLs, code : BOOLEAN]
Repository == [id : Ids, url : URLs]

ASSUME RegisterAssumption ==
  /\ Starts \subseteq Seq(Entries) /\ NewEntries \subseteq Entries
  /\ PerPage \in Nat \ {0} /\ MaxPages \in Nat /\ MaxChanges \in Nat

VARIABLES
  register,    \* the entries, in the order in which pages show them
  showsAll,    \* does the first query show entries without publiccode.yml?
  pageless,    \* does the register ignore the page parameter?
  at,          \* "ask" for a page, or the listing is "done" or "failed"
  query,       \* 1: without filter, 2: publiccode=false
  page,        \* the next page to ask for
  pages,       \* Total-Pages of the first page, -1 before that
  listed,      \* repositories of this query so far
  result,      \* repositories of the queries that were read completely
  start,       \* history: the entries when the listing started
  changes,     \* how often the register changed so far
  left         \* history: has an entry left what a query shows?

registerVars == <<register, showsAll, pageless, start, changes, left>>
clientVars == <<at, query, page, pages, listed, result>>
vars == <<registerVars, clientVars>>

IdsOf(repositories) == {repositories[i].id : i \in DOMAIN repositories}

Init ==
  /\ register \in Starts /\ start = register
  /\ showsAll \in BOOLEAN /\ pageless \in BOOLEAN
  /\ changes = 0 /\ left = FALSE
  /\ at = "ask" /\ query = 1 /\ page = 1 /\ pages = -1
  /\ listed = <<>> /\ result = <<>>

-----------------------------------------------------------------------------
(* The register. *)

Shows(all, q, entry) == IF q = 1 THEN all \/ entry.code ELSE ~entry.code

\* What a query shows, in the order of the register, as far as the client reads it.
Shown(entries, all, q) ==
  LET upTo[i \in 0..Len(entries)] ==
        IF i = 0 THEN <<>>
        ELSE IF Shows(all, q, entries[i])
        THEN Append(upTo[i - 1], [id |-> entries[i].id, url |-> entries[i].url])
        ELSE upTo[i - 1]
  IN upTo[Len(entries)]

View(q) == Shown(register, showsAll, q)

TotalPages(q) == (Len(View(q)) + PerPage - 1) \div PerPage

\* Page p of query q.
Items(q, p) ==
  LET view == View(q)
      before == IF pageless THEN 0 ELSE (p - 1) * PerPage
      upTo == IF before + PerPage < Len(view) THEN before + PerPage ELSE Len(view)
  IN SubSeq(view, before + 1, upTo)

Change(entries) ==
  /\ at = "ask"
  /\ changes < MaxChanges
  /\ changes' = changes + 1
  /\ register' = entries
  /\ UNCHANGED <<showsAll, pageless, start, clientVars>>

EntryAdded ==
  \E entry \in NewEntries, i \in 1..Len(register) + 1 :
    /\ entry.id \notin IdsOf(register)
    /\ Change(InsertAt(register, i, entry))
    /\ UNCHANGED left

EntryRemoved ==
  \E i \in DOMAIN register : Change(RemoveAt(register, i)) /\ left' = TRUE

URLChanged ==
  \E i \in DOMAIN register, url \in URLs :
    Change([register EXCEPT ![i].url = url]) /\ UNCHANGED left

\* A repository gets or loses its publiccode.yml: it leaves one of the queries.
CodeToggled ==
  \E i \in DOMAIN register :
    Change([register EXCEPT ![i].code = ~@]) /\ left' = TRUE

-----------------------------------------------------------------------------
(* Repositories: one page of one query. *)

\* The seen map when item i of a page is looked at.
Seen(known, items, i) == IdsOf(known) \cup {items[j].id : j \in 1..i - 1}

\* The loop over the items of a page, after those of the pages before it: a
\* repository is listed once, where it was seen first.
Joined(known, items) ==
  LET upTo[i \in 0..Len(items)] ==
        IF i = 0 THEN known
        ELSE IF items[i].id \in Seen(known, items, i) THEN upTo[i - 1]
        ELSE Append(upTo[i - 1], items[i])
  IN upTo[Len(items)]

\* The same repository with two URLs.
ChangedURL(known, items) ==
  LET all == known \o items
  IN \E i, j \in DOMAIN all : all[i].id = all[j].id /\ all[i].url # all[j].url

\* The number of pages is that of the first answer.
PageCount(total) == IF pages = -1 THEN total ELSE pages

\* Mutant of CountChanged: the number of pages is not compared.
CountIgnored(total) == FALSE

\* The number of pages changed during the listing.
CountChanged(total) == pages # -1 /\ pages # total

OnlyRepeated(items) == items # <<>> /\ Joined(listed, items) = listed

Rejected(items, total) ==
  \/ CountChanged(total)
  \/ (items = <<>>) # (PageCount(total) = 0)
  \/ ChangedURL(listed, items)
  \/ OnlyRepeated(items)

\* Mutant of LastPage: an empty register has no page 0 to stop at.
ExactlyLast(total) == page = PageCount(total)

LastPage(total) == page >= PageCount(total)

\* The three ways an answer is handled.

Reject(items, total) ==
  /\ at = "ask"
  /\ Rejected(items, total)
  /\ at' = "failed"
  /\ UNCHANGED <<registerVars, query, page, pages, listed, result>>

NextPage(items, total) ==
  /\ at = "ask" /\ page < MaxPages
  /\ ~Rejected(items, total)
  /\ ~LastPage(total)
  /\ listed' = Joined(listed, items)
  /\ pages' = PageCount(total)
  /\ page' = page + 1
  /\ UNCHANGED <<registerVars, at, query, result>>

-----------------------------------------------------------------------------
(* RepositorySets: the two queries and their union. *)

\* Mutant of Union: the queries are taken to be disjoint.
Concatenate(repositories) == result \o repositories

Union(repositories) == Joined(result, repositories)

FinishQuery(items, total) ==
  /\ at = "ask"
  /\ ~Rejected(items, total)
  /\ LastPage(total)
  /\ LET repositories == Joined(listed, items)
     IN IF ChangedURL(result, repositories)
        THEN at' = "failed" /\ UNCHANGED <<query, result>>
        ELSE /\ result' = Union(repositories)
             /\ IF query = 1 THEN query' = 2 /\ UNCHANGED at
                ELSE at' = "done" /\ UNCHANGED query
  /\ page' = 1 /\ pages' = -1 /\ listed' = <<>>
  /\ UNCHANGED registerVars

\* A refused or unanswered request, or an answer that is not a page.
RequestFails ==
  /\ at = "ask"
  /\ at' = "failed"
  /\ UNCHANGED <<registerVars, query, page, pages, listed, result>>

\* The next request is answered.
List ==
  \E items \in {Items(query, page)}, total \in {TotalPages(query)} :
    Reject(items, total) \/ NextPage(items, total) \/ FinishQuery(items, total)

Next == List \/ RequestFails \/ EntryAdded \/ EntryRemoved \/ URLChanged \/ CodeToggled

Spec == Init /\ [][Next]_vars

\* Every request is answered or ends with the timeout of the HTTP client; no
\* request is assumed to fail.
FairSpec == Spec /\ WF_vars(List)

-----------------------------------------------------------------------------
(* Properties. *)

\* An unchanged register is listed completely or not at all, also by one that
\* answers every request with its first page. While entries are only added or
\* moved to another URL, no repository that was there from the start is missed:
\* a page that shifts is noticed, or only repeats what was read (the checks of
\* Total-Pages and of repeated pages in Repositories).
NothingHidden ==
  /\ (at = "done" /\ changes = 0) => IdsOf(result) = IdsOf(start)
  /\ (at = "done" /\ ~left /\ ~pageless) => IdsOf(start) \subseteq IdsOf(result)

\* However pages and queries overlap and change, the list has every ID once
\* and can be made a manifest (the seen maps; validate of manifest.go).
EachIDOnce ==
  \A i, j \in DOMAIN result : result[i].id = result[j].id => i = j

\* The listing ends, also that of an empty register and of one that changes.
ListingEnds == <>(at # "ask")
=============================================================================
