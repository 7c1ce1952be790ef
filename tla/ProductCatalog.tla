--------------------------- MODULE ProductCatalog ---------------------------
(***************************************************************************)
(* The product service: sellers write products on the primary and delete   *)
(* the product's cache entry; buyers read through the cache, filling it    *)
(* from a replica that lags.  The cached product page lives two minutes,   *)
(* the cached listing one, and no write ever deletes the listing.  Orders  *)
(* take stock without telling the cache.                                   *)
(***************************************************************************)
EXTENDS Integers, Sequences, FiniteSets

CONSTANTS
  Products,   \* product ids
  Sellers,    \* authenticated users
  Readers,    \* GET requests in flight, reused for the next GET
  Writers,    \* POST, PUT and DELETE requests in flight, reused likewise
  MaxLog      \* bound: committed writes to the Product table

ASSUME BoundAssumption == MaxLog \in Nat

Version == [product : Products, owner : Sellers, active : BOOLEAN]

VARIABLES
  log,       \* the versions of all products in commit order: the primary
  applied,   \* how many of them the replica has applied
  cache,     \* cache[p]: the version of p under product:<id>, as an index of log, or 0
  listing,   \* the cached answer of the listing query, or NoListing
  reader,    \* reader[r]: step, product and rows of a GET
  writer,    \* writer[w]: step, product, seller and kind of a PUT or DELETE
  excused    \* history: products whose cached page went stale in a known window

vars == <<log, applied, cache, listing, reader, writer, excused>>

\* The versions of p among the first n writes.
Versions(p, n) == {i \in 1..n : log[i].product = p}

\* The largest index of S, 0 if there is none.
Newest(S) == IF S = {} THEN 0 ELSE CHOOSE i \in S : \A j \in S : j <= i

\* The version of p after n writes, 0 before its creation.
Latest(p, n) == Newest(Versions(p, n))

Primary(p) == Latest(p, Len(log))
Replica(p) == Latest(p, applied)

\* Mutant of Active: the queries do not ask for isActive.
ActiveOrNot(i) == i # 0

\* { id, isActive: true } at the replica.
Active(i) == i # 0 /\ log[i].active

\* The rows of the listing query after n writes.
ActiveRows(n) == {i \in {Latest(p, n) : p \in Products} : Active(i)}

NoListing == [rows |-> {}, total |-> -1]

Idle == [step |-> "idle"]

Listings == [rows : SUBSET (1..MaxLog), total : Int]

TypeOK ==
  /\ log \in Seq(Version) /\ Len(log) <= MaxLog
  /\ applied \in 0..Len(log)
  /\ cache \in [Products -> 0..applied]
  /\ listing \in Listings
  /\ reader \in [Readers ->
       {Idle} \cup [step : {"missed"}, product : Products]
              \cup [step : {"fetched"}, product : Products, row : 1..applied]
              \cup [step : {"listing"}]
              \cup [step : {"counting"}, rows : SUBSET (1..applied)]
              \cup [step : {"listed"}, list : Listings]]
  /\ writer \in [Writers ->
       {Idle} \cup [step : {"checked", "applied"}, product : Products,
                    seller : Sellers, kind : {"update", "delete"}]]
  /\ excused \subseteq Products

Init ==
  /\ log = <<>>
  /\ applied = 0
  /\ cache = [p \in Products |-> 0]
  /\ listing = NoListing
  /\ reader = [r \in Readers |-> Idle]
  /\ writer = [w \in Writers |-> Idle]
  /\ excused = {}

-----------------------------------------------------------------------------
(* GET /products/:id.                                                      *)

\* redis.get misses; a hit answers at once and changes nothing.
CacheMiss(r) ==
  /\ reader[r] = Idle
  /\ \E p \in Products :
       /\ cache[p] = 0
       /\ reader' = [reader EXCEPT ![r] = [step |-> "missed", product |-> p]]
  /\ UNCHANGED <<log, applied, cache, listing, writer, excused>>

FetchProduct(r) ==
  /\ reader[r].step = "missed"
  /\ Active(Replica(reader[r].product))
  /\ reader' = [reader EXCEPT ![r] =
       [step |-> "fetched", product |-> reader[r].product,
        row |-> Replica(reader[r].product)]]
  /\ UNCHANGED <<log, applied, cache, listing, writer, excused>>

AnswerNotFound(r) ==
  /\ reader[r].step = "missed"
  /\ ~Active(Replica(reader[r].product))
  /\ reader' = [reader EXCEPT ![r] = Idle]
  /\ UNCHANGED <<log, applied, cache, listing, writer, excused>>

\* A fill may come after a write it did not see: the replica lagged, or the
\* write was committed and its cache entry deleted since the fetch.
FillCache(r) ==
  /\ reader[r].step = "fetched"
  /\ LET p == reader[r].product
         i == reader[r].row
     IN  /\ cache' = [cache EXCEPT ![p] = i]
         /\ excused' = IF i = Primary(p) THEN excused \ {p} ELSE excused \cup {p}
  /\ reader' = [reader EXCEPT ![r] = Idle]
  /\ UNCHANGED <<log, applied, listing, writer>>

-----------------------------------------------------------------------------
(* GET /products, for one query.                                           *)

ListingMiss(r) ==
  /\ reader[r] = Idle
  /\ listing = NoListing
  /\ reader' = [reader EXCEPT ![r] = [step |-> "listing"]]
  /\ UNCHANGED <<log, applied, cache, listing, writer, excused>>

\* Mutant of ReadRows: the rows come from the primary, their count from the replica.
ReadRowsAtPrimary(r) ==
  /\ reader[r].step = "listing"
  /\ reader' = [reader EXCEPT ![r] = [step |-> "counting", rows |-> ActiveRows(Len(log))]]
  /\ UNCHANGED <<log, applied, cache, listing, writer, excused>>

ReadRows(r) ==
  /\ reader[r].step = "listing"
  /\ reader' = [reader EXCEPT ![r] = [step |-> "counting", rows |-> ActiveRows(applied)]]
  /\ UNCHANGED <<log, applied, cache, listing, writer, excused>>

\* The count is a second query, of a replica that may have moved on.
CountRows(r) ==
  /\ reader[r].step = "counting"
  /\ reader' = [reader EXCEPT ![r] =
       [step |-> "listed",
        list |-> [rows |-> reader[r].rows, total |-> Cardinality(ActiveRows(applied))]]]
  /\ UNCHANGED <<log, applied, cache, listing, writer, excused>>

FillListing(r) ==
  /\ reader[r].step = "listed"
  /\ listing' = reader[r].list
  /\ reader' = [reader EXCEPT ![r] = Idle]
  /\ UNCHANGED <<log, applied, cache, writer, excused>>

-----------------------------------------------------------------------------
(* POST, PUT and DELETE.                                                   *)

Commit(version) == Len(log) < MaxLog /\ log' = Append(log, version)

CreateProduct ==
  /\ \E p \in Products, s \in Sellers :
       /\ Primary(p) = 0
       /\ Commit([product |-> p, owner |-> s, active |-> TRUE])
  /\ UNCHANGED <<applied, cache, listing, reader, writer, excused>>

\* Mutant of CheckOwner: the owner is not compared.
CheckOwnerUnchecked(w) ==
  /\ writer[w] = Idle
  /\ \E p \in Products, s \in Sellers, kind \in {"update", "delete"} :
       /\ Replica(p) # 0
       /\ writer' = [writer EXCEPT ![w] =
            [step |-> "checked", product |-> p, seller |-> s, kind |-> kind]]
  /\ UNCHANGED <<log, applied, cache, listing, reader, excused>>

\* findUnique and the owner check read the replica; failing them changes nothing.
CheckOwner(w) ==
  /\ writer[w] = Idle
  /\ \E p \in Products, s \in Sellers, kind \in {"update", "delete"} :
       /\ Replica(p) # 0
       /\ log[Replica(p)].owner = s
       /\ writer' = [writer EXCEPT ![w] =
            [step |-> "checked", product |-> p, seller |-> s, kind |-> kind]]
  /\ UNCHANGED <<log, applied, cache, listing, reader, excused>>

\* Mutant of WriteRow: the whole row read from the replica is written back.
WriteRowFromReplica(w) ==
  /\ writer[w].step = "checked"
  /\ LET row == log[Replica(writer[w].product)]
     IN  Commit([row EXCEPT !.active = @ /\ writer[w].kind = "update"])
  /\ writer' = [writer EXCEPT ![w].step = "applied"]
  /\ UNCHANGED <<applied, cache, listing, reader, excused>>

\* Mutant of WriteRow: the cache entry is not deleted afterwards.
WriteRowOnly(w) ==
  /\ writer[w].step = "checked"
  /\ LET row == log[Primary(writer[w].product)]
     IN  Commit([row EXCEPT !.active = @ /\ writer[w].kind = "update"])
  /\ writer' = [writer EXCEPT ![w] = Idle]
  /\ UNCHANGED <<applied, cache, listing, reader, excused>>

\* The UPDATE at the primary: only the columns of the body, so an update leaves
\* isActive as it finds it there.
WriteRow(w) ==
  /\ writer[w].step = "checked"
  /\ LET row == log[Primary(writer[w].product)]
     IN  Commit([row EXCEPT !.active = @ /\ writer[w].kind = "update"])
  /\ writer' = [writer EXCEPT ![w].step = "applied"]
  /\ UNCHANGED <<applied, cache, listing, reader, excused>>

\* Mutant of DeleteEntry: DEL names a key that nothing is cached under.
DeleteEntryMisnamed(w) ==
  /\ writer[w].step = "applied"
  /\ writer' = [writer EXCEPT ![w] = Idle]
  /\ UNCHANGED <<log, applied, cache, listing, reader, excused>>

DeleteEntry(w) ==
  /\ writer[w].step = "applied"
  /\ cache' = [cache EXCEPT ![writer[w].product] = 0]
  /\ excused' = excused \ {writer[w].product}
  /\ writer' = [writer EXCEPT ![w] = Idle]
  /\ UNCHANGED <<log, applied, listing, reader>>

\* The UPDATE or the DEL fails, or the process dies: the entry stays.
WriterDies(w) ==
  /\ writer[w] # Idle
  /\ excused' = IF writer[w].step = "applied" /\ cache[writer[w].product] # 0
                THEN excused \cup {writer[w].product} ELSE excused
  /\ writer' = [writer EXCEPT ![w] = Idle]
  /\ UNCHANGED <<log, applied, cache, listing, reader>>

-----------------------------------------------------------------------------
\* An order commits a decrement of the stock column.
SellUnit ==
  /\ \E p \in Products :
       /\ Primary(p) # 0
       /\ Commit(log[Primary(p)])
       /\ excused' = IF cache[p] # 0 THEN excused \cup {p} ELSE excused
  /\ UNCHANGED <<applied, cache, listing, reader, writer>>

Replicate ==
  /\ applied < Len(log)
  /\ applied' = applied + 1
  /\ UNCHANGED <<log, cache, listing, reader, writer, excused>>

ExpireEntry(p) ==
  /\ cache[p] # 0
  /\ cache' = [cache EXCEPT ![p] = 0]
  /\ excused' = excused \ {p}
  /\ UNCHANGED <<log, applied, listing, reader, writer>>

\* Mutant of ExpireListing: the listing is cached without a time to live.
ExpireListingNever == listing # NoListing /\ UNCHANGED vars

ExpireListing ==
  /\ listing # NoListing
  /\ listing' = NoListing
  /\ UNCHANGED <<log, applied, cache, reader, writer, excused>>

Read(r) == \/ FetchProduct(r) \/ AnswerNotFound(r) \/ FillCache(r)
           \/ ReadRows(r) \/ CountRows(r) \/ FillListing(r)

Write(w) == WriteRow(w) \/ DeleteEntry(w)

Next == \/ \E r \in Readers : CacheMiss(r) \/ ListingMiss(r) \/ Read(r)
        \/ \E w \in Writers : CheckOwner(w) \/ Write(w) \/ WriterDies(w)
        \/ \E p \in Products : ExpireEntry(p)
        \/ CreateProduct \/ SellUnit \/ Replicate \/ ExpireListing

Spec == Init /\ [][Next]_vars

\* A GET in flight goes on, the replica catches up, and a TTL runs out.
FairSpec == /\ Spec
            /\ \A r \in Readers : WF_vars(Read(r))
            /\ \A p \in Products : WF_vars(ExpireEntry(p))
            /\ WF_vars(Replicate) /\ WF_vars(ExpireListing)

-----------------------------------------------------------------------------
(* Properties.                                                             *)

\* What is served under product:<id> is a version of that very product that was
\* on sale, and never one the replica has not got.
CachedRowIsReal ==
  \A p \in Products : cache[p] # 0 =>
    cache[p] <= applied /\ log[cache[p]].product = p /\ log[cache[p]].active

\* A cached page differs from the primary only while a writer has yet to delete
\* the entry, or because of a known window: a sale, a lagging or overtaken fill,
\* or a writer that died. No write forgets the page of its product.
StaleOnlyInWindow ==
  \A p \in Products : cache[p] \notin {0, Primary(p)} =>
    \/ p \in excused
    \/ \E w \in Writers : writer[w].step = "applied" /\ writer[w].product = p

\* A product taken off the market stays off it: an update checked before a
\* delete and written after it does not bring the product back.
NeverResurrected ==
  \A i, j \in DOMAIN log :
    i < j /\ log[i].product = log[j].product /\ ~log[i].active => ~log[j].active

\* What a PUT or DELETE in flight has checked still holds at the primary.
OwnerKnown(w) ==
  writer[w] # Idle => /\ Primary(writer[w].product) # 0
                      /\ log[Primary(writer[w].product)].owner = writer[w].seller

\* The owner found on the lagging replica is the owner at the primary, and
\* ownership never passes to another seller.
OwnerIsConstant ==
  /\ \A i, j \in DOMAIN log : log[i].product = log[j].product => log[i].owner = log[j].owner
  /\ \A w \in Writers : OwnerKnown(w)

\* The rows of the list are those on sale at one moment of the replica; its
\* total may belong to a later one.
IsSnapshot(list) ==
  \E n \in 0..applied : /\ list.rows = ActiveRows(n)
                        /\ \E m \in n..applied : list.total = Cardinality(ActiveRows(m))

\* A listing never mixes versions of different moments, although its rows and
\* its total are read by two queries while the replica moves on.
ListingIsSnapshot == listing # NoListing => IsSnapshot(listing)

\* What the GETs in flight hold is as good as what the cache holds.
ReadersHoldRealRows ==
  \A r \in Readers :
    /\ reader[r].step = "fetched" =>
         log[reader[r].row].product = reader[r].product /\ log[reader[r].row].active
    /\ reader[r].step = "counting" => \E n \in 0..applied : reader[r].rows = ActiveRows(n)
    /\ reader[r].step = "listed" => IsSnapshot(reader[r].list)

\* Inductive: the cache, the listing and every request in flight hold versions
\* of the log, and the log never contradicts what a request has checked.
CatalogInv ==
  /\ TypeOK /\ CachedRowIsReal /\ ReadersHoldRealRows /\ StaleOnlyInWindow
  /\ NeverResurrected /\ OwnerIsConstant /\ ListingIsSnapshot

\* Once the writes stop, buyers come to see the current products: no stale page
\* or listing is served for ever, and no page of a product taken off the market.
EventuallyFresh ==
  <>[](/\ \A p \in Products : cache[p] # 0 => cache[p] = Primary(p) /\ Active(cache[p])
       /\ listing # NoListing => listing.rows = ActiveRows(Len(log)))
=============================================================================
