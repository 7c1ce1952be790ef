------------------------- MODULE ProductCatalogProofs -------------------------
(***************************************************************************)
(* The inductive invariant of ProductCatalog, for any number of products,  *)
(* sellers and requests in flight, and any length of the log.              *)
(***************************************************************************)
EXTENDS ProductCatalog, WellFoundedInduction, FiniteSetTheorems, TLAPS

\* A set of indices that is not empty has a largest one.
LEMMA LargestIndex ==
  ASSUME NEW n \in Nat, NEW S \in SUBSET (1..n), S # {}
  PROVE  \E i \in S : \A j \in S : j <= i
<1>1. PICK T : T = {k \in Nat : n - k \in S}
  OBVIOUS
<1>2. T \subseteq Nat /\ T # {}
  <2>1. PICK i \in S : TRUE
    OBVIOUS
  <2>2. n - i \in Nat /\ n - (n - i) = i
    BY <2>1
  <2> QED
    BY <1>1, <2>1, <2>2
<1>3. IsWellFoundedOn(OpToRel(<, Nat), Nat)
  BY NatLessThanWellFounded
<1>4. \E x \in T : \A y \in T : ~(<<y, x>> \in OpToRel(<, Nat))
  BY <1>2, <1>3, WFMin
<1>5. PICK x \in T : \A y \in T : ~(y < x)
  BY <1>2, <1>4 DEF OpToRel
<1>6. n - x \in S
  BY <1>1, <1>5
<1>7. ASSUME NEW j \in S PROVE j <= n - x
  <2>1. n - j \in Nat /\ n - (n - j) = j
    OBVIOUS
  <2>2. n - j \in T
    BY <1>1, <2>1
  <2>3. ~(n - j < x) /\ x \in Nat
    BY <1>2, <1>5, <2>2
  <2> QED
    BY <2>1, <2>3
<1> QED
  BY <1>6, <1>7
-----------------------------------------------------------------------------
\* The newest index of a set of indices is its largest.
LEMMA NewestFacts ==
  ASSUME NEW n \in Nat, NEW S \in SUBSET (1..n)
  PROVE  /\ Newest(S) \in S \cup {0}
         /\ S = {} <=> Newest(S) = 0
         /\ \A j \in S : j <= Newest(S)
<1>1. CASE S = {}
  BY <1>1 DEF Newest
<1>2. CASE S # {}
  <2>1. \E i \in S : \A j \in S : j <= i
    BY <1>2, LargestIndex
  <2>2. Newest(S) = CHOOSE i \in S : \A j \in S : j <= i
    BY <1>2 DEF Newest
  <2>3. Newest(S) \in S /\ \A j \in S : j <= Newest(S)
    BY <2>1, <2>2
  <2>4. Newest(S) \in 1..n
    BY <2>3
  <2>5. Newest(S) # 0
    BY <2>4
  <2> QED
    BY <1>2, <2>3, <2>5
<1> QED
  BY <1>1, <1>2

\* The latest version of p among the first n writes is one, and the last one.
LEMMA LatestFacts ==
  ASSUME log \in Seq(Version), NEW p, NEW n \in 0..Len(log)
  PROVE  /\ Latest(p, n) \in 0..n
         /\ Latest(p, n) # 0 => log[Latest(p, n)].product = p
         /\ \A j \in 1..n : log[j].product = p => j <= Latest(p, n)
<1>1. n \in Nat /\ Versions(p, n) \in SUBSET (1..n)
  BY DEF Versions
<1>2. /\ Latest(p, n) \in Versions(p, n) \cup {0}
      /\ \A j \in Versions(p, n) : j <= Latest(p, n)
  BY <1>1, NewestFacts DEF Latest
<1> QED
  BY <1>1, <1>2 DEF Versions

\* A write leaves the versions before it alone.
LEMMA LatestAppend ==
  ASSUME log \in Seq(Version), NEW v \in Version, log' = Append(log, v),
         NEW p, NEW n \in 0..Len(log)
  PROVE  Latest(p, n)' = Latest(p, n)
<1>1. \A i \in 1..n : log'[i] = log[i]
  OBVIOUS
<1>2. Versions(p, n)' = Versions(p, n)
  BY <1>1 DEF Versions
<1> QED
  BY <1>2 DEF Latest

\* It becomes the version of its own product, and of no other.
LEMMA PrimaryAppend ==
  ASSUME log \in Seq(Version), NEW v \in Version, log' = Append(log, v), NEW p
  PROVE  Primary(p)' = IF v.product = p THEN Len(log) + 1 ELSE Primary(p)
<1>1. /\ Len(log) \in Nat /\ Len(log') = Len(log) + 1 /\ log'[Len(log) + 1] = v
      /\ \A i \in 1..Len(log) : log'[i] = log[i]
      /\ 1..(Len(log) + 1) = 1..Len(log) \cup {Len(log) + 1}
  OBVIOUS
<1>2. PICK T : T = {i \in 1..(Len(log) + 1) : log'[i].product = p}
  OBVIOUS
<1>3. Primary(p)' = Newest(T)
  BY <1>1, <1>2 DEF Primary, Latest, Versions
<1>4. CASE v.product = p
  <2>1. Len(log) + 1 \in T /\ T \in SUBSET (1..(Len(log) + 1))
    BY <1>1, <1>2, <1>4
  <2>2. Newest(T) \in T /\ \A j \in T : j <= Newest(T)
    <3>1. Len(log) + 1 \in Nat
      BY <1>1
    <3> QED
      BY <2>1, <3>1, NewestFacts
  <2>3. Newest(T) \in 1..(Len(log) + 1) /\ Len(log) + 1 <= Newest(T)
    BY <2>1, <2>2
  <2>4. Newest(T) = Len(log) + 1
    BY <1>1, <2>3
  <2> QED
    BY <1>3, <1>4, <2>4
<1>5. CASE v.product # p
  <2>1. T = Versions(p, Len(log))
    BY <1>1, <1>2, <1>5 DEF Versions
  <2> QED
    BY <1>3, <1>5, <2>1 DEF Primary, Latest
<1> QED
  BY <1>4, <1>5

LEMMA ActiveRowsAppend ==
  ASSUME log \in Seq(Version), NEW v \in Version, log' = Append(log, v),
         NEW n \in 0..Len(log)
  PROVE  ActiveRows(n)' = ActiveRows(n)
<1>1. \A p \in Products : Latest(p, n)' = Latest(p, n)
  BY LatestAppend
<1>2. \A p \in Products : Active(Latest(p, n))' <=> Active(Latest(p, n))
  <2> SUFFICES ASSUME NEW p \in Products
               PROVE  Active(Latest(p, n))' <=> Active(Latest(p, n))
    OBVIOUS
  <2>1. Latest(p, n) \in 0..n
    BY LatestFacts
  <2>2. Latest(p, n) # 0 => log'[Latest(p, n)] = log[Latest(p, n)]
    BY <2>1
  <2> QED
    BY <1>1, <2>2 DEF Active
<1> QED
  BY <1>1, <1>2 DEF ActiveRows

-----------------------------------------------------------------------------
THEOREM CatalogInvInit == Init => CatalogInv
<1> SUFFICES ASSUME Init PROVE CatalogInv
  OBVIOUS
<1>1. TypeOK
  BY BoundAssumption DEF Init, TypeOK, NoListing, Listings, Idle
<1>2. CachedRowIsReal /\ ReadersHoldRealRows /\ StaleOnlyInWindow
  BY DEF Init, CachedRowIsReal, ReadersHoldRealRows, StaleOnlyInWindow, Idle
<1>3. NeverResurrected /\ OwnerIsConstant /\ ListingIsSnapshot
  BY DEF Init, NeverResurrected, OwnerIsConstant, OwnerKnown, ListingIsSnapshot, Idle
<1> QED
  BY <1>1, <1>2, <1>3 DEF CatalogInv

\* The log: what every committed write keeps, given what its request knows of
\* the product it writes.
LEMMA WriteKeepsLog ==
  ASSUME CatalogInv, NEW v \in Version, log' = Append(log, v), Len(log) < MaxLog,
         UNCHANGED <<applied, cache, listing>>,
         Primary(v.product) # 0 =>
           /\ v.owner = log[Primary(v.product)].owner
           /\ v.active => log[Primary(v.product)].active
  PROVE  /\ log' \in Seq(Version) /\ Len(log') <= MaxLog /\ applied \in 0..Len(log')
         /\ CachedRowIsReal' /\ NeverResurrected' /\ ListingIsSnapshot'
         /\ \A i, j \in DOMAIN log' :
              log'[i].product = log'[j].product => log'[i].owner = log'[j].owner
         /\ \A p \in Products : Primary(p) # 0 =>
              /\ Primary(p)' # 0
              /\ log'[Primary(p)'].owner = log[Primary(p)].owner
<1>1. /\ log \in Seq(Version) /\ applied \in 0..Len(log)
      /\ cache \in [Products -> 0..applied]
  BY DEF CatalogInv, TypeOK
<1>2. /\ Len(log) \in Nat /\ Len(log') = Len(log) + 1 /\ log'[Len(log) + 1] = v
      /\ DOMAIN log = 1..Len(log) /\ DOMAIN log' = 1..Len(log) \cup {Len(log) + 1}
      /\ \A i \in 1..Len(log) : log'[i] = log[i]
      /\ log' \in Seq(Version)
  BY <1>1
<1>3. Len(log') <= MaxLog /\ applied \in 0..Len(log')
  BY <1>1, <1>2, BoundAssumption
<1>4. CachedRowIsReal'
  <2> SUFFICES ASSUME NEW p \in Products, cache[p] # 0
               PROVE  /\ cache[p] <= applied /\ log'[cache[p]].product = p
                      /\ log'[cache[p]].active
    BY DEF CachedRowIsReal
  <2>1. cache[p] \in 1..Len(log)
    BY <1>1
  <2> QED
    BY <1>2, <2>1 DEF CatalogInv, CachedRowIsReal
<1>5. \A j \in 1..Len(log) : log[j].product = v.product =>
        Primary(v.product) \in 1..Len(log) /\ j <= Primary(v.product)
        /\ log[Primary(v.product)].product = v.product
  <2>1. Len(log) \in 0..Len(log)
    BY <1>2
  <2>2. /\ Primary(v.product) \in 0..Len(log)
        /\ Primary(v.product) # 0 => log[Primary(v.product)].product = v.product
        /\ \A j \in 1..Len(log) : log[j].product = v.product => j <= Primary(v.product)
    BY <1>1, <2>1, LatestFacts DEF Primary
  <2> QED
    BY <1>2, <2>2
<1>6. NeverResurrected'
  <2> SUFFICES ASSUME NEW i \in DOMAIN log', NEW j \in DOMAIN log', i < j,
                      log'[i].product = log'[j].product, ~log'[i].active
               PROVE  ~log'[j].active
    BY DEF NeverResurrected
  <2>1. i \in 1..Len(log)
    BY <1>2
  <2>2. CASE j \in 1..Len(log)
    BY <1>2, <2>1, <2>2 DEF CatalogInv, NeverResurrected
  <2>3. CASE j = Len(log) + 1
    <3>1. log[i].product = v.product /\ ~log[i].active
      BY <1>2, <2>1, <2>3
    <3>2. /\ Primary(v.product) \in 1..Len(log) /\ i <= Primary(v.product)
          /\ log[Primary(v.product)].product = v.product
      BY <1>5, <2>1, <3>1
    <3>3. ~log[Primary(v.product)].active
      BY <1>2, <2>1, <3>1, <3>2 DEF CatalogInv, NeverResurrected
    <3> QED
      BY <1>2, <2>3, <3>2, <3>3
  <2> QED
    BY <1>2, <2>2, <2>3
<1>7. ASSUME NEW i \in 1..Len(log), log[i].product = v.product
      PROVE  log[i].owner = v.owner
  <2>1. /\ Primary(v.product) \in 1..Len(log)
        /\ log[Primary(v.product)].product = v.product
    BY <1>5, <1>7
  <2>2. log[i].owner = log[Primary(v.product)].owner
    BY <1>2, <1>7, <2>1 DEF CatalogInv, OwnerIsConstant
  <2> QED
    BY <2>1, <2>2
<1>8. \A i, j \in DOMAIN log' :
        log'[i].product = log'[j].product => log'[i].owner = log'[j].owner
  BY <1>2, <1>7 DEF CatalogInv, OwnerIsConstant
<1>9. ASSUME NEW p \in Products, Primary(p) # 0
      PROVE  Primary(p)' # 0 /\ log'[Primary(p)'].owner = log[Primary(p)].owner
  <2>1. Primary(p)' = IF v.product = p THEN Len(log) + 1 ELSE Primary(p)
    BY <1>1, PrimaryAppend
  <2>2. Primary(p) \in 1..Len(log)
    BY <1>1, <1>2, <1>9, LatestFacts DEF Primary
  <2> QED
    BY <1>2, <1>9, <2>1, <2>2
<1>10. ListingIsSnapshot'
  <2> SUFFICES ASSUME listing # NoListing PROVE IsSnapshot(listing)'
    BY DEF ListingIsSnapshot
  <2>1. IsSnapshot(listing)
    BY DEF CatalogInv, ListingIsSnapshot
  <2> QED
    BY <1>1, <2>1, ActiveRowsAppend DEF IsSnapshot
<1> QED
  BY <1>2, <1>3, <1>4, <1>6, <1>8, <1>9, <1>10

\* The GETs in flight do not notice a write.
LEMMA WriteKeepsReaders ==
  ASSUME CatalogInv, NEW v \in Version, log' = Append(log, v),
         UNCHANGED <<applied, reader>>
  PROVE  ReadersHoldRealRows'
<1>1. log \in Seq(Version) /\ applied \in 0..Len(log)
  BY DEF CatalogInv, TypeOK
<1>2. \A n \in 0..applied : ActiveRows(n)' = ActiveRows(n)
  BY <1>1, ActiveRowsAppend
<1> SUFFICES ASSUME NEW r \in Readers
             PROVE  /\ reader[r].step = "fetched" =>
                         /\ log'[reader[r].row].product = reader[r].product
                         /\ log'[reader[r].row].active
                    /\ reader[r].step = "counting" =>
                         \E n \in 0..applied : reader[r].rows = ActiveRows(n)'
                    /\ reader[r].step = "listed" => IsSnapshot(reader[r].list)'
  BY DEF ReadersHoldRealRows
<1>3. CASE reader[r].step = "fetched"
  <2>1. reader[r].row \in 1..Len(log)
    BY <1>1, <1>3 DEF CatalogInv, TypeOK, Idle
  <2>2. log'[reader[r].row] = log[reader[r].row]
    BY <1>1, <2>1
  <2> QED
    BY <1>3, <2>2 DEF CatalogInv, ReadersHoldRealRows
<1>4. CASE reader[r].step = "counting"
  BY <1>2, <1>4 DEF CatalogInv, ReadersHoldRealRows
<1>5. CASE reader[r].step = "listed"
  <2>1. IsSnapshot(reader[r].list)
    BY <1>5 DEF CatalogInv, ReadersHoldRealRows
  <2> QED
    BY <1>1, <1>2, <1>5, <2>1 DEF IsSnapshot
<1> QED
  BY <1>3, <1>4, <1>5

\* Replication, expiry and requests that only read leave log, cache and listing
\* as they are, or empty them.
LEMMA LogUnchanged ==
  ASSUME CatalogInv, UNCHANGED log, applied' \in applied..Len(log)
  PROVE  /\ NeverResurrected'
         /\ \A p \in Products : Primary(p)' = Primary(p)
         /\ \A n \in 0..applied : ActiveRows(n)' = ActiveRows(n)
         /\ \A list : IsSnapshot(list) =>
              \E n \in 0..applied' :
                /\ list.rows = ActiveRows(n)'
                /\ \E m \in n..applied' : list.total = Cardinality(ActiveRows(m)')
<1>1. NeverResurrected'
  BY DEF CatalogInv, NeverResurrected
<1>2. \A p, n : Latest(p, n)' = Latest(p, n)
  BY DEF Latest, Versions
<1>3. \A p \in Products : Primary(p)' = Primary(p)
  BY <1>2 DEF Primary
<1>4. \A n : ActiveRows(n)' = ActiveRows(n)
  BY <1>2 DEF ActiveRows, Active
<1>5. applied \in Nat /\ applied' \in Nat /\ applied <= applied'
  BY DEF CatalogInv, TypeOK
<1>6. ASSUME NEW list, IsSnapshot(list)
      PROVE  \E n \in 0..applied' :
               /\ list.rows = ActiveRows(n)'
               /\ \E m \in n..applied' : list.total = Cardinality(ActiveRows(m)')
  <2>1. PICK n \in 0..applied :
          /\ list.rows = ActiveRows(n)
          /\ \E m \in n..applied : list.total = Cardinality(ActiveRows(m))
    BY <1>6 DEF IsSnapshot
  <2>2. PICK m \in n..applied : list.total = Cardinality(ActiveRows(m))
    BY <2>1
  <2>3. n \in 0..applied' /\ m \in n..applied'
    BY <1>5
  <2> QED
    BY <1>4, <2>1, <2>2, <2>3
<1> QED
  BY <1>1, <1>3, <1>4, <1>6

\* A step of a GET that changes neither the cache nor the listing.
LEMMA GetKeepsRest ==
  ASSUME CatalogInv, UNCHANGED <<log, applied, cache, writer, excused>>
  PROVE  CachedRowIsReal' /\ StaleOnlyInWindow' /\ NeverResurrected' /\ OwnerIsConstant'
<1>1. applied' \in applied..Len(log)
  BY DEF CatalogInv, TypeOK
<1>2. NeverResurrected' /\ \A p \in Products : Primary(p)' = Primary(p)
  BY <1>1, LogUnchanged
<1>3. CachedRowIsReal'
  BY DEF CatalogInv, CachedRowIsReal
<1>4. StaleOnlyInWindow'
  BY <1>2 DEF CatalogInv, StaleOnlyInWindow
<1>5. ASSUME NEW w \in Writers PROVE OwnerKnown(w)'
  <2>1. writer[w] # Idle => writer[w].product \in Products
    BY DEF CatalogInv, TypeOK
  <2> QED
    BY <1>2, <2>1 DEF CatalogInv, OwnerIsConstant, OwnerKnown
<1>6. OwnerIsConstant'
  BY <1>5 DEF CatalogInv, OwnerIsConstant
<1> QED
  BY <1>2, <1>3, <1>4, <1>6

\* The rows other GETs hold, and the listing, stay real while the replica moves on.
LEMMA HeldRowsKept ==
  ASSUME CatalogInv, UNCHANGED log, applied' \in applied..Len(log),
         NEW r \in Readers, reader'[r] = reader[r]
  PROVE  /\ reader'[r].step = "fetched" =>
              /\ log'[reader'[r].row].product = reader'[r].product
              /\ log'[reader'[r].row].active
         /\ reader'[r].step = "counting" =>
              \E n \in 0..applied' : reader'[r].rows = ActiveRows(n)'
         /\ reader'[r].step = "listed" => IsSnapshot(reader[r].list)'
<1>1. applied \in Nat /\ applied' \in Nat /\ applied <= applied'
  BY DEF CatalogInv, TypeOK
<1>2. ASSUME reader[r].step = "counting"
      PROVE  \E n \in 0..applied' : reader[r].rows = ActiveRows(n)'
  <2>1. PICK n \in 0..applied : reader[r].rows = ActiveRows(n)
    BY <1>2 DEF CatalogInv, ReadersHoldRealRows
  <2>2. n \in 0..applied' /\ ActiveRows(n)' = ActiveRows(n)
    BY <1>1, LogUnchanged
  <2> QED
    BY <2>1, <2>2
<1>3. ASSUME reader[r].step = "listed" PROVE IsSnapshot(reader[r].list)'
  <2>1. PICK list : list = reader[r].list
    OBVIOUS
  <2>2. IsSnapshot(list)
    BY <1>3, <2>1 DEF CatalogInv, ReadersHoldRealRows
  <2>3. \E n \in 0..applied' :
           /\ list.rows = ActiveRows(n)'
           /\ \E m \in n..applied' : list.total = Cardinality(ActiveRows(m)')
    BY <2>2, LogUnchanged
  <2>4. reader'[r].list = list
    BY <2>1
  <2> QED
    BY <2>3, <2>4 DEF IsSnapshot
<1> QED
  BY <1>2, <1>3 DEF CatalogInv, ReadersHoldRealRows

\* How OwnerKnown is established for the product and seller of a request.
LEMMA OwnerKnownStep ==
  ASSUME NEW w \in Writers, NEW p, NEW s,
         writer'[w].product = p, writer'[w].seller = s,
         Primary(p)' # 0, log'[Primary(p)'].owner = s
  PROVE  OwnerKnown(w)'
BY DEF OwnerKnown

\* A committed write keeps the invariant if its request knows the product's
\* owner, brings back no deleted product, and announces that the entry is stale.
LEMMA WritePreserves ==
  ASSUME CatalogInv, TypeOK', NEW v \in Version, log' = Append(log, v), Len(log) < MaxLog,
         UNCHANGED <<applied, cache, listing, reader>>,
         Primary(v.product) # 0 =>
           /\ v.owner = log[Primary(v.product)].owner
           /\ v.active => log[Primary(v.product)].active,
         excused \subseteq excused',
         \A w \in Writers : writer'[w] # Idle =>
           \/ writer'[w] = writer[w]
           \/ writer'[w].product = v.product /\ writer'[w].seller = v.owner,
         \A w \in Writers : writer[w].step = "applied" => writer'[w] = writer[w],
         \/ cache[v.product] = 0
         \/ v.product \in excused'
         \/ \E w \in Writers : writer'[w].step = "applied" /\ writer'[w].product = v.product
  PROVE  CatalogInv'
<1>1. log \in Seq(Version) /\ v.product \in Products
  BY DEF CatalogInv, TypeOK, Version
<1>2. /\ CachedRowIsReal' /\ NeverResurrected' /\ ListingIsSnapshot'
      /\ \A i, j \in DOMAIN log' :
           log'[i].product = log'[j].product => log'[i].owner = log'[j].owner
      /\ \A p \in Products : Primary(p) # 0 =>
           /\ Primary(p)' # 0
           /\ log'[Primary(p)'].owner = log[Primary(p)].owner
  BY WriteKeepsLog
<1>3. \A p \in Products : Primary(p)' = IF v.product = p THEN Len(log) + 1 ELSE Primary(p)
  BY <1>1, PrimaryAppend
<1>4. ReadersHoldRealRows'
  BY WriteKeepsReaders
<1>5. StaleOnlyInWindow'
  <2> SUFFICES ASSUME NEW p \in Products, cache[p] \notin {0, Primary(p)'}
               PROVE  \/ p \in excused'
                      \/ \E w \in Writers : writer'[w].step = "applied" /\ writer'[w].product = p
    BY DEF StaleOnlyInWindow
  <2>1. CASE p # v.product
    <3>1. cache[p] \notin {0, Primary(p)}
      BY <1>3, <2>1
    <3> QED
      BY <3>1 DEF CatalogInv, StaleOnlyInWindow
  <2> QED
    BY <2>1
<1>6. ASSUME NEW w \in Writers PROVE OwnerKnown(w)'
  <2>1. CASE writer'[w] = Idle
    BY <2>1 DEF OwnerKnown
  <2>2. CASE writer'[w] # Idle /\ writer'[w] = writer[w]
    <3>1. PICK p \in Products, s \in Sellers : writer[w].product = p /\ writer[w].seller = s
      BY <2>2 DEF CatalogInv, TypeOK
    <3>2. Primary(p) # 0 /\ log[Primary(p)].owner = s
      BY <2>2, <3>1 DEF CatalogInv, OwnerIsConstant, OwnerKnown
    <3>3. Primary(p)' # 0 /\ log'[Primary(p)'].owner = s
      BY <1>2, <3>2
    <3>4. writer'[w].product = p /\ writer'[w].seller = s
      BY <2>2, <3>1
    <3> QED
      BY <3>3, <3>4, OwnerKnownStep
  <2>3. CASE writer'[w].product = v.product /\ writer'[w].seller = v.owner
    <3>1. Primary(v.product)' = Len(log) + 1 /\ log'[Len(log) + 1] = v /\ Len(log) + 1 # 0
      BY <1>1, <1>3
    <3> QED
      BY <2>3, <3>1, OwnerKnownStep
  <2> QED
    BY <2>1, <2>2, <2>3
<1>7. OwnerIsConstant'
  BY <1>2, <1>6 DEF OwnerIsConstant
<1> QED
  BY <1>2, <1>4, <1>5, <1>7 DEF CatalogInv

THEOREM CatalogInvStep == CatalogInv /\ [Next]_vars => CatalogInv'
<1> SUFFICES ASSUME CatalogInv, [Next]_vars PROVE CatalogInv'
  OBVIOUS
<1>t. TypeOK
  BY DEF CatalogInv
<1>n. /\ log \in Seq(Version) /\ Len(log) \in Nat /\ applied \in 0..Len(log)
      /\ Len(log) \in 0..Len(log) /\ applied \in Nat
  BY <1>t DEF TypeOK
<1>r. \A p \in Products :
        /\ Replica(p) \in 0..applied
        /\ Replica(p) # 0 => log[Replica(p)].product = p
        /\ Primary(p) \in 0..Len(log)
        /\ Primary(p) # 0 => log[Primary(p)].product = p
        /\ \A j \in 1..Len(log) : log[j].product = p => j <= Primary(p)
  BY <1>n, LatestFacts DEF Replica, Primary
<1>a. \A i \in 0..Len(log) : Active(i) \in BOOLEAN
  BY <1>n DEF Active, Version
\* The cached listing through a step that moves neither it nor the log.
<1>k. ASSUME UNCHANGED <<log, listing>>, applied' \in applied..Len(log)
      PROVE  ListingIsSnapshot'
  <2> SUFFICES ASSUME listing # NoListing PROVE IsSnapshot(listing)'
    BY <1>k DEF ListingIsSnapshot, NoListing
  <2>1. PICK list : list = listing
    OBVIOUS
  <2>2. IsSnapshot(list)
    BY <2>1 DEF CatalogInv, ListingIsSnapshot
  <2>3. \E n \in 0..applied' :
           /\ list.rows = ActiveRows(n)'
           /\ \E m \in n..applied' : list.total = Cardinality(ActiveRows(m)')
    BY <1>k, <2>2, LogUnchanged
  <2> QED
    BY <1>k, <2>1, <2>3 DEF IsSnapshot
\* Requests a step does not touch.
<1>q. ASSUME UNCHANGED <<log, reader>>, applied' \in applied..Len(log)
      PROVE  ReadersHoldRealRows'
  BY <1>q, HeldRowsKept DEF ReadersHoldRealRows
<1>x. ASSUME UNCHANGED log, \A q \in Products : Primary(q)' = Primary(q),
             NEW x \in Writers, writer'[x] = writer[x]
      PROVE  OwnerKnown(x)'
  <2>1. writer[x] # Idle => writer[x].product \in Products
    BY <1>t DEF TypeOK
  <2> QED
    BY <1>x, <2>1 DEF CatalogInv, OwnerIsConstant, OwnerKnown
<1>w. ASSUME UNCHANGED <<log, writer>>, \A q \in Products : Primary(q)' = Primary(q)
      PROVE  OwnerIsConstant'
  BY <1>w, <1>x DEF CatalogInv, OwnerIsConstant
<1>1. ASSUME NEW r \in Readers, CacheMiss(r) PROVE CatalogInv'
  <2>1. UNCHANGED <<log, applied, cache, listing, writer, excused>>
    BY <1>1 DEF CacheMiss
  <2>2. PICK p \in Products :
          reader' = [reader EXCEPT ![r] = [step |-> "missed", product |-> p]]
    BY <1>1, <1>r, <1>a DEF CacheMiss
  <2>5. TypeOK'
    BY <1>1, <1>t, <1>n, <1>r, <2>1, <2>2 DEF CacheMiss, TypeOK, Idle
  <2>6. ASSUME NEW s \in Readers
        PROVE  /\ reader'[s].step = "fetched" =>
                    /\ log'[reader'[s].row].product = reader'[s].product
                    /\ log'[reader'[s].row].active
               /\ reader'[s].step = "counting" =>
                    \E n \in 0..applied' : reader'[s].rows = ActiveRows(n)'
               /\ reader'[s].step = "listed" => IsSnapshot(reader[s].list)'
    <3>1. CASE s = r
      BY <1>1, <1>t, <1>n, <1>r, <2>1, <3>1, <2>2 DEF CacheMiss, TypeOK, Idle
    <3>2. CASE s # r
      <4>1. reader'[s] = reader[s]
        BY <1>1, <1>t, <3>2 DEF CacheMiss, TypeOK
      <4> QED
        BY <1>n, <2>1, <4>1, HeldRowsKept
    <3> QED
      BY <3>1, <3>2
  <2>7. ListingIsSnapshot'
    BY <1>k, <1>n, <2>1
  <2> QED
    BY <2>1, <2>5, <2>6, <2>7, GetKeepsRest DEF CatalogInv, ReadersHoldRealRows
<1>2. ASSUME NEW r \in Readers, FetchProduct(r) PROVE CatalogInv'
  <2>1. UNCHANGED <<log, applied, cache, listing, writer, excused>>
    BY <1>2 DEF FetchProduct
  <2>2. /\ reader[r].product \in Products
        /\ Replica(reader[r].product) \in 1..applied
        /\ log[Replica(reader[r].product)].product = reader[r].product
        /\ log[Replica(reader[r].product)].active
    BY <1>2, <1>t, <1>n, <1>r DEF FetchProduct, TypeOK, Idle, Active
  <2>5. TypeOK'
    BY <1>2, <1>t, <1>n, <1>r, <2>1, <2>2 DEF FetchProduct, TypeOK, Idle
  <2>6. ASSUME NEW s \in Readers
        PROVE  /\ reader'[s].step = "fetched" =>
                    /\ log'[reader'[s].row].product = reader'[s].product
                    /\ log'[reader'[s].row].active
               /\ reader'[s].step = "counting" =>
                    \E n \in 0..applied' : reader'[s].rows = ActiveRows(n)'
               /\ reader'[s].step = "listed" => IsSnapshot(reader[s].list)'
    <3>1. CASE s = r
      BY <1>2, <1>t, <1>n, <1>r, <2>1, <3>1, <2>2 DEF FetchProduct, TypeOK, Idle
    <3>2. CASE s # r
      <4>1. reader'[s] = reader[s]
        BY <1>2, <1>t, <3>2 DEF FetchProduct, TypeOK
      <4> QED
        BY <1>n, <2>1, <4>1, HeldRowsKept
    <3> QED
      BY <3>1, <3>2
  <2>7. ListingIsSnapshot'
    BY <1>k, <1>n, <2>1
  <2> QED
    BY <2>1, <2>5, <2>6, <2>7, GetKeepsRest DEF CatalogInv, ReadersHoldRealRows
<1>3. ASSUME NEW r \in Readers, AnswerNotFound(r) PROVE CatalogInv'
  <2>1. UNCHANGED <<log, applied, cache, listing, writer, excused>>
    BY <1>3 DEF AnswerNotFound
  <2>5. TypeOK'
    BY <1>3, <1>t, <1>n, <1>r, <2>1 DEF AnswerNotFound, TypeOK, Idle
  <2>6. ASSUME NEW s \in Readers
        PROVE  /\ reader'[s].step = "fetched" =>
                    /\ log'[reader'[s].row].product = reader'[s].product
                    /\ log'[reader'[s].row].active
               /\ reader'[s].step = "counting" =>
                    \E n \in 0..applied' : reader'[s].rows = ActiveRows(n)'
               /\ reader'[s].step = "listed" => IsSnapshot(reader[s].list)'
    <3>1. CASE s = r
      BY <1>3, <1>t, <1>n, <1>r, <2>1, <3>1 DEF AnswerNotFound, TypeOK, Idle
    <3>2. CASE s # r
      <4>1. reader'[s] = reader[s]
        BY <1>3, <1>t, <3>2 DEF AnswerNotFound, TypeOK
      <4> QED
        BY <1>n, <2>1, <4>1, HeldRowsKept
    <3> QED
      BY <3>1, <3>2
  <2>7. ListingIsSnapshot'
    BY <1>k, <1>n, <2>1
  <2> QED
    BY <2>1, <2>5, <2>6, <2>7, GetKeepsRest DEF CatalogInv, ReadersHoldRealRows
<1>4. ASSUME NEW r \in Readers, ListingMiss(r) PROVE CatalogInv'
  <2>1. UNCHANGED <<log, applied, cache, listing, writer, excused>>
    BY <1>4 DEF ListingMiss
  <2>5. TypeOK'
    BY <1>4, <1>t, <1>n, <1>r, <2>1 DEF ListingMiss, TypeOK, Idle
  <2>6. ASSUME NEW s \in Readers
        PROVE  /\ reader'[s].step = "fetched" =>
                    /\ log'[reader'[s].row].product = reader'[s].product
                    /\ log'[reader'[s].row].active
               /\ reader'[s].step = "counting" =>
                    \E n \in 0..applied' : reader'[s].rows = ActiveRows(n)'
               /\ reader'[s].step = "listed" => IsSnapshot(reader[s].list)'
    <3>1. CASE s = r
      BY <1>4, <1>t, <1>n, <1>r, <2>1, <3>1 DEF ListingMiss, TypeOK, Idle
    <3>2. CASE s # r
      <4>1. reader'[s] = reader[s]
        BY <1>4, <1>t, <3>2 DEF ListingMiss, TypeOK
      <4> QED
        BY <1>n, <2>1, <4>1, HeldRowsKept
    <3> QED
      BY <3>1, <3>2
  <2>7. ListingIsSnapshot'
    BY <1>k, <1>n, <2>1
  <2> QED
    BY <2>1, <2>5, <2>6, <2>7, GetKeepsRest DEF CatalogInv, ReadersHoldRealRows
<1>5. ASSUME NEW r \in Readers, ReadRows(r) PROVE CatalogInv'
  <2>1. UNCHANGED <<log, applied, cache, listing, writer, excused>>
    BY <1>5 DEF ReadRows
  <2>2. ActiveRows(applied) \in SUBSET (1..applied)
    BY <1>n, <1>t, LatestFacts DEF ActiveRows, Active
  <2>3. applied \in 0..applied /\ ActiveRows(applied)' = ActiveRows(applied)
    <3>1. applied \in 0..applied /\ applied' \in applied..Len(log) /\ log' = log
      BY <1>n, <2>1
    <3> QED
      BY <2>1, <3>1, LogUnchanged DEF ActiveRows
  <2>5. TypeOK'
    BY <1>5, <1>t, <1>n, <1>r, <2>1, <2>2, <2>3 DEF ReadRows, TypeOK, Idle
  <2>6. ASSUME NEW s \in Readers
        PROVE  /\ reader'[s].step = "fetched" =>
                    /\ log'[reader'[s].row].product = reader'[s].product
                    /\ log'[reader'[s].row].active
               /\ reader'[s].step = "counting" =>
                    \E n \in 0..applied' : reader'[s].rows = ActiveRows(n)'
               /\ reader'[s].step = "listed" => IsSnapshot(reader[s].list)'
    <3>1. CASE s = r
      BY <1>5, <1>t, <1>n, <1>r, <2>1, <3>1, <2>2, <2>3 DEF ReadRows, TypeOK, Idle
    <3>2. CASE s # r
      <4>1. reader'[s] = reader[s]
        BY <1>5, <1>t, <3>2 DEF ReadRows, TypeOK
      <4> QED
        BY <1>n, <2>1, <4>1, HeldRowsKept
    <3> QED
      BY <3>1, <3>2
  <2>7. ListingIsSnapshot'
    BY <1>k, <1>n, <2>1
  <2> QED
    BY <2>1, <2>5, <2>6, <2>7, GetKeepsRest DEF CatalogInv, ReadersHoldRealRows
<1>6. ASSUME NEW r \in Readers, CountRows(r) PROVE CatalogInv'
  <2>1. UNCHANGED <<log, applied, cache, listing, writer, excused>>
    BY <1>6 DEF CountRows
  <2>2. PICK rows \in SUBSET (1..applied) :
          /\ reader[r].rows = rows
          /\ \E n \in 0..applied : rows = ActiveRows(n)
    BY <1>6, <1>t DEF CountRows, TypeOK, Idle, CatalogInv, ReadersHoldRealRows
  <2>3. PICK list \in Listings :
          /\ list = [rows |-> rows, total |-> Cardinality(ActiveRows(applied))]
          /\ reader' = [reader EXCEPT ![r] = [step |-> "listed", list |-> list]]
    <3>1. ActiveRows(applied) \in SUBSET (1..applied)
      BY <1>n, <1>t, LatestFacts DEF ActiveRows, Active
    <3>2. IsFiniteSet(ActiveRows(applied))
      <4>1. 1 \in Int /\ applied \in Int
        BY <1>n
      <4>2. IsFiniteSet(1..applied)
        BY <4>1, FS_Interval
      <4> QED
        BY <3>1, <4>2, FS_Subset
    <3>3. Cardinality(ActiveRows(applied)) \in Int
      BY <3>2, FS_CardinalityType
    <3>4. rows \in SUBSET (1..MaxLog)
      BY <1>t, <1>n, BoundAssumption DEF TypeOK
    <3> QED
      BY <1>6, <2>2, <3>3, <3>4 DEF CountRows, Listings
  <2>4. IsSnapshot(list)'
    <3>1. IsSnapshot(list)
      BY <1>n, <2>2, <2>3 DEF IsSnapshot
    <3>2. applied' \in applied..Len(log) /\ log' = log
      BY <1>n, <2>1
    <3>3. \E n \in 0..applied' :
             /\ list.rows = ActiveRows(n)'
             /\ \E m \in n..applied' : list.total = Cardinality(ActiveRows(m)')
      BY <3>1, <3>2, LogUnchanged
    <3> QED
      BY <3>3 DEF IsSnapshot
  <2>5. TypeOK'
    BY <1>6, <1>t, <1>n, <1>r, <2>1, <2>2, <2>3, <2>4 DEF CountRows, TypeOK, Idle
  <2>6. ASSUME NEW s \in Readers
        PROVE  /\ reader'[s].step = "fetched" =>
                    /\ log'[reader'[s].row].product = reader'[s].product
                    /\ log'[reader'[s].row].active
               /\ reader'[s].step = "counting" =>
                    \E n \in 0..applied' : reader'[s].rows = ActiveRows(n)'
               /\ reader'[s].step = "listed" => IsSnapshot(reader[s].list)'
    <3>1. CASE s = r
      BY <1>6, <1>t, <1>n, <1>r, <2>1, <3>1, <2>2, <2>3, <2>4 DEF CountRows, TypeOK, Idle
    <3>2. CASE s # r
      <4>1. reader'[s] = reader[s]
        BY <1>6, <1>t, <3>2 DEF CountRows, TypeOK
      <4> QED
        BY <1>n, <2>1, <4>1, HeldRowsKept
    <3> QED
      BY <3>1, <3>2
  <2>7. ListingIsSnapshot'
    BY <1>k, <1>n, <2>1
  <2> QED
    BY <2>1, <2>5, <2>6, <2>7, GetKeepsRest DEF CatalogInv, ReadersHoldRealRows
<1>7. ASSUME NEW r \in Readers, FillCache(r) PROVE CatalogInv'
  <2>1. /\ UNCHANGED <<log, applied, listing, writer>>
        /\ reader' = [reader EXCEPT ![r] = Idle]
        /\ reader[r].step = "fetched"
    BY <1>7 DEF FillCache
  <2>2. PICK p \in Products, i \in 1..applied :
          /\ log[i].product = p /\ log[i].active
          /\ cache' = [cache EXCEPT ![p] = i]
          /\ excused' = IF i = Primary(p) THEN excused \ {p} ELSE excused \cup {p}
    <3>1. reader[r].product \in Products /\ reader[r].row \in 1..applied
      BY <1>t, <2>1 DEF TypeOK, Idle
    <3>2. log[reader[r].row].product = reader[r].product /\ log[reader[r].row].active
      BY <2>1 DEF CatalogInv, ReadersHoldRealRows
    <3> QED
      BY <1>7, <3>1, <3>2 DEF FillCache
  <2>3. TypeOK'
    BY <1>t, <1>n, <2>1, <2>2 DEF TypeOK
  <2>4. ASSUME NEW s \in Readers
        PROVE  /\ reader'[s].step = "fetched" =>
                    /\ log'[reader'[s].row].product = reader'[s].product
                    /\ log'[reader'[s].row].active
               /\ reader'[s].step = "counting" =>
                    \E n \in 0..applied' : reader'[s].rows = ActiveRows(n)'
               /\ reader'[s].step = "listed" => IsSnapshot(reader[s].list)'
    <3>1. CASE s = r
      BY <1>t, <2>1, <3>1 DEF TypeOK, Idle
    <3>2. CASE s # r
      <4>1. reader'[s] = reader[s]
        BY <1>t, <2>1, <3>2 DEF TypeOK
      <4> QED
        BY <1>n, <2>1, <4>1, HeldRowsKept
    <3> QED
      BY <3>1, <3>2
  <2>5. NeverResurrected' /\ ListingIsSnapshot' /\ \A q \in Products : Primary(q)' = Primary(q)
    BY <1>n, <1>k, <2>1, LogUnchanged
  <2>6. CachedRowIsReal'
    BY <1>t, <1>n, <2>1, <2>2 DEF CatalogInv, CachedRowIsReal, TypeOK
  <2>7. StaleOnlyInWindow'
    <3> SUFFICES ASSUME NEW q \in Products, cache'[q] \notin {0, Primary(q)}
                 PROVE  \/ q \in excused'
                        \/ \E w \in Writers : writer[w].step = "applied" /\ writer[w].product = q
      BY <2>1, <2>5 DEF StaleOnlyInWindow
    <3>1. CASE q = p
      BY <1>t, <2>2, <3>1 DEF TypeOK
    <3>2. CASE q # p
      BY <1>t, <2>2, <3>2 DEF TypeOK, CatalogInv, StaleOnlyInWindow
    <3> QED
      BY <3>1, <3>2
  <2>8. OwnerIsConstant'
    BY <1>w, <2>1, <2>5
  <2> QED
    BY <2>1, <2>3, <2>4, <2>5, <2>6, <2>7, <2>8 DEF CatalogInv, ReadersHoldRealRows
<1>8. ASSUME NEW r \in Readers, FillListing(r) PROVE CatalogInv'
  <2>1. /\ UNCHANGED <<log, applied, cache, writer, excused>>
        /\ reader' = [reader EXCEPT ![r] = Idle]
        /\ reader[r].step = "listed" /\ listing' = reader[r].list
    BY <1>8 DEF FillListing
  <2>2. listing' \in Listings
    BY <1>t, <2>1 DEF TypeOK, Idle
  <2>3. TypeOK'
    BY <1>t, <2>1, <2>2 DEF TypeOK
  <2>4. ASSUME NEW s \in Readers
        PROVE  /\ reader'[s].step = "fetched" =>
                    /\ log'[reader'[s].row].product = reader'[s].product
                    /\ log'[reader'[s].row].active
               /\ reader'[s].step = "counting" =>
                    \E n \in 0..applied' : reader'[s].rows = ActiveRows(n)'
               /\ reader'[s].step = "listed" => IsSnapshot(reader[s].list)'
    <3>1. CASE s = r
      BY <1>t, <2>1, <3>1 DEF TypeOK, Idle
    <3>2. CASE s # r
      <4>1. reader'[s] = reader[s]
        BY <1>t, <2>1, <3>2 DEF TypeOK
      <4> QED
        BY <1>n, <2>1, <4>1, HeldRowsKept
    <3> QED
      BY <3>1, <3>2
  <2>5. ListingIsSnapshot'
    <3>1. PICK list : list = reader[r].list
      OBVIOUS
    <3>2. IsSnapshot(list)
      BY <2>1, <3>1 DEF CatalogInv, ReadersHoldRealRows
    <3>3. \E n \in 0..applied' :
             /\ list.rows = ActiveRows(n)'
             /\ \E m \in n..applied' : list.total = Cardinality(ActiveRows(m)')
      BY <1>n, <2>1, <3>2, LogUnchanged
    <3>4. listing' = list
      BY <2>1, <3>1
    <3> QED
      BY <3>3, <3>4 DEF ListingIsSnapshot, IsSnapshot
  <2> QED
    BY <2>1, <2>3, <2>4, <2>5, GetKeepsRest DEF CatalogInv, ReadersHoldRealRows
<1>9. CASE CreateProduct
  <2>1. PICK p \in Products, s \in Sellers :
          /\ Primary(p) = 0
          /\ Commit([product |-> p, owner |-> s, active |-> TRUE])
    BY <1>9 DEF CreateProduct
  <2>2. PICK v \in Version : v = [product |-> p, owner |-> s, active |-> TRUE]
    BY DEF Version
  <2>3. /\ log' = Append(log, v) /\ Len(log) < MaxLog
        /\ UNCHANGED <<applied, cache, listing, reader, writer, excused>>
    BY <1>9, <2>1, <2>2 DEF CreateProduct, Commit
  <2>4. cache[p] = 0
    <3>1. cache[p] # 0 => cache[p] \in 1..Len(log) /\ log[cache[p]].product = p
      BY <1>t, <1>n DEF TypeOK, CatalogInv, CachedRowIsReal
    <3> QED
      BY <1>r, <2>1, <3>1
  <2>5. TypeOK'
    BY <1>t, <1>n, <2>3, BoundAssumption DEF TypeOK
  <2> QED
    BY <2>1, <2>2, <2>3, <2>4, <2>5, WritePreserves
<1>10. CASE SellUnit
  <2>1. PICK p \in Products :
          /\ Primary(p) # 0
          /\ Commit(log[Primary(p)])
          /\ excused' = IF cache[p] # 0 THEN excused \cup {p} ELSE excused
    BY <1>10 DEF SellUnit
  <2>2. PICK v \in Version : v = log[Primary(p)]
    BY <1>n, <1>r, <2>1
  <2>3. /\ log' = Append(log, v) /\ Len(log) < MaxLog /\ v.product = p
        /\ UNCHANGED <<applied, cache, listing, reader, writer>>
    BY <1>10, <1>r, <2>1, <2>2 DEF SellUnit, Commit
  <2>4. TypeOK'
    BY <1>t, <1>n, <2>1, <2>3, BoundAssumption DEF TypeOK
  <2> QED
    BY <2>1, <2>2, <2>3, <2>4, WritePreserves
<1>11. ASSUME NEW w \in Writers, WriteRow(w) PROVE CatalogInv'
  <2>1. PICK p \in Products, s \in Sellers, kind \in {"update", "delete"} :
          writer[w] = [step |-> "checked", product |-> p, seller |-> s, kind |-> kind]
    BY <1>11, <1>t DEF WriteRow, TypeOK, Idle
  <2>2. Primary(p) # 0 /\ log[Primary(p)].owner = s
    BY <2>1 DEF CatalogInv, OwnerIsConstant, OwnerKnown, Idle
  <2>3. log[Primary(p)] \in Version /\ log[Primary(p)].product = p
    BY <1>n, <1>r, <2>2
  <2>4. PICK v \in Version :
          /\ v.product = p /\ v.owner = s /\ (v.active => log[Primary(p)].active)
          /\ log' = Append(log, v) /\ Len(log) < MaxLog
    <3>1. PICK row \in Version : row = log[Primary(p)]
      BY <2>3
    <3>2. PICK active \in BOOLEAN : active = (row.active /\ kind = "update")
      BY <3>1 DEF Version
    <3>3. PICK v : v = [row EXCEPT !.active = active]
      OBVIOUS
    <3>4. v \in Version /\ v.product = p /\ v.owner = s /\ (v.active => row.active)
      BY <2>2, <2>3, <3>1, <3>2, <3>3 DEF Version
    <3>5. log' = Append(log, v) /\ Len(log) < MaxLog
      BY <1>11, <2>1, <3>1, <3>2, <3>3 DEF WriteRow, Commit
    <3> QED
      BY <3>1, <3>4, <3>5
  <2>5. /\ UNCHANGED <<applied, cache, listing, reader, excused>>
        /\ writer' = [writer EXCEPT ![w] =
             [step |-> "applied", product |-> p, seller |-> s, kind |-> kind]]
    <3>1. writer' = [writer EXCEPT ![w] = [writer[w] EXCEPT !.step = "applied"]]
      BY <1>11 DEF WriteRow
    <3>2. [writer[w] EXCEPT !.step = "applied"] =
            [step |-> "applied", product |-> p, seller |-> s, kind |-> kind]
      BY <2>1
    <3> QED
      BY <1>11, <3>1, <3>2 DEF WriteRow
  <2>6. TypeOK'
    BY <1>t, <1>n, <2>4, <2>5, BoundAssumption DEF TypeOK
  <2>7. writer'[w] = [step |-> "applied", product |-> p, seller |-> s, kind |-> kind]
        /\ \A x \in Writers \ {w} : writer'[x] = writer[x]
    BY <1>t, <2>5 DEF TypeOK
  <2>8. \A x \in Writers : writer[x].step = "applied" => writer'[x] = writer[x]
    BY <2>1, <2>7
  <2> QED
    BY <2>2, <2>3, <2>4, <2>5, <2>6, <2>7, <2>8, WritePreserves
<1>12. ASSUME NEW w \in Writers, CheckOwner(w) PROVE CatalogInv'
  <2>1. /\ UNCHANGED <<log, applied, cache, listing, reader, excused>>
        /\ writer[w] = Idle
    BY <1>12 DEF CheckOwner
  <2>2. PICK p \in Products, s \in Sellers, kind \in {"update", "delete"} :
          /\ Replica(p) # 0 /\ log[Replica(p)].owner = s
          /\ writer' = [writer EXCEPT ![w] =
               [step |-> "checked", product |-> p, seller |-> s, kind |-> kind]]
    BY <1>12 DEF CheckOwner
  <2>3. TypeOK'
    BY <1>t, <2>1, <2>2 DEF TypeOK
  <2>4. /\ NeverResurrected' /\ ListingIsSnapshot'
        /\ \A q \in Products : Primary(q)' = Primary(q)
    BY <1>n, <1>k, <2>1, LogUnchanged
  <2>5. Primary(p) # 0 /\ log[Primary(p)].owner = s
    <3>1. Replica(p) \in 1..Len(log) /\ log[Replica(p)].product = p
      BY <1>n, <1>r, <2>2
    <3>2. Primary(p) \in 1..Len(log) /\ log[Primary(p)].product = p
      BY <1>n, <1>r, <3>1
    <3> QED
      BY <1>n, <2>2, <3>1, <3>2 DEF CatalogInv, OwnerIsConstant
  <2>6. /\ writer'[w] = [step |-> "checked", product |-> p, seller |-> s, kind |-> kind]
        /\ \A x \in Writers \ {w} : writer'[x] = writer[x]
    BY <1>t, <2>2 DEF TypeOK
  <2>7. OwnerIsConstant'
    <3>1. OwnerKnown(w)'
      BY <2>1, <2>4, <2>5, <2>6, OwnerKnownStep
    <3>2. ASSUME NEW x \in Writers, x # w PROVE OwnerKnown(x)'
      BY <1>x, <2>1, <2>4, <2>6, <3>2
    <3> QED
      BY <2>1, <3>1, <3>2 DEF CatalogInv, OwnerIsConstant
  <2>8. CachedRowIsReal' /\ StaleOnlyInWindow'
    <3>1. \A x \in Writers : writer[x].step = "applied" => writer'[x] = writer[x]
      BY <2>1, <2>6 DEF Idle
    <3> QED
      BY <2>1, <2>4, <3>1 DEF CatalogInv, CachedRowIsReal, StaleOnlyInWindow
  <2>9. ReadersHoldRealRows'
    BY <1>n, <1>q, <2>1
  <2> QED
    BY <2>3, <2>4, <2>7, <2>8, <2>9 DEF CatalogInv
<1>13. ASSUME NEW w \in Writers, DeleteEntry(w) \/ WriterDies(w) PROVE CatalogInv'
  <2>1. /\ UNCHANGED <<log, applied, listing, reader>>
        /\ writer' = [writer EXCEPT ![w] = Idle]
    BY <1>13 DEF DeleteEntry, WriterDies
  <2>2. PICK p \in Products :
          /\ writer[w].product = p
          /\ \/ cache' = [cache EXCEPT ![p] = 0] /\ excused' = excused \ {p}
             \/ /\ cache' = cache
                /\ excused \subseteq excused' /\ excused' \subseteq Products
                /\ writer[w].step = "applied" /\ cache[p] # 0 => p \in excused'
    BY <1>13, <1>t DEF DeleteEntry, WriterDies, TypeOK, Idle
  <2>3. TypeOK'
    <3>1. cache' \in [Products -> 0..applied]
      BY <1>t, <1>n, <2>2 DEF TypeOK
    <3>2. writer' \in [Writers ->
             {Idle} \cup [step : {"checked", "applied"}, product : Products,
                          seller : Sellers, kind : {"update", "delete"}]]
      BY <1>t, <2>1 DEF TypeOK
    <3>3. excused' \subseteq Products
      BY <1>t, <2>2 DEF TypeOK
    <3> QED
      BY <1>t, <2>1, <3>1, <3>2, <3>3 DEF TypeOK
  <2>4. /\ NeverResurrected' /\ ListingIsSnapshot'
        /\ \A q \in Products : Primary(q)' = Primary(q)
    BY <1>n, <1>k, <2>1, LogUnchanged
  <2>5. writer'[w] = Idle /\ \A x \in Writers \ {w} : writer'[x] = writer[x]
    BY <1>t, <2>1 DEF TypeOK
  <2>6. OwnerIsConstant'
    <3>1. OwnerKnown(w)'
      BY <2>5 DEF OwnerKnown
    <3>2. ASSUME NEW x \in Writers, x # w PROVE OwnerKnown(x)'
      BY <1>x, <2>1, <2>4, <2>5, <3>2
    <3> QED
      BY <2>1, <3>1, <3>2 DEF CatalogInv, OwnerIsConstant
  <2>7. \A q \in Products : cache'[q] = 0 \/ cache'[q] = cache[q]
    BY <1>t, <2>2 DEF TypeOK
  <2>8. CachedRowIsReal'
    BY <2>1, <2>7 DEF CatalogInv, CachedRowIsReal
  <2>9. StaleOnlyInWindow'
    <3> SUFFICES ASSUME NEW q \in Products, cache'[q] \notin {0, Primary(q)}
                 PROVE  \/ q \in excused'
                        \/ \E x \in Writers : writer'[x].step = "applied" /\ writer'[x].product = q
      BY <2>4 DEF StaleOnlyInWindow
    <3>1. cache'[q] = cache[q]
      BY <2>7
    <3>2. CASE q \in excused
      BY <1>t, <2>2, <3>1, <3>2 DEF TypeOK
    <3>3. ASSUME NEW x \in Writers, writer[x].step = "applied", writer[x].product = q
          PROVE  \/ q \in excused'
                 \/ \E y \in Writers : writer'[y].step = "applied" /\ writer'[y].product = q
      <4>1. CASE x # w
        BY <2>5, <3>3, <4>1
      <4>2. CASE x = w
        BY <1>t, <2>2, <3>1, <3>3, <4>2 DEF TypeOK
      <4> QED
        BY <4>1, <4>2
    <3> QED
      BY <3>1, <3>2, <3>3 DEF CatalogInv, StaleOnlyInWindow
  <2>10. ReadersHoldRealRows'
    BY <1>n, <1>q, <2>1
  <2> QED
    BY <2>3, <2>4, <2>6, <2>8, <2>9, <2>10 DEF CatalogInv
<1>14. CASE Replicate
  <2>1. /\ UNCHANGED <<log, cache, listing, reader, writer, excused>>
        /\ applied' = applied + 1 /\ applied < Len(log)
    BY <1>14 DEF Replicate
  <2>2. applied' \in applied..Len(log) /\ applied' \in 0..Len(log)
    BY <1>n, <2>1
  <2>3. TypeOK'
    <3>1. 0..applied \subseteq 0..applied' /\ 1..applied \subseteq 1..applied'
      BY <1>n, <2>1
    <3>2. cache \in [Products -> 0..applied']
      BY <1>t, <3>1 DEF TypeOK
    <3>3. reader \in [Readers ->
             {Idle} \cup [step : {"missed"}, product : Products]
                    \cup [step : {"fetched"}, product : Products, row : 1..applied']
                    \cup [step : {"listing"}]
                    \cup [step : {"counting"}, rows : SUBSET (1..applied')]
                    \cup [step : {"listed"}, list : Listings]]
      BY <1>t, <3>1 DEF TypeOK
    <3> QED
      BY <1>t, <2>1, <2>2, <3>2, <3>3 DEF TypeOK
  <2>4. /\ NeverResurrected' /\ ListingIsSnapshot'
        /\ \A q \in Products : Primary(q)' = Primary(q)
    BY <1>k, <2>1, <2>2, LogUnchanged
  <2>5. CachedRowIsReal'
    BY <1>t, <1>n, <2>1 DEF CatalogInv, CachedRowIsReal, TypeOK
  <2>6. StaleOnlyInWindow'
    BY <2>1, <2>4 DEF CatalogInv, StaleOnlyInWindow
  <2>7. OwnerIsConstant'
    BY <1>w, <2>1, <2>4
  <2>8. ReadersHoldRealRows'
    BY <1>q, <2>1, <2>2
  <2> QED
    BY <2>3, <2>4, <2>5, <2>6, <2>7, <2>8 DEF CatalogInv
<1>15. ASSUME NEW p \in Products, ExpireEntry(p) PROVE CatalogInv'
  <2>1. /\ UNCHANGED <<log, applied, listing, reader, writer>>
        /\ cache' = [cache EXCEPT ![p] = 0] /\ excused' = excused \ {p}
    BY <1>15 DEF ExpireEntry
  <2>2. TypeOK'
    BY <1>t, <1>n, <2>1 DEF TypeOK
  <2>3. /\ NeverResurrected' /\ ListingIsSnapshot'
        /\ \A q \in Products : Primary(q)' = Primary(q)
    BY <1>n, <1>k, <2>1, LogUnchanged
  <2>4. CachedRowIsReal'
    BY <1>t, <2>1 DEF CatalogInv, CachedRowIsReal, TypeOK
  <2>5. StaleOnlyInWindow'
    BY <1>t, <2>1, <2>3 DEF CatalogInv, StaleOnlyInWindow, TypeOK
  <2>6. OwnerIsConstant' /\ ReadersHoldRealRows'
    BY <1>n, <1>w, <1>q, <2>1, <2>3
  <2> QED
    BY <2>2, <2>3, <2>4, <2>5, <2>6 DEF CatalogInv
<1>16. CASE ExpireListing \/ UNCHANGED vars
  <2>1. /\ UNCHANGED <<log, applied, cache, reader, writer, excused>>
        /\ listing' \in {listing, NoListing}
    BY <1>16 DEF ExpireListing, vars
  <2>2. TypeOK'
    BY <1>t, <2>1 DEF TypeOK, Listings, NoListing
  <2>3. ListingIsSnapshot'
    <3>1. CASE listing' = listing
      BY <1>n, <1>k, <2>1, <3>1
    <3>2. CASE listing' = NoListing
      BY <3>2 DEF ListingIsSnapshot, NoListing
    <3> QED
      BY <2>1, <3>1, <3>2
  <2>4. ReadersHoldRealRows'
    BY <1>n, <1>q, <2>1
  <2> QED
    BY <2>1, <2>2, <2>3, <2>4, GetKeepsRest DEF CatalogInv
<1> QED
  BY <1>1, <1>2, <1>3, <1>4, <1>5, <1>6, <1>7, <1>8, <1>9, <1>10, <1>11, <1>12,
     <1>13, <1>14, <1>15, <1>16 DEF Next, Read, Write

\* The invariant holds throughout every behaviour of the catalogue.
THEOREM CatalogInvariant == Spec => []CatalogInv
<1> QED
  BY CatalogInvInit, CatalogInvStep, PTL DEF Spec

\* What a page serves was a version of that product, on sale and at the replica.
THEOREM CachedRows == Spec => []CachedRowIsReal
<1>1. CatalogInv => CachedRowIsReal
  BY DEF CatalogInv
<1> QED
  BY <1>1, CatalogInvariant, PTL

\* A page that differs from the primary has a known window to blame.
THEOREM StalePages == Spec => []StaleOnlyInWindow
<1>1. CatalogInv => StaleOnlyInWindow
  BY DEF CatalogInv
<1> QED
  BY <1>1, CatalogInvariant, PTL

\* A product taken off the market is never put back by an overlapping update.
THEOREM Resurrection == Spec => []NeverResurrected
<1>1. CatalogInv => NeverResurrected
  BY DEF CatalogInv
<1> QED
  BY <1>1, CatalogInvariant, PTL

\* The owner that a request has checked at the replica owns the product for ever.
THEOREM Owners == Spec => []OwnerIsConstant
<1>1. CatalogInv => OwnerIsConstant
  BY DEF CatalogInv
<1> QED
  BY <1>1, CatalogInvariant, PTL

\* A cached listing shows the products of one moment.
THEOREM Snapshots == Spec => []ListingIsSnapshot
<1>1. CatalogInv => ListingIsSnapshot
  BY DEF CatalogInv
<1> QED
  BY <1>1, CatalogInvariant, PTL
=============================================================================
