----------------------------- MODULE Shop_proofs ------------------------------
(***************************************************************************)
(* Proofs about what is for sale and what was sold: PriceList and Shop,    *)
(* for any suppliers, countries, products, costs, prices, switches and     *)
(* orders.                                                                 *)
(***************************************************************************)
EXTENDS Shop, PriceList, FiniteNumbers

-----------------------------------------------------------------------------
(* PriceList: while a sweep that nothing disturbed is on its way, the codes *)
(* whose first key it has passed agree with 5SIM's list.                   *)

FirstKey(c) == CHOOSE k \in CountryKeys : /\ IsoOf[k] = c
                                          /\ \A l \in CountryKeys : IsoOf[l] = c => ~Sorts(l, k)

\* The keys are in an order, and each code has a key that is first of its keys.
LEMMA KeysInOrder ==
    ASSUME PriceListConstants, NEW i \in DOMAIN KeyOrder, NEW j \in DOMAIN KeyOrder
    PROVE  Sorts(KeyOrder[i], KeyOrder[j]) <=> i < j
BY DEF PriceListConstants, Sorts

LEMMA FirstKeyIs ==
    ASSUME PriceListConstants, NEW c \in Isos
    PROVE  /\ FirstKey(c) \in CountryKeys /\ IsoOf[FirstKey(c)] = c
           /\ \A l \in CountryKeys : IsoOf[l] = c => l = FirstKey(c) \/ Sorts(FirstKey(c), l)
           /\ \A l \in CountryKeys : IsoOf[l] = c => ~Sorts(l, FirstKey(c))
<1> DEFINE T == {i \in DOMAIN KeyOrder : IsoOf[KeyOrder[i]] = c}
<1>1. T \subseteq Nat /\ T # {}
  BY DEF PriceListConstants, Isos, CountryKeys
<1>2. PICK m \in T : \A i \in T : m <= i
  <2> HIDE DEF T
  <2> QED
    BY <1>1, LeastNatural
<1>3. KeyOrder[m] \in CountryKeys /\ IsoOf[KeyOrder[m]] = c
  BY DEF CountryKeys
<1>4. \A l \in CountryKeys : IsoOf[l] = c => \E i \in T : l = KeyOrder[i]
  BY DEF CountryKeys
<1>5. ASSUME NEW l \in CountryKeys, IsoOf[l] = c PROVE ~Sorts(l, KeyOrder[m])
  <2>1. PICK i \in T : l = KeyOrder[i]
    BY <1>4, <1>5
  <2>2. m <= i /\ m \in Nat /\ i \in Nat
    BY <1>1, <1>2
  <2> QED
    BY <2>1, <2>2, KeysInOrder
<1>6. /\ FirstKey(c) \in CountryKeys /\ IsoOf[FirstKey(c)] = c
      /\ \A l \in CountryKeys : IsoOf[l] = c => ~Sorts(l, FirstKey(c))
  BY <1>3, <1>5 DEF FirstKey
<1>7. ASSUME NEW l \in CountryKeys, IsoOf[l] = c PROVE l = FirstKey(c) \/ Sorts(FirstKey(c), l)
  <2>1. PICK i \in T, j \in T : l = KeyOrder[i] /\ FirstKey(c) = KeyOrder[j]
    BY <1>4, <1>6, <1>7
  <2>2. ~(i < j)
    BY <1>6, <1>7, <2>1, KeysInOrder
  <2>3. i = j \/ j < i
    BY <1>1, <2>2
  <2> QED
    BY <2>1, <2>3, KeysInOrder
<1> QED
  BY <1>6, <1>7

-----------------------------------------------------------------------------
PriceRow == [price : Int, cost : Int, stock : {0, 1}]

Agrees(c) ==
    /\ holder[c] = FirstKey(c)
    /\ \A p \in Apps : listing[FirstKey(c)][p] # Unlisted =>
          /\ price[c][p].cost = listing[FirstKey(c)][p].cost
          /\ price[c][p].stock = listing[FirstKey(c)][p].qty

\* The sweep is past this code's first key.
Passed(c) == \E i \in DOMAIN KeyOrder : i < visit.at /\ KeyOrder[i] = FirstKey(c)

HoldersClaim == \A c \in Isos : holder[c] = NoHolder \/ (holder[c] \in CountryKeys /\ IsoOf[holder[c]] = c)

WithinFivePercent ==
    dollars => \A c \in Isos, p \in Apps :
        price[c][p] # NoPrice =>
            \/ price[c][p].price = SalePrice(price[c][p].cost)
            \/ Near(price[c][p].price, SalePrice(price[c][p].cost))

Visits == [pc : {"rest", "country", "read", "write"}, at : DOMAIN KeyOrder, rows : [Apps -> Listing]]

PriceInv ==
    /\ visit \in Visits
    /\ listing \in [CountryKeys -> [Apps -> Listing]]
    /\ holder \in [Isos -> CountryKeys \cup {NoHolder}]
    /\ DOMAIN price = Isos /\ \A c \in Isos : DOMAIN price[c] = Apps
    /\ HoldersClaim
    /\ visit.pc \in {"read", "write"} => holder[IsoOf[Key]] = Key
    /\ visit.pc = "write" /\ (clean \/ mirrored) => visit.rows = listing[Key]
    /\ mirrored => \A c \in Isos : Agrees(c)
    /\ clean /\ visit.pc # "rest" => \A c \in Isos : Passed(c) => Agrees(c)
    /\ WithinFivePercent

LEMMA NoVisitType == ASSUME PriceListConstants PROVE NoVisit \in Visits /\ NoVisit.pc = "rest"
BY DEF PriceListConstants, NoVisit, Visits, Listing, Unlisted

LEMMA PriceStarts == ASSUME PriceListConstants, PriceListInit PROVE PriceInv
<1>1. \A c \in Isos : \A p \in Apps : price[c][p] = NoPrice
  BY DEF PriceListInit
<1>2. WithinFivePercent
  BY <1>1 DEF WithinFivePercent
<1>3. holder \in [Isos -> CountryKeys \cup {NoHolder}] /\ HoldersClaim
  <2>1. /\ holder \in [Isos -> CountryKeys \cup {NoHolder}]
        /\ \A c \in Isos : holder[c] = NoHolder \/ IsoOf[holder[c]] = c
    BY DEF PriceListInit
  <2> QED
    BY <2>1 DEF HoldersClaim
<1>4. DOMAIN price = Isos /\ \A c \in Isos : DOMAIN price[c] = Apps
  BY DEF PriceListInit
<1>5. visit = NoVisit /\ listing = StartList /\ ~clean /\ ~mirrored
  BY DEF PriceListInit
<1> QED
  BY <1>2, <1>3, <1>4, <1>5, NoVisitType DEF PriceListConstants, PriceInv

\* A code's first key always sells under it; once it does, no other takes over.
LEMMA FirstWins ==
    ASSUME PriceListConstants, PriceInv, NEW c \in Isos, NEW k \in CountryKeys, IsoOf[k] = c
    PROVE  /\ k = FirstKey(c) => Wins(k)
           /\ holder[c] = FirstKey(c) /\ Wins(k) => k = FirstKey(c)
BY FirstKeyIs DEF Wins, PriceInv, HoldersClaim, PriceListConstants

\* On to the next key: what the sweep passes agrees.
LEMMA NextCountryKeeps ==
    ASSUME PriceListConstants, PriceInv, visit.pc # "rest",
           NEW sofar \in {clean, FALSE}, NextCountry(sofar),
           UNCHANGED <<dollars, listing>>,
           holder' \in [Isos -> CountryKeys \cup {NoHolder}], HoldersClaim',
           DOMAIN price' = Isos, \A c \in Isos : DOMAIN price'[c] = Apps, WithinFivePercent',
           \A c \in Isos : (clean \/ mirrored) /\ Agrees(c) => Agrees(c)',
           \A c \in Isos : sofar /\ Key = FirstKey(c) => Agrees(c)'
    PROVE  PriceInv'
<1>1. PICK n \in Nat \ {0} : Len(KeyOrder) = n /\ DOMAIN KeyOrder = 1..n
  BY DEF PriceListConstants
<1>2. visit.at \in 1..n /\ visit \in Visits
  BY <1>1 DEF PriceInv, Visits
<1>3. ASSUME NEW c \in Isos, sofar,
             \E i \in DOMAIN KeyOrder : i <= visit.at /\ KeyOrder[i] = FirstKey(c)
      PROVE  Agrees(c)'
  <2>1. PICK i \in DOMAIN KeyOrder : i <= visit.at /\ KeyOrder[i] = FirstKey(c)
    BY <1>3
  <2>2. CASE i = visit.at
    BY <1>3, <2>1, <2>2 DEF Key
  <2>3. CASE i # visit.at
    <3>1. Passed(c)
      BY <1>1, <1>2, <2>1, <2>3 DEF Passed
    <3> QED
      BY <1>3, <3>1 DEF PriceInv
  <2> QED
    BY <2>2, <2>3
<1>4. CASE visit.at = Len(KeyOrder)
  <2>1. visit' = NoVisit /\ clean' = sofar /\ mirrored' = sofar
    BY <1>4 DEF NextCountry
  <2>2. ASSUME sofar, NEW c \in Isos PROVE Agrees(c)'
    <3>1. PICK i \in DOMAIN KeyOrder : KeyOrder[i] = FirstKey(c)
      BY FirstKeyIs DEF CountryKeys
    <3> QED
      BY <1>1, <1>3, <1>4, <2>2, <3>1
  <2> QED
    BY <2>1, <2>2, NoVisitType DEF PriceInv
<1>5. CASE visit.at # Len(KeyOrder)
  <2>1. PICK next : next = [NoVisit EXCEPT !.pc = "country", !.at = visit.at + 1]
    OBVIOUS
  <2>2. next \in Visits /\ next.pc = "country" /\ next.at = visit.at + 1
    <3>1. visit.at + 1 \in DOMAIN KeyOrder
      BY <1>1, <1>2, <1>5
    <3>2. NoVisit.rows \in [Apps -> Listing]
      BY NoVisitType DEF Visits
    <3>3. next = [pc |-> "country", at |-> visit.at + 1, rows |-> NoVisit.rows]
      BY <2>1 DEF NoVisit
    <3> QED
      BY <3>1, <3>2, <3>3 DEF Visits
  <2>3. visit' = next /\ clean' = sofar /\ mirrored' = mirrored
    BY <1>5, <2>1 DEF NextCountry
  <2>4. ASSUME clean', NEW c \in Isos, Passed(c)' PROVE Agrees(c)'
    <3>1. PICK i \in DOMAIN KeyOrder : i < next.at /\ KeyOrder[i] = FirstKey(c)
      BY <2>3, <2>4 DEF Passed
    <3>2. i <= visit.at
      BY <1>1, <1>2, <2>2, <3>1
    <3> QED
      BY <1>3, <2>3, <2>4, <3>1, <3>2
  <2>5. mirrored' => \A c \in Isos : Agrees(c)'
    BY <2>3 DEF PriceInv
  <2> QED
    BY <2>2, <2>3, <2>4, <2>5 DEF PriceInv
<1> QED
  BY <1>4, <1>5

LEMMA ListingMoveKeeps == ASSUME PriceListConstants, PriceInv, ListingMoves PROVE PriceInv'
<1>1. listing' \in [CountryKeys -> [Apps -> Listing]]
  <2>1. PICK k \in CountryKeys, p \in Apps, row \in Listing : listing' = [listing EXCEPT ![k][p] = row]
    BY DEF ListingMoves
  <2> QED
    BY <2>1 DEF PriceInv
<1> QED
  BY <1>1 DEF ListingMoves, PriceInv, HoldersClaim, WithinFivePercent, Key

LEMMA BeginCatalogueKeeps == ASSUME PriceListConstants, PriceInv, BeginCatalogue PROVE PriceInv'
<1>1. PICK first : first = [NoVisit EXCEPT !.pc = "country"]
  OBVIOUS
<1>2. first \in Visits /\ first.pc = "country" /\ first.at = 1
  BY <1>1, NoVisitType DEF Visits, NoVisit
<1>3. /\ visit' = first
      /\ UNCHANGED <<dollars, listing, holder, price, mirrored>>
  BY <1>1 DEF BeginCatalogue
<1>4. \A c \in Isos : ~Passed(c)'
  BY <1>2, <1>3 DEF Passed, PriceListConstants
<1>5. \A c \in Isos : Agrees(c)' <=> Agrees(c)
  BY <1>3 DEF Agrees
<1> HIDE DEF Passed, Agrees
<1> QED
  BY <1>2, <1>3, <1>4, <1>5 DEF PriceInv, HoldersClaim, WithinFivePercent

\* Whoever wins its code keeps what agrees as it is.
LEMMA UpsertCountryKeeps == ASSUME PriceListConstants, PriceInv, UpsertCountry PROVE PriceInv'
<1>1. Key \in CountryKeys /\ visit \in Visits /\ visit.at \in DOMAIN KeyOrder
  BY DEF PriceInv, Visits, Key, CountryKeys
<1>2. PICK k \in CountryKeys, code \in Isos : k = Key /\ code = IsoOf[k]
  BY <1>1 DEF PriceListConstants
<1>3. visit.pc = "country" /\ UNCHANGED <<dollars, listing, price>>
  BY DEF UpsertCountry
<1>4. CASE Wins(k)
  <2>1. PICK read : read = [visit EXCEPT !.pc = "read"]
    OBVIOUS
  <2>2. read \in Visits /\ read.pc = "read" /\ read.at = visit.at
    BY <1>1, <2>1 DEF Visits
  <2>3. /\ visit' = read
        /\ holder' = [holder EXCEPT ![code] = k]
        /\ UNCHANGED <<clean, mirrored>>
    BY <1>2, <1>4, <2>1 DEF UpsertCountry
  <2>4. \A c \in Isos : Agrees(c) => Agrees(c)'
    <3> SUFFICES ASSUME NEW c \in Isos, Agrees(c) PROVE Agrees(c)'
      OBVIOUS
    <3>1. holder'[c] = FirstKey(c)
      <4>1. CASE c = code
        BY <1>2, <1>4, <2>3, <4>1, FirstWins DEF Agrees, PriceInv
      <4>2. CASE c # code
        BY <2>3, <4>2 DEF Agrees, PriceInv
      <4> QED
        BY <4>1, <4>2
    <3> QED
      BY <1>3, <3>1 DEF Agrees
  <2>5. \A c \in Isos : Passed(c)' <=> Passed(c)
    BY <2>2, <2>3 DEF Passed
  <2>6. Key' = k
    BY <1>2, <2>2, <2>3 DEF Key
  <2>7. holder' \in [Isos -> CountryKeys \cup {NoHolder}] /\ HoldersClaim' /\ holder'[code] = k
    BY <1>2, <2>3 DEF PriceInv, HoldersClaim
  <2>8. WithinFivePercent'
    BY <1>3 DEF PriceInv, WithinFivePercent
  <2> HIDE DEF Passed, Agrees
  <2> QED
    BY <1>2, <1>3, <2>2, <2>3, <2>4, <2>5, <2>6, <2>7, <2>8 DEF PriceInv
<1>5. CASE ~Wins(k)
  <2>1. NextCountry(clean) /\ UNCHANGED holder
    BY <1>2, <1>5 DEF UpsertCountry
  <2>2. \A c \in Isos : k = FirstKey(c) => Wins(k)
    BY FirstWins, FirstKeyIs
  <2>3. \A c \in Isos : Agrees(c)' <=> Agrees(c)
    BY <1>3, <2>1 DEF Agrees
  <2>4. HoldersClaim' /\ WithinFivePercent'
    BY <1>3, <2>1 DEF PriceInv, HoldersClaim, WithinFivePercent
  <2>5. /\ holder' \in [Isos -> CountryKeys \cup {NoHolder}]
        /\ DOMAIN price' = Isos /\ \A c \in Isos : DOMAIN price'[c] = Apps
    BY <1>3, <2>1 DEF PriceInv
  <2> QED
    BY <1>2, <1>3, <1>5, <2>1, <2>2, <2>3, <2>4, <2>5, NextCountryKeeps
<1> QED
  BY <1>4, <1>5

LEMMA ReadKeeps ==
    ASSUME PriceListConstants, PriceInv, ReadCountry \/ ReadFails
    PROVE  PriceInv'
<1>1. Key \in CountryKeys /\ visit \in Visits /\ visit.at \in DOMAIN KeyOrder
  BY DEF PriceInv, Visits, Key, CountryKeys
<1>2. PICK k \in CountryKeys, code \in Isos : k = Key /\ code = IsoOf[k]
  BY <1>1 DEF PriceListConstants
<1>3. visit.pc = "read" /\ UNCHANGED <<dollars, listing, price, holder>>
  BY DEF ReadCountry, ReadFails
<1>4. \A c \in Isos : Agrees(c)' <=> Agrees(c)
  BY <1>3 DEF Agrees
<1>5. HoldersClaim' /\ WithinFivePercent'
  BY <1>3 DEF PriceInv, HoldersClaim, WithinFivePercent
<1>6. /\ holder' \in [Isos -> CountryKeys \cup {NoHolder}]
      /\ DOMAIN price' = Isos /\ \A c \in Isos : DOMAIN price'[c] = Apps
  BY <1>3 DEF PriceInv
<1>7. CASE NextCountry(FALSE)
  BY <1>3, <1>4, <1>5, <1>6, <1>7, NextCountryKeeps
<1>8. CASE NextCountry(clean) /\ \A p \in Apps : listing[Key][p] = Unlisted
  <2>1. ASSUME NEW c \in Isos, Key = FirstKey(c) PROVE Agrees(c)'
    <3>1. holder[c] = FirstKey(c)
      BY <1>3, <2>1, FirstKeyIs DEF PriceInv
    <3> QED
      BY <1>3, <1>8, <2>1, <3>1 DEF Agrees
  <2> QED
    BY <1>3, <1>4, <1>5, <1>6, <1>8, <2>1, NextCountryKeeps
<1>9. CASE visit' = [visit EXCEPT !.pc = "write", !.rows = listing[Key]] /\ UNCHANGED <<clean, mirrored>>
  <2>1. PICK write : write = [visit EXCEPT !.pc = "write", !.rows = listing[Key]]
    OBVIOUS
  <2>2. write = [pc |-> "write", at |-> visit.at, rows |-> listing[k]]
    BY <1>1, <1>2, <2>1 DEF Visits
  <2>3. write \in Visits /\ write.at = visit.at /\ write.rows = listing[k]
    BY <1>1, <2>2 DEF Visits, PriceInv
  <2>4. \A c \in Isos : Passed(c)' <=> Passed(c)
    BY <1>9, <2>1, <2>3 DEF Passed
  <2>5. Key' = k /\ holder[code] = k
    BY <1>2, <1>3, <1>9, <2>1, <2>3 DEF Key, PriceInv
  <2> HIDE DEF Passed, Agrees
  <2> QED
    BY <1>2, <1>3, <1>4, <1>5, <1>9, <2>1, <2>3, <2>4, <2>5 DEF PriceInv
<1> QED
  BY <1>7, <1>8, <1>9 DEF ReadCountry, ReadFails

\* A row that is written is within the hysteresis of the cost beside it.
LEMMA RepricedIs ==
    ASSUME NEW old, NEW row
    PROVE  /\ Repriced(old, row).cost = row.cost /\ Repriced(old, row).stock = row.qty
           /\ dollars => \/ Repriced(old, row).price = SalePrice(row.cost)
                         \/ Near(Repriced(old, row).price, SalePrice(row.cost))
BY DEF Repriced

LEMMA UpsertPricesKeeps == ASSUME PriceListConstants, PriceInv, UpsertPrices PROVE PriceInv'
<1>1. Key \in CountryKeys /\ visit \in Visits /\ visit.at \in DOMAIN KeyOrder
  BY DEF PriceInv, Visits, Key, CountryKeys
<1>2. PICK k \in CountryKeys, code \in Isos : k = Key /\ code = IsoOf[k]
  BY <1>1 DEF PriceListConstants
<1>3. /\ visit.pc = "write" /\ UNCHANGED <<dollars, listing, holder>> /\ holder[code] = k
      /\ NextCountry(clean)
  BY <1>2 DEF UpsertPrices, PriceInv
<1>4. /\ DOMAIN price' = Isos /\ \A c \in Isos : DOMAIN price'[c] = Apps
      /\ \A c \in Isos : c # code => price'[c] = price[c]
      /\ \A p \in Apps : price'[code][p] = IF visit.rows[p] = Unlisted THEN price[code][p]
                                           ELSE Repriced(price[code][p], visit.rows[p])
  BY <1>2 DEF UpsertPrices, PriceInv
<1>5. WithinFivePercent'
  <2> SUFFICES ASSUME dollars, NEW c \in Isos, NEW p \in Apps, price'[c][p] # NoPrice
               PROVE  \/ price'[c][p].price = SalePrice(price'[c][p].cost)
                      \/ Near(price'[c][p].price, SalePrice(price'[c][p].cost))
    BY <1>3 DEF WithinFivePercent
  <2>1. CASE price'[c][p] = price[c][p]
    BY <2>1 DEF PriceInv, WithinFivePercent
  <2>2. CASE price'[c][p] # price[c][p]
    <3>1. price'[c][p] = Repriced(price[code][p], visit.rows[p])
      BY <1>4, <2>2
    <3> QED
      BY <3>1, RepricedIs
  <2> QED
    BY <2>1, <2>2
<1>6. ASSUME clean \/ mirrored, k = FirstKey(code) PROVE Agrees(code)'
  <2>1. visit.rows = listing[k]
    BY <1>2, <1>3, <1>6 DEF PriceInv
  <2> SUFFICES ASSUME NEW p \in Apps, listing[k][p] # Unlisted
               PROVE  /\ price'[code][p].cost = listing[k][p].cost
                      /\ price'[code][p].stock = listing[k][p].qty
    BY <1>3, <1>6 DEF Agrees
  <2> QED
    BY <1>4, <2>1, RepricedIs
<1>7. ASSUME clean \/ mirrored, NEW c \in Isos, Agrees(c) PROVE Agrees(c)'
  <2>1. CASE c = code
    BY <1>3, <1>6, <1>7, <2>1 DEF Agrees
  <2>2. CASE c # code
    BY <1>3, <1>4, <1>7, <2>2 DEF Agrees
  <2> QED
    BY <2>1, <2>2
<1>8. ASSUME clean, NEW c \in Isos, Key = FirstKey(c) PROVE Agrees(c)'
  <2>1. c = code
    BY <1>2, <1>8, FirstKeyIs
  <2> QED
    BY <1>2, <1>6, <1>8, <2>1
<1>9. holder' \in [Isos -> CountryKeys \cup {NoHolder}] /\ HoldersClaim'
  BY <1>3 DEF PriceInv, HoldersClaim
<1> QED
  BY <1>3, <1>4, <1>5, <1>7, <1>8, <1>9, NextCountryKeeps

LEMMA DropCatalogueKeeps ==
    ASSUME PriceListConstants, PriceInv, DropCatalogue \/ UNCHANGED priceVars
    PROVE  PriceInv'
<1>1. CASE DropCatalogue
  BY <1>1, NoVisitType DEF DropCatalogue, PriceInv, HoldersClaim, WithinFivePercent
<1>2. CASE UNCHANGED priceVars
  BY <1>2 DEF priceVars, PriceInv, HoldersClaim, WithinFivePercent, Passed, Agrees, Key
<1> QED
  BY <1>1, <1>2

LEMMA PriceSteps == ASSUME PriceListConstants, PriceInv, [PriceListNext]_priceVars PROVE PriceInv'
BY ListingMoveKeeps, BeginCatalogueKeeps, UpsertCountryKeeps, ReadKeeps, UpsertPricesKeeps,
   DropCatalogueKeeps DEF PriceListNext

\* For any list of keys, codes and prices, and from whichever key held a code
\* before: a sweep that read everything leaves each code with the first key that
\* claims it, and no price further from its cost than the hysteresis allows
\* (upsert_country, upsert_prices).
THEOREM CatalogueSettles == ASSUME PriceListConstants PROVE PriceListSpec => []CatalogueConverges
<1>1. PriceInv => CatalogueConverges
  BY DEF PriceInv, Agrees, FirstKey, WithinFivePercent, CatalogueConverges
<1> QED
  BY <1>1, PriceStarts, PriceSteps, PTL DEF PriceListSpec

-----------------------------------------------------------------------------
(* Shop: of the numbers sold for an order at most one is neither hidden by  *)
(* a page nor told of, and until it is told the order is not closed.       *)

OrderRow ==
    [status : {"none", "reserved", "awaiting", "review", "failed"},
     offer : Offers \cup {NoOrder.offer}, provider : Providers \cup {"none"},
     pid : (Purchases \X Skus) \cup {NoSku}, open : BOOLEAN, code : BOOLEAN,
     pc : {"idle", "shop", "again", "history", "pin", "assign", "refuse", "unknown", "done", "dead"},
     left : SUBSET Skus, number : (Purchases \X Skus) \cup {NoSku}, asking : Skus \cup {NoSku}]

AccountedIn(n, row, handed, pages) ==
    \/ n \in handed
    \/ row.status = "awaiting" /\ row.pid = n /\ row.provider = Seller[n[2]]
    \/ row.number = n /\ row.pc \in {"pin", "assign"}
    \/ row.status \in {"reserved", "review"} /\ (row.number # n \/ row.pc = "dead")
    \/ n \in pages /\ Family(Seller[n[2]]) = "smspool"
    \/ Seller[n[2]] = "fivesim" /\ row.number # NoSku /\ row.number[1] # n[1]

\* What was sold for an order and not behind a gateway's page.
Mine(o, sales, pages) == {n \in sales : n[1] = o /\ n \notin pages}

FromFiveSim(n) == Seller[n[2]] = "fivesim"

\* The order holds the one number of its own, or another's out of the history.
Holds(o, number, mine) == \/ mine \subseteq {number}
                          \/ number[1] # o /\ \A n \in mine : FromFiveSim(n)

\* What a row says of the numbers that were sold for it.
Owns(o, row, sales, handed, pages) ==
    /\ \A n \in sales : n[1] = o => AccountedIn(n, row, handed, pages)
    /\ row.pc \in {"idle", "shop", "again", "refuse"} => Mine(o, sales, pages) = {}
    /\ row.pc = "history" =>
          \A n, m \in Mine(o, sales, pages) : n = m /\ FromFiveSim(n)
    /\ row.pc \in {"pin", "assign"} =>
          row.number \in sales /\ Holds(o, row.number, Mine(o, sales, pages))
    /\ row.pc \in {"idle", "shop", "again", "history", "refuse", "unknown"} => row.number = NoSku
    /\ row.pc \in {"shop", "again", "history", "refuse", "unknown", "pin", "assign"}
          => row.status \in {"reserved", "review"}
    /\ row.pc \in {"again", "history"} => row.asking \in Skus /\ Seller[row.asking] = "fivesim"
    /\ row.pc = "assign" => row.provider = Seller[row.number[2]]
    /\ row.number # NoSku => row.number \in sales /\ (row.number[1] = o \/ FromFiveSim(row.number))
    /\ row.status = "awaiting" =>
          row.number \in sales /\ row.pid = row.number /\ row.provider = Seller[row.number[2]]

SaleInv ==
    /\ purchase \in [Purchases -> OrderRow]
    /\ sold \subseteq Purchases \X Skus
    /\ back \cup paged \subseteq sold
    /\ \A n \in sold : Seller[n[2]] \in Configured
    /\ \A n \in paged : Family(Seller[n[2]]) = "smspool"
    /\ \A o \in Purchases : Owns(o, purchase[o], sold, back, paged)

\* A sale is heard of, looked up or doubted, unless a gateway's page hides it;
\* nothing else is taken for one, and only 5SIM's history is looked up.
LEMMA SaleIsHeard ==
    ASSUME NEW p, NEW sells \in BOOLEAN, NEW r \in Answers(sells)
    PROVE  /\ sells => Gateway(p, r) \/ BuyOutcome(p, r) \in {"sold", "history", "ambiguous"}
           /\ ~sells => BuyOutcome(p, r) # "sold"
           /\ BuyOutcome(p, r) = "history" => Family(p) = "fivesim"
<1>1. PoolBuy(r) # "history" /\ ActivateBuy(r) # "history"
  <2>1. /\ \A b : PoolFailure(b, r.says) # "history"
        /\ Transport(r) # "history"
    BY DEF PoolFailure, Transport
  <2> QED
    BY <2>1 DEF PoolBuy, ActivateBuy
<1>2. ASSUME sells PROVE Gateway(p, r) \/ BuyOutcome(p, r) \in {"sold", "history", "ambiguous"}
  <2>1. r \in SoldReplies
    BY <1>2 DEF Answers
  <2>2. \/ r.wire = "broken"
        \/ r.wire = "answered" /\ r.class = "2xx" /\ r.says \in {"assigned", "unnamed", "garbled"}
        \/ r.wire = "answered" /\ r.class = "5xx" /\ r.says \in {"garbled", "gateway", "sentence"}
    BY <2>1 DEF SoldReplies, Replies
  <2>3. Purchase(r) \in {"sold", "history", "ambiguous"}
    BY <2>2 DEF Purchase, Transport, Sentences
  <2>4. \A says \in {"garbled", "sentence"} : PoolFailure(TRUE, says) = "ambiguous"
    BY DEF PoolFailure, OutOfStockWords
  <2>5. PoolBuy(r) \in {"sold", "ambiguous"} \/ (r.class = "5xx" /\ r.says = "gateway")
    BY <2>2, <2>4 DEF PoolBuy, Transport
  <2>6. ActivateBuy(r) \in {"sold", "ambiguous"}
    BY <2>2 DEF ActivateBuy, Transport
  <2> QED
    BY <2>3, <2>5, <2>6 DEF BuyOutcome, Gateway, OutOfStockWords, Family
<1>3. ASSUME ~sells PROVE BuyOutcome(p, r) # "sold"
  <2>1. r.says # "assigned"
    BY <1>3 DEF Answers, UnsoldReplies
  <2>2. \A b : PoolFailure(b, r.says) # "sold" /\ FiveSimWords(r.says) # "sold"
    BY DEF PoolFailure, FiveSimWords
  <2>3. Transport(r) # "sold"
    BY DEF Transport
  <2>4. Purchase(r) # "sold"
    BY <2>1, <2>2, <2>3 DEF Purchase
  <2>5. PoolBuy(r) # "sold"
    BY <2>1, <2>2, <2>3 DEF PoolBuy
  <2>6. ActivateBuy(r) # "sold"
    BY <2>1, <2>3 DEF ActivateBuy
  <2> QED
    BY <2>4, <2>5, <2>6 DEF BuyOutcome
<1> QED
  BY <1>1, <1>2, <1>3 DEF BuyOutcome

LEMMA SaleStarts == ASSUME ShopConstants, ShopInit PROVE SaleInv
<1>1. /\ NoOrder \in OrderRow /\ NoOrder.pc = "idle" /\ NoOrder.number = NoSku
      /\ NoOrder.status = "none"
  BY DEF NoOrder, OrderRow
<1> QED
  BY <1>1 DEF ShopInit, SaleInv, Owns, Mine

\* An order's row is written; a number may be sold for it, and one handed back.
LEMMA RowWritten ==
    ASSUME ShopConstants, SaleInv, NEW o \in Purchases, NEW row \in OrderRow, Written(o, row),
           sold \subseteq sold', sold' \subseteq sold \cup ({o} \X Skus),
           back \subseteq back', back' \subseteq sold',
           paged \subseteq paged', paged' \subseteq paged \cup ({o} \X Skus), paged' \subseteq sold',
           \A n \in paged' : Family(Seller[n[2]]) = "smspool",
           \A n \in sold' : Seller[n[2]] \in Configured,
           Owns(o, row, sold', back', paged')
    PROVE  SaleInv'
<1>1. /\ purchase' \in [Purchases -> OrderRow] /\ purchase'[o] = row
      /\ \A p \in Purchases \ {o} : purchase'[p] = purchase[p]
  BY DEF Written, SaleInv
<1>2. sold' \subseteq Purchases \X Skus /\ back' \cup paged' \subseteq sold'
  BY DEF SaleInv
<1>3. ASSUME NEW p \in Purchases \ {o} PROVE Owns(p, purchase[p], sold', back', paged')
  <2>1. \A n \in sold' : n[1] = p => n \in sold
    OBVIOUS
  <2>2. Owns(p, purchase[p], sold, back, paged)
    BY DEF SaleInv
  <2>3. \A n \in paged' : n[1] = p => n \in paged
    OBVIOUS
  <2>4. Mine(p, sold', paged') = Mine(p, sold, paged)
    BY <2>1, <2>3 DEF Mine
  <2>5. \A n \in sold' : n[1] = p => AccountedIn(n, purchase[p], back', paged')
    BY <2>1, <2>2 DEF Owns, AccountedIn
  <2> QED
    BY <2>2, <2>4, <2>5 DEF Owns
<1> QED
  BY <1>1, <1>2, <1>3 DEF SaleInv

LEMMA PlaceKeeps == ASSUME ShopConstants, SaleInv, NEW o \in Purchases, PlaceOrder(o) PROVE SaleInv'
<1>1. PICK f \in Offers : \E first \in Ranked(f) :
         Written(o, [purchase[o] EXCEPT !.status = "reserved", !.offer = f, !.left = Ranked(f),
                                        !.provider = Seller[first], !.pc = "shop"])
  BY DEF PlaceOrder
<1>2. PICK first, left, p :
         /\ first \in Ranked(f) /\ left = Ranked(f) /\ p = Seller[first]
         /\ Written(o, [purchase[o] EXCEPT !.status = "reserved", !.offer = f, !.left = left,
                                           !.provider = p, !.pc = "shop"])
  BY <1>1
<1>9. left \in SUBSET Skus /\ p \in Providers
  BY <1>2 DEF Ranked, ShopConstants
<1>3. purchase[o] \in OrderRow /\ purchase[o].pc = "idle" /\ Owns(o, purchase[o], sold, back, paged)
  BY DEF PlaceOrder, SaleInv
<1>4. purchase[o].number = NoSku
  BY <1>3 DEF Owns
<1>5. PICK row : row = [purchase[o] EXCEPT !.status = "reserved", !.offer = f, !.left = left,
                                           !.provider = p, !.pc = "shop"]
  OBVIOUS
<1>6. row \in OrderRow /\ row.pc = "shop" /\ row.status = "reserved" /\ row.number = NoSku
  BY <1>3, <1>4, <1>5, <1>9 DEF OrderRow
<1>7. UNCHANGED <<sold, back, paged>>
  BY DEF PlaceOrder
<1>10. \A n \in sold : n # NoSku
  BY DEF SaleInv, ShopConstants
<1>11. \A n \in sold : n[1] = o => AccountedIn(n, row, back, paged)
  BY <1>6, <1>10 DEF AccountedIn
<1>8. Owns(o, row, sold, back, paged)
  BY <1>3, <1>6, <1>11 DEF Owns
<1> QED
  BY <1>2, <1>5, <1>6, <1>7, <1>8, RowWritten DEF SaleInv

\* What an answer makes of the order: number n is held, or looked up, or in doubt.
LEMMA AnswerKeeps ==
    ASSUME ShopConstants, SaleInv, NEW o \in Purchases, NEW s \in Skus,
           NEW n \in (Purchases \X Skus) \cup {NoSku},
           NEW rest, NEW outcome, Handle(o, s, n, rest, outcome), rest \subseteq Skus,
           purchase[o].pc \in {"shop", "again", "history"}, back' = back,
           sold \subseteq sold', sold' \subseteq sold \cup ({o} \X Skus),
           paged \subseteq paged', paged' \subseteq paged \cup ({o} \X Skus), paged' \subseteq sold',
           \A m \in paged' : Family(Seller[m[2]]) = "smspool",
           \A m \in sold' : Seller[m[2]] \in Configured,
           outcome = "sold" => /\ n \in sold' /\ (n[1] = o \/ FromFiveSim(n))
                               /\ Holds(o, n, Mine(o, sold', paged')),
           outcome = "history" => /\ Seller[s] = "fivesim"
                                  /\ \A m, l \in Mine(o, sold', paged') : m = l /\ FromFiveSim(m),
           outcome \notin {"sold", "history", "ambiguous"} => Mine(o, sold', paged') = {}
    PROVE  SaleInv'
<1>1. /\ purchase[o] \in OrderRow /\ Owns(o, purchase[o], sold, back, paged)
      /\ purchase[o].number = NoSku /\ purchase[o].status \in {"reserved", "review"}
      /\ back' \subseteq sold'
  BY DEF SaleInv, Owns
<1>2. /\ \A m \in sold' : m # NoSku
      /\ \A m \in sold' : m[1] = o => m \in Mine(o, sold', paged') \/ m \in paged'
  BY DEF SaleInv, ShopConstants, Mine
<1>3. PICK base : base = [purchase[o] EXCEPT !.left = rest, !.asking = NoSku]
  OBVIOUS
<1>4. /\ base \in OrderRow /\ base.number = NoSku /\ base.status \in {"reserved", "review"}
  BY <1>1, <1>3 DEF OrderRow
<1>5. Written(o, CASE outcome = "sold"      -> [base EXCEPT !.pc = "pin", !.number = n, !.left = {}]
                   [] outcome = "history"   -> [base EXCEPT !.pc = "history", !.asking = s]
                   [] TryNext(outcome)      -> [base EXCEPT !.pc = "shop"]
                   [] outcome = "ambiguous" -> [base EXCEPT !.pc = "unknown"]
                   [] OTHER                 -> [base EXCEPT !.pc = "refuse"])
  BY <1>3 DEF Handle
<1>6. CASE outcome = "sold"
  <2>1. PICK row : row = [base EXCEPT !.pc = "pin", !.number = n, !.left = {}]
    OBVIOUS
  <2>2. Written(o, row)
    BY <1>5, <1>6, <2>1 DEF TryNext
  <2>3. /\ row \in OrderRow /\ row.pc = "pin" /\ row.number = n
        /\ row.status \in {"reserved", "review"}
    BY <1>4, <2>1 DEF OrderRow
  <2>4. ASSUME NEW m \in sold', m[1] = o PROVE AccountedIn(m, row, back', paged')
    BY <1>2, <1>6, <2>3, <2>4 DEF AccountedIn, Holds
  <2>5. Owns(o, row, sold', back', paged')
    BY <1>6, <2>3, <2>4 DEF Owns
  <2> QED
    BY <1>1, <2>2, <2>3, <2>5, RowWritten
<1>7. ASSUME NEW row \in OrderRow, Written(o, row), row.number = NoSku,
             row.status \in {"reserved", "review"},
             row.pc \in {"shop", "history", "unknown", "refuse"},
             row.pc = "history" => outcome = "history" /\ row.asking = s,
             row.pc \in {"shop", "refuse"} => outcome \notin {"sold", "history", "ambiguous"}
      PROVE  SaleInv'
  <2>1. \A m \in sold' : m[1] = o => AccountedIn(m, row, back', paged')
    BY <1>2, <1>7 DEF AccountedIn
  <2>2. Owns(o, row, sold', back', paged')
    BY <1>7, <2>1 DEF Owns
  <2> QED
    BY <1>1, <1>7, <2>2, RowWritten
<1>8. CASE outcome = "history"
  <2>1. PICK row : row = [base EXCEPT !.pc = "history", !.asking = s]
    OBVIOUS
  <2>2. Written(o, row)
    BY <1>5, <1>8, <2>1 DEF TryNext
  <2>3. /\ row \in OrderRow /\ row.pc = "history" /\ row.number = NoSku /\ row.asking = s
        /\ row.status \in {"reserved", "review"}
    BY <1>4, <2>1 DEF OrderRow
  <2> QED
    BY <1>7, <1>8, <2>2, <2>3
<1>9. CASE outcome \notin {"sold", "history"}
  <2>1. PICK pc \in {"shop", "unknown", "refuse"} :
           /\ Written(o, [base EXCEPT !.pc = pc])
           /\ pc # "unknown" => outcome # "ambiguous"
    <3>1. CASE TryNext(outcome)
      BY <1>5, <1>9, <3>1 DEF TryNext
    <3>2. CASE outcome = "ambiguous"
      BY <1>5, <3>2 DEF TryNext
    <3>3. CASE ~TryNext(outcome) /\ outcome # "ambiguous"
      BY <1>5, <1>9, <3>3
    <3> QED
      BY <3>1, <3>2, <3>3
  <2>2. PICK row : row = [base EXCEPT !.pc = pc]
    OBVIOUS
  <2>3. /\ row \in OrderRow /\ row.pc = pc /\ row.number = NoSku
        /\ row.status \in {"reserved", "review"}
    BY <1>4, <2>2 DEF OrderRow
  <2> QED
    BY <1>7, <1>9, <2>1, <2>2, <2>3
<1> QED
  BY <1>6, <1>8, <1>9

\* The supplier's answer: what was sold is remembered, or the order is in doubt.
LEMMA AskKeeps ==
    ASSUME ShopConstants, SaleInv, NEW o \in Purchases, NEW s \in Skus, NEW n \in Skus \cup {NoSku},
           NEW again \in BOOLEAN, Ask(o, s, n, again), back' = back,
           purchase[o].pc \in {"shop", "again"},
           Seller[s] \in Configured, n \in Skus => Seller[n] = Seller[s]
    PROVE  SaleInv'
<1>1. /\ purchase[o] \in OrderRow /\ Owns(o, purchase[o], sold, back, paged)
      /\ purchase[o].number = NoSku /\ purchase[o].status \in {"reserved", "review"}
      /\ Mine(o, sold, paged) = {} /\ back \subseteq sold /\ paged \subseteq sold
      /\ \A m \in paged : Family(Seller[m[2]]) = "smspool"
      /\ \A m \in sold : Seller[m[2]] \in Configured
  BY DEF SaleInv, Owns
<1>2. sold' = IF n = NoSku THEN sold ELSE sold \cup {<<o, n>>}
  BY DEF Ask
<1>3. PICK r \in Answers(n # NoSku) :
         /\ paged' = IF n # NoSku /\ Gateway(Seller[s], r) THEN paged \cup {<<o, n>>} ELSE paged
         /\ IF Family(Seller[s]) = "fivesim" /\ ~again /\ AskAny(s \in Named, BuyOutcome(Seller[s], r))
            THEN Written(o, [purchase[o] EXCEPT !.pc = "again", !.asking = s]) /\ UNCHANGED source
            ELSE Handle(o, s, <<o, n>>, purchase[o].left \ {s}, BuyOutcome(Seller[s], r))
  BY DEF Ask
<1>4. PICK outcome : outcome = BuyOutcome(Seller[s], r)
  OBVIOUS
<1>5. /\ n # NoSku => Gateway(Seller[s], r) \/ outcome \in {"sold", "history", "ambiguous"}
      /\ n = NoSku => outcome # "sold"
      /\ outcome = "history" => Family(Seller[s]) = "fivesim"
  BY <1>4, SaleIsHeard
<1>6. Gateway(Seller[s], r) => Family(Seller[s]) = "smspool"
  BY DEF Gateway
<1>7. Family(Seller[s]) = "fivesim" => Seller[s] = "fivesim" /\ ~Gateway(Seller[s], r)
  BY <1>6 DEF Family
<1>8. NoSku \notin Skus
  BY DEF ShopConstants
<1>9. /\ sold \subseteq sold' /\ sold' \subseteq sold \cup ({o} \X Skus)
      /\ paged \subseteq paged' /\ paged' \subseteq paged \cup ({o} \X Skus) /\ paged' \subseteq sold'
      /\ \A m \in sold' : Seller[m[2]] \in Configured
      /\ \A m \in paged' : Family(Seller[m[2]]) = "smspool"
  BY <1>1, <1>2, <1>3, <1>6
<1>10. Mine(o, sold', paged') = IF n = NoSku \/ Gateway(Seller[s], r) THEN {} ELSE {<<o, n>>} \ paged
  BY <1>1, <1>2, <1>3 DEF Mine
<1>11. CASE Family(Seller[s]) = "fivesim" /\ ~again /\ AskAny(s \in Named, outcome)
  <2>1. PICK row : row = [purchase[o] EXCEPT !.pc = "again", !.asking = s]
    OBVIOUS
  <2>2. /\ row \in OrderRow /\ row.pc = "again" /\ row.asking = s
        /\ row.number = NoSku /\ row.status \in {"reserved", "review"}
    BY <1>1, <2>1 DEF OrderRow
  <2>3. n = NoSku /\ Seller[s] = "fivesim"
    BY <1>5, <1>7, <1>11 DEF AskAny
  <2>4. sold' = sold /\ paged' = paged
    BY <1>2, <1>3, <2>3
  <2>5. \A m \in sold : m # NoSku
    BY DEF SaleInv, ShopConstants
  <2>6. \A m \in sold : m[1] = o => AccountedIn(m, row, back, paged)
    BY <2>2, <2>5 DEF AccountedIn
  <2>7. Owns(o, row, sold', back', paged')
    BY <1>1, <2>2, <2>3, <2>4, <2>6 DEF Owns
  <2> QED
    BY <1>1, <1>3, <1>4, <1>9, <1>11, <2>1, <2>2, <2>4, <2>7, RowWritten
<1>12. CASE ~(Family(Seller[s]) = "fivesim" /\ ~again /\ AskAny(s \in Named, outcome))
  <2>1. Handle(o, s, <<o, n>>, purchase[o].left \ {s}, outcome)
    BY <1>3, <1>4, <1>12
  <2>2. purchase[o].left \ {s} \subseteq Skus
    BY <1>1 DEF OrderRow
  <2>3. outcome = "sold" => /\ <<o, n>> \in sold' /\ Holds(o, <<o, n>>, Mine(o, sold', paged'))
    BY <1>2, <1>5, <1>10 DEF Holds
  <2>4. outcome = "history" =>
           /\ Seller[s] = "fivesim"
           /\ \A m, l \in Mine(o, sold', paged') : m = l /\ FromFiveSim(m)
    BY <1>5, <1>7, <1>10 DEF FromFiveSim
  <2>5. outcome \notin {"sold", "history", "ambiguous"} => Mine(o, sold', paged') = {}
    BY <1>5, <1>10
  <2>6. CASE n # NoSku
    <3>1. <<o, n>> \in Purchases \X Skus
      BY <2>6
    <3> QED
      BY <1>9, <2>1, <2>2, <2>3, <2>4, <2>5, <3>1, AnswerKeeps
  <2>7. CASE n = NoSku
    <3>1. outcome # "sold"
      BY <1>5, <2>7
    <3>2. Handle(o, s, NoSku, purchase[o].left \ {s}, outcome)
      BY <2>1, <3>1 DEF Handle
    <3> QED
      BY <1>9, <2>2, <2>4, <2>5, <3>1, <3>2, AnswerKeeps
  <2> QED
    BY <2>6, <2>7
<1> QED
  BY <1>11, <1>12

LEMMA AskSourceKeeps ==
    ASSUME ShopConstants, SaleInv, NEW o \in Purchases, AskSource(o) PROVE SaleInv'
<1>1. PICK s \in purchase[o].left :
         IF Seller[s] \in Configured
         THEN \E n \in {NoSku} \cup {t \in {s} : CanSell(t)} : Ask(o, s, n, FALSE)
         ELSE /\ Handle(o, s, NoSku, purchase[o].left \ {s}, Unconfigured(Seller[s]))
              /\ UNCHANGED <<sold, paged>>
  BY DEF AskSource
<1>2. purchase[o] \in OrderRow /\ purchase[o].pc = "shop" /\ back' = back
  BY DEF AskSource, SaleInv
<1>3. s \in Skus /\ purchase[o].left \subseteq Skus
  BY <1>2 DEF OrderRow
<1>4. CASE Seller[s] \in Configured
  <2>1. PICK n \in {NoSku, s} : Ask(o, s, n, FALSE)
    BY <1>1, <1>4
  <2> QED
    BY <1>2, <1>3, <1>4, <2>1, AskKeeps DEF ShopConstants
<1>5. CASE Seller[s] \notin Configured
  <2>1. /\ Handle(o, s, NoSku, purchase[o].left \ {s}, Unconfigured(Seller[s]))
        /\ sold' = sold /\ paged' = paged
    BY <1>1, <1>5
  <2>2. Unconfigured(Seller[s]) \notin {"sold", "history"}
    BY DEF Unconfigured
  <2>3. Mine(o, sold, paged) = {}
    BY <1>2 DEF SaleInv, Owns
  <2>4. /\ \A m \in sold : Seller[m[2]] \in Configured
        /\ \A m \in paged : Family(Seller[m[2]]) = "smspool"
        /\ paged \subseteq sold
    BY DEF SaleInv
  <2>5. PICK rest, outcome : rest = purchase[o].left \ {s} /\ outcome = Unconfigured(Seller[s])
    OBVIOUS
  <2>6. /\ Handle(o, s, NoSku, rest, outcome) /\ rest \subseteq Skus
        /\ outcome \notin {"sold", "history"} /\ purchase[o].pc = "shop"
    BY <1>2, <1>3, <2>1, <2>2, <2>5
  <2>7. Mine(o, sold', paged') = {}
    BY <2>1, <2>3
  <2> QED
    BY <1>2, <1>3, <2>1, <2>4, <2>6, <2>7, AnswerKeeps
<1> QED
  BY <1>4, <1>5

LEMMA AskAgainKeeps ==
    ASSUME ShopConstants, SaleInv, NEW o \in Purchases, AskAgain(o) PROVE SaleInv'
<1>1. PICK s, pool :
         /\ s = purchase[o].asking
         /\ pool = {t \in Skus : Seller[t] = "fivesim" /\ CountryKey[t] = CountryKey[s] /\ CanSell(t)}
         /\ \E n \in {NoSku} \cup pool : Ask(o, s, n, TRUE)
  BY DEF AskAgain
<1>2. PICK n \in Skus \cup {NoSku} : Ask(o, s, n, TRUE) /\ (n \in Skus => Seller[n] = "fivesim")
  BY <1>1 DEF ShopConstants
<1>3. purchase[o].pc = "again" /\ back' = back
  BY DEF AskAgain
<1>4. s \in Skus /\ Seller[s] = "fivesim"
  BY <1>1, <1>3 DEF SaleInv, Owns
<1>5. "fivesim" \in Configured
  BY DEF ShopConstants
<1>6. Seller[s] \in Configured /\ (n \in Skus => Seller[n] = Seller[s])
  BY <1>2, <1>4, <1>5
<1> QED
  BY <1>2, <1>3, <1>4, <1>6, AskKeeps

\* Out of the history comes the order's own number, another order's or none.
LEMMA RecoverKeeps ==
    ASSUME ShopConstants, SaleInv, NEW o \in Purchases, RecoverRecentBuy(o) PROVE SaleInv'
<1>1. PICK s, last :
         /\ s = purchase[o].asking
         /\ last = {n \in sold : Seller[n[2]] = "fivesim" /\ CountryKey[n[2]] = CountryKey[s]}
         /\ \E n \in {NoSku} \cup last :
              Handle(o, s, n, purchase[o].left, IF n = NoSku THEN "ambiguous" ELSE "sold")
  BY DEF RecoverRecentBuy
<1>2. purchase[o].pc = "history" /\ UNCHANGED <<sold, back, paged>>
  BY DEF RecoverRecentBuy
<1>3. PICK n \in {NoSku} \cup last :
         Handle(o, s, n, purchase[o].left, IF n = NoSku THEN "ambiguous" ELSE "sold")
  BY <1>1
<1>4. /\ purchase[o] \in OrderRow /\ s \in Skus /\ purchase[o].left \subseteq Skus
      /\ \A m, l \in Mine(o, sold, paged) : m = l /\ FromFiveSim(m)
  <2>1. purchase[o] \in OrderRow /\ Owns(o, purchase[o], sold, back, paged)
    BY DEF SaleInv
  <2> QED
    BY <1>1, <1>2, <2>1 DEF Owns, OrderRow
<1>5. /\ \A m \in sold : Seller[m[2]] \in Configured
      /\ \A m \in paged : Family(Seller[m[2]]) = "smspool"
      /\ paged \subseteq sold /\ sold \subseteq Purchases \X Skus
  BY DEF SaleInv
<1>6. NoSku \notin sold
  BY <1>5 DEF ShopConstants
<1>7. CASE n = NoSku
  <2>1. Handle(o, s, NoSku, purchase[o].left, "ambiguous")
    BY <1>3, <1>7
  <2> QED
    BY <1>2, <1>4, <1>5, <2>1, AnswerKeeps
<1>8. CASE n \in last
  <2>1. n \in sold /\ FromFiveSim(n) /\ n # NoSku
    BY <1>1, <1>6, <1>8 DEF FromFiveSim
  <2>2. Handle(o, s, n, purchase[o].left, "sold")
    BY <1>3, <2>1
  <2>3. n \notin paged
    BY <1>5, <2>1 DEF FromFiveSim, Family
  <2>4. n[1] = o => n \in Mine(o, sold, paged)
    BY <2>1, <2>3 DEF Mine
  <2>5. Holds(o, n, Mine(o, sold, paged))
    BY <1>4, <2>4 DEF Holds
  <2> QED
    BY <1>2, <1>4, <1>5, <2>1, <2>2, <2>5, AnswerKeeps
<1> QED
  BY <1>3, <1>7, <1>8

LEMMA PinKeeps == ASSUME ShopConstants, SaleInv, NEW o \in Purchases, Pin(o) PROVE SaleInv'
<1>1. PICK p, row : /\ p = Seller[purchase[o].number[2]]
                    /\ row = [purchase[o] EXCEPT !.pc = "assign", !.provider = p]
                    /\ Written(o, row)
  BY DEF Pin, Sellers
<1>2. /\ purchase[o] \in OrderRow /\ purchase[o].pc = "pin" /\ Owns(o, purchase[o], sold, back, paged)
  BY DEF Pin, SaleInv
<1>3. purchase[o].number \in sold /\ purchase[o].status \in {"reserved", "review"} /\ p \in Providers
  <2>1. purchase[o].number \in sold /\ purchase[o].status \in {"reserved", "review"}
    BY <1>2 DEF Owns
  <2>2. purchase[o].number[2] \in Skus
    BY <2>1 DEF SaleInv
  <2> QED
    BY <1>1, <2>1, <2>2 DEF ShopConstants
<1>4. /\ row \in OrderRow /\ row.pc = "assign" /\ row.provider = p
      /\ row.number = purchase[o].number /\ row.status = purchase[o].status
  BY <1>1, <1>2, <1>3 DEF OrderRow
<1>5. \A n \in sold : n[1] = o => AccountedIn(n, row, back, paged)
  BY <1>2, <1>3, <1>4 DEF Owns, AccountedIn
<1>6. Owns(o, row, sold, back, paged)
  BY <1>1, <1>2, <1>3, <1>4, <1>5 DEF Owns
<1>7. UNCHANGED <<sold, back, paged>>
  BY DEF Pin
<1> QED
  BY <1>1, <1>4, <1>6, <1>7, RowWritten DEF SaleInv

\* A number no claim could keep goes back to whoever sold it.
LEMMA AssignKeeps == ASSUME ShopConstants, SaleInv, NEW o \in Purchases, Assign(o) PROVE SaleInv'
<1>1. /\ purchase[o] \in OrderRow /\ purchase[o].pc = "assign"
      /\ Owns(o, purchase[o], sold, back, paged) /\ sold' = sold /\ paged' = paged
  BY DEF Assign, SaleInv
<1>2. /\ purchase[o].number \in sold /\ Holds(o, purchase[o].number, Mine(o, sold, paged))
      /\ purchase[o].provider = Seller[purchase[o].number[2]]
      /\ purchase[o].number[1] = o \/ FromFiveSim(purchase[o].number)
      /\ purchase[o].number # NoSku /\ purchase[o].number \in Purchases \X Skus
      /\ purchase[o].status \in {"reserved", "review"}
  BY <1>1 DEF Owns, SaleInv, ShopConstants
<1>3. /\ \A n \in sold : Seller[n[2]] \in Configured
      /\ \A n \in paged : Family(Seller[n[2]]) = "smspool"
      /\ paged \subseteq sold /\ back \subseteq sold
  BY DEF SaleInv
<1>4. PICK held \in BOOLEAN :
         IF held
         THEN /\ Written(o, [purchase[o] EXCEPT !.pc = "done", !.status = "awaiting", !.open = TRUE,
                                                !.pid = purchase[o].number])
              /\ UNCHANGED back
         ELSE MovesTo(o, "done") /\ HandedBack(o, CancelsAt(o))
  BY DEF Assign, Claims
<1>5. \A n \in sold : n[1] = o => \/ n = purchase[o].number \/ n \in paged
                                  \/ purchase[o].number[1] # o /\ FromFiveSim(n)
  BY <1>2 DEF Holds, Mine
<1>6. CASE held
  <2>1. PICK number, row :
           /\ number = purchase[o].number
           /\ row = [purchase[o] EXCEPT !.pc = "done", !.status = "awaiting", !.open = TRUE,
                                        !.pid = number]
           /\ Written(o, row)
    BY <1>4, <1>6
  <2>2. /\ row \in OrderRow /\ row.pc = "done" /\ row.status = "awaiting" /\ row.pid = number
        /\ row.provider = purchase[o].provider /\ row.number = number
    BY <1>1, <1>2, <2>1 DEF OrderRow
  <2>3. \A n \in sold : n[1] = o => AccountedIn(n, row, back, paged)
    BY <1>2, <1>3, <1>5, <2>1, <2>2 DEF AccountedIn, FromFiveSim
  <2>4. Owns(o, row, sold, back, paged)
    BY <1>2, <2>1, <2>2, <2>3 DEF Owns
  <2> QED
    BY <1>1, <1>3, <1>4, <1>6, <2>1, <2>2, <2>4, RowWritten
<1>7. CASE ~held
  <2>1. PICK row : row = [purchase[o] EXCEPT !.pc = "done"] /\ Written(o, row)
    BY <1>4, <1>7 DEF MovesTo
  <2>2. /\ row \in OrderRow /\ row.pc = "done" /\ row.number = purchase[o].number
        /\ row.status = purchase[o].status
    BY <1>1, <2>1 DEF OrderRow
  <2>3. back' = back \cup {purchase[o].number}
    BY <1>2, <1>3, <1>4, <1>7 DEF HandedBack, CancelsAt, Sellers
  <2>4. \A n \in sold : n[1] = o => AccountedIn(n, row, back', paged)
    BY <1>2, <1>3, <1>5, <2>2, <2>3 DEF AccountedIn, FromFiveSim
  <2>5. Owns(o, row, sold, back', paged)
    BY <1>2, <2>2, <2>4 DEF Owns
  <2>6. back \subseteq back' /\ back' \subseteq sold
    BY <1>2, <1>3, <2>3
  <2> QED
    BY <1>1, <1>3, <2>1, <2>2, <2>5, <2>6, RowWritten
<1> QED
  BY <1>6, <1>7

\* An order that ends without a number, when no number was sold or none is known of.
LEMMA OrderEnds ==
    ASSUME ShopConstants, SaleInv, NEW o \in Purchases,
           NEW status \in {"failed", "review"}, Ends(o, status),
           status = "failed" => purchase[o].pc \in {"refuse", "shop"},
           status = "review" => purchase[o].pc = "unknown",
           UNCHANGED <<sold, back, paged>>
    PROVE  SaleInv'
<1>1. purchase[o] \in OrderRow /\ Owns(o, purchase[o], sold, back, paged)
  BY DEF SaleInv
<1>2. PICK next : /\ next \in {status, purchase[o].status}
                  /\ Written(o, [purchase[o] EXCEPT !.pc = "done", !.left = {}, !.status = next])
  BY DEF Ends, Claims
<1>3. PICK row : row = [purchase[o] EXCEPT !.pc = "done", !.left = {}, !.status = next]
  OBVIOUS
<1>4. next \in {"none", "reserved", "awaiting", "review", "failed"}
  BY <1>1, <1>2 DEF OrderRow
<1>5. row \in OrderRow /\ row.pc = "done" /\ row.status = next /\ row.number = purchase[o].number
  BY <1>1, <1>3, <1>4 DEF OrderRow
<1>6. /\ purchase[o].number = NoSku /\ purchase[o].status \in {"reserved", "review"}
      /\ status = "failed" => Mine(o, sold, paged) = {}
  BY <1>1 DEF Owns
<1>7. /\ \A n \in sold : n # NoSku
      /\ \A n \in paged : Family(Seller[n[2]]) = "smspool"
  BY DEF SaleInv, ShopConstants
<1>8. \A n \in sold : n[1] = o => AccountedIn(n, row, back, paged)
  BY <1>2, <1>5, <1>6, <1>7 DEF AccountedIn, Mine
<1>9. Owns(o, row, sold, back, paged)
  BY <1>2, <1>5, <1>6, <1>8 DEF Owns
<1> QED
  BY <1>2, <1>3, <1>5, <1>9, RowWritten DEF SaleInv

LEMMA TakeOverKeeps ==
    ASSUME ShopConstants, SaleInv, NEW o \in Purchases, TakeOver(o) PROVE SaleInv'
<1>1. /\ purchase[o] \in OrderRow /\ Owns(o, purchase[o], sold, back, paged)
      /\ purchase[o].status = "reserved"
  BY DEF SaleInv, TakeOver
<1>2. PICK row : row = [purchase[o] EXCEPT !.status = "review"] /\ Written(o, row)
  BY DEF TakeOver
<1>3. /\ row \in OrderRow /\ row.status = "review" /\ row.pc = purchase[o].pc
      /\ row.number = purchase[o].number /\ row.asking = purchase[o].asking
      /\ row.provider = purchase[o].provider
  BY <1>1, <1>2 DEF OrderRow
<1>4. \A n \in sold : n[1] = o => AccountedIn(n, row, back, paged)
  BY <1>1, <1>3 DEF Owns, AccountedIn
<1>5. Owns(o, row, sold, back, paged)
  BY <1>1, <1>3, <1>4 DEF Owns
<1> QED
  BY <1>2, <1>3, <1>5, RowWritten DEF SaleInv, TakeOver

LEMMA PerishKeeps ==
    ASSUME ShopConstants, SaleInv, NEW o \in Purchases, Perish(o) PROVE SaleInv'
<1>1. /\ purchase[o] \in OrderRow /\ Owns(o, purchase[o], sold, back, paged)
      /\ purchase[o].pc \notin {"idle", "done", "dead"}
  BY DEF SaleInv, Perish
<1>2. PICK row : row = [purchase[o] EXCEPT !.pc = "dead", !.left = {}] /\ Written(o, row)
  BY DEF Perish
<1>3. /\ row \in OrderRow /\ row.status = purchase[o].status /\ row.pc = "dead"
      /\ row.number = purchase[o].number
  BY <1>1, <1>2 DEF OrderRow
<1>4. purchase[o].status \in {"reserved", "review"}
  <2>1. purchase[o].pc \in {"shop", "again", "history", "refuse", "unknown", "pin", "assign"}
    BY <1>1 DEF OrderRow
  <2> QED
    BY <1>1, <2>1 DEF Owns
<1>5. \A n \in sold : AccountedIn(n, row, back, paged)
  BY <1>3, <1>4 DEF AccountedIn
<1>6. Owns(o, row, sold, back, paged)
  BY <1>1, <1>3, <1>4, <1>5 DEF Owns
<1> QED
  BY <1>2, <1>3, <1>6, RowWritten DEF SaleInv, Perish

LEMMA PollKeeps == ASSUME ShopConstants, SaleInv, NEW o \in Purchases, Poll(o) PROVE SaleInv'
<1>1. purchase[o] \in OrderRow /\ Owns(o, purchase[o], sold, back, paged)
  BY DEF SaleInv
<1>2. PICK heard :
         Written(o, [purchase[o] EXCEPT !.open = ~heard.closed, !.code = @ \/ "code" \in heard.sms])
  BY DEF Poll
<1>3. PICK open \in BOOLEAN, code \in BOOLEAN :
         Written(o, [purchase[o] EXCEPT !.open = open, !.code = code])
  BY <1>2
<1>4. PICK row : row = [purchase[o] EXCEPT !.open = open, !.code = code]
  OBVIOUS
<1>5. /\ row \in OrderRow /\ row.status = purchase[o].status /\ row.pc = purchase[o].pc
      /\ row.number = purchase[o].number /\ row.asking = purchase[o].asking
      /\ row.provider = purchase[o].provider /\ row.pid = purchase[o].pid
  BY <1>1, <1>4 DEF OrderRow
<1>6. \A n \in sold : n[1] = o => AccountedIn(n, row, back, paged)
  BY <1>1, <1>5 DEF Owns, AccountedIn
<1>7. Owns(o, row, sold, back, paged)
  BY <1>1, <1>5, <1>6 DEF Owns
<1> QED
  BY <1>3, <1>4, <1>5, <1>7, RowWritten DEF SaleInv, Poll

LEMMA SaleInvStep == ASSUME ShopConstants, SaleInv, [ShopNext]_shopVars PROVE SaleInv'
<1>1. CASE UNCHANGED orderVars
  BY <1>1 DEF orderVars, SaleInv
<1>2. CASE MarketMoves
  BY <1>1, <1>2 DEF MarketMoves
<1>3. CASE SwitchStep
  BY <1>1, <1>3 DEF SwitchStep, BeginSeed, SeedSwitch, BeginPut, StoreSwitch, StoreFails
<1>4. CASE SweepStep
  BY <1>1, <1>4 DEF SweepStep, BeginShopSweep, LoadSwitches, ListProvider, FinishProvider, DropSweep,
                    WriteSku
<1>5. CASE OrderStep
  <2>1. PICK o \in Purchases : BuyStep(o) \/ Poll(o)
    BY <1>5 DEF OrderStep
  <2>2. CASE GiveBack(o)
    BY <2>2, OrderEnds DEF GiveBack
  <2>3. CASE Doubt(o)
    BY <2>3, OrderEnds DEF Doubt
  <2> QED
    BY <2>1, <2>2, <2>3, PlaceKeeps, AskSourceKeeps, AskAgainKeeps, RecoverKeeps, PinKeeps,
       AssignKeeps, TakeOverKeeps, PerishKeeps, PollKeeps DEF BuyStep
<1> QED
  BY <1>1, <1>2, <1>3, <1>4, <1>5 DEF ShopNext, shopVars

\* Every number that was sold is the order's, or went back, or is in doubt; what
\* a gateway's page hid and what the history mixed up are named apart.
THEOREM SalesStayKnown == ASSUME ShopConstants PROVE ShopSpec => []SoldIsAccounted
<1>1. ShopInit => SaleInv
  BY SaleStarts
<1>2. SaleInv /\ [ShopNext]_shopVars => SaleInv'
  BY SaleInvStep
<1>3. SaleInv => SoldIsAccounted
  <2> SUFFICES ASSUME SaleInv, NEW n \in sold PROVE AccountedIn(n, purchase[n[1]], back, paged)
    BY DEF SoldIsAccounted, AccountedIn, Sellers, Swapped
  <2> QED
    BY DEF SaleInv, Owns
<1> QED
  BY <1>1, <1>2, <1>3, PTL DEF ShopSpec

\* What a row or a hand-back names.
OnlySold ==
    /\ back \subseteq sold
    /\ \A o \in Purchases : purchase[o].status = "awaiting" =>
          LET n == purchase[o].pid
          IN /\ n \in sold /\ purchase[o].provider = Sellers(n)
             /\ n[1] = o \/ Sellers(n) = "fivesim"

\* Only what was sold is handed back, and what a customer is shown was sold by
\* the supplier the row names and, but for 5SIM's history, for that very order:
\* the number, its supplier and the row are three writes of a handler that may
\* die or be overtaken between any two (create_order, recover_recent_buy).
THEOREM OnlySoldGoesBack == ASSUME ShopConstants PROVE ShopSpec => []OnlySold
<1>1. ShopInit => SaleInv
  BY SaleStarts
<1>2. SaleInv /\ [ShopNext]_shopVars => SaleInv'
  BY SaleInvStep
<1>3. SaleInv => OnlySold
  <2> SUFFICES ASSUME SaleInv, NEW o \in Purchases, purchase[o].status = "awaiting"
               PROVE  LET n == purchase[o].pid
                      IN /\ n \in sold /\ purchase[o].provider = Sellers(n)
                         /\ n[1] = o \/ Sellers(n) = "fivesim"
    BY DEF OnlySold, SaleInv
  <2>1. Owns(o, purchase[o], sold, back, paged) /\ NoSku \notin sold
    BY DEF SaleInv, ShopConstants
  <2> QED
    BY <2>1 DEF Owns, Sellers, FromFiveSim
<1> QED
  BY <1>1, <1>2, <1>3, PTL DEF ShopSpec

-----------------------------------------------------------------------------
(* Shop: what the list shows is for sale, once the sweep has followed the  *)
(* switches.                                                               *)

SweepRow ==
    [pc : {"rest", "load", "list", "write"}, on : SUBSET Providers, at : DOMAIN Known,
     guest : Fetches, guested : BOOLEAN, rows : Fetches, left : SUBSET Skus]

\* Sources of the suppliers before the one the sweep is at are of those it found on.
Followed == \A i \in DOMAIN Known, s \in Skus :
    i < sweep.at /\ Seller[s] = Known[i] /\ source[s].stock > 0 => Seller[s] \in sweep.on

\* What the sweep writes is the supplier's it is at, and that one is on.
WritesItsOwn == \A s \in Skus :
    sweep.rows[s] > 0 => Seller[s] = Visited /\ Visited \in sweep.on

\* The supplier's rows that a sweep may write.
Rows(p) == {rows \in Fetches : \A s \in Skus : rows[s] > 0 => Seller[s] = p}

\* What is listed: each source is in the offer of its cost.
StallInv ==
    /\ market \in [Skus -> [cost : Costs, stocked : BOOLEAN, rated : BOOLEAN]]
    /\ source \in [Skus -> [offer : Offers, cost : Costs, stock : {0, 1}]]
    /\ \A s \in Skus : source[s].offer = OfferOf(s, source[s].cost)
    /\ DOMAIN offer = Offers
    /\ \A f \in Offers : offer[f].active => offer[f].quantity > 0

\* Where the sweep is, and whether it still follows the switches.
FollowInv ==
    /\ switch \in [Providers -> BOOLEAN] /\ touched \in BOOLEAN /\ tidy \in BOOLEAN
    /\ sweep \in SweepRow /\ sweep.guest \in Rows("fivesim")
    /\ sweep.pc = "load" => sweep.at = 1
    /\ sweep.pc = "write" => WritesItsOwn /\ \A s \in sweep.left : sweep.rows[s] > 0
    /\ sweep.pc \in {"list", "write"} => Followed /\ (~touched => sweep.on = Enabled)
    /\ tidy => ~touched /\ \A s \in Skus : source[s].stock > 0 => Seller[s] \in Enabled

ListInv == StallInv /\ FollowInv

\* A dearer number is not sold cheaper.
LEMMA SalePriceRises ==
    ASSUME PricingConstants, NEW a \in Nat, NEW b \in Nat, a <= b
    PROVE  SalePrice(a) \in Nat /\ SalePrice(b) \in Nat /\ SalePrice(a) <= SalePrice(b)
<1>1. UsdNgn \in Nat /\ Margin \in Nat /\ MinPrice \in Nat
  BY DEF PricingConstants
<1>2. \A x, y \in Nat : x * y \in Nat
  OBVIOUS
<1>3. PICK d \in Nat : b = a + d
  <2>1. b - a \in Nat /\ b = a + (b - a)
    OBVIOUS
  <2> QED
    BY <2>1
<1>4. PICK x, y, z : x = a * UsdNgn * Margin /\ y = b * UsdNgn * Margin /\ z = d * UsdNgn * Margin
  OBVIOUS
<1>5. x \in Nat /\ y \in Nat /\ z \in Nat
  BY <1>1, <1>2, <1>4
<1>6. (a + d) * UsdNgn * Margin = a * UsdNgn * Margin + d * UsdNgn * Margin
  BY <1>1
<1>7. y = x + z
  BY <1>3, <1>4, <1>6
<1>8. PICK p, q : p = 10 * ((x + 99) \div 100) /\ q = 10 * ((y + 99) \div 100)
  OBVIOUS
<1>9. p \in Nat /\ q \in Nat /\ p <= q
  BY <1>5, <1>7, <1>8
<1>10. SalePrice(a) = Max({p, MinPrice}) /\ SalePrice(b) = Max({q, MinPrice})
  BY <1>4, <1>8 DEF SalePrice
<1> QED
  BY <1>1, <1>9, <1>10, MaxOfTwo

\* The prices there may be have a largest among any of them.
LEMMA DearestIs ==
    ASSUME ShopConstants, PricingConstants, NEW T, T \subseteq Prices \cup {0}, T # {}
    PROVE  T \subseteq Nat /\ Max(T) \in T /\ \A y \in T : y <= Max(T)
<1>1. PICK bound \in Nat : \A c \in Costs : c <= bound
  <2>1. IsFiniteSet(Costs) /\ Costs \subseteq Nat
    BY DEF ShopConstants
  <2> QED
    BY <2>1, FiniteIsBounded
<1>2. ASSUME NEW p \in Prices PROVE p \in Nat /\ p <= SalePrice(bound)
  <2>1. PICK c \in Costs : p = SalePrice(c)
    BY DEF Prices
  <2>2. c \in Nat /\ c <= bound
    BY <1>1 DEF ShopConstants
  <2> QED
    BY <2>1, <2>2, SalePriceRises
<1>3. SalePrice(bound) \in Nat
  <2>1. bound <= bound
    OBVIOUS
  <2> QED
    BY <2>1, SalePriceRises
<1>4. T \subseteq Nat /\ \A y \in T : y <= SalePrice(bound)
  BY <1>2, <1>3
<1> QED
  BY <1>3, <1>4, BoundedHasMax

\* An offer that is on the list passes every refusal that is about it.
LEMMA ListedIsAccepted ==
    ASSUME ShopConstants, PricingConstants, ListInv, tidy, NEW f \in Offers, Listed(f)
    PROVE  Accepts(f)
<1> DEFINE c == f[1]
           top == TopPrice(c)
           dearest == Max(InStock(c))
<1>1. /\ c \in Codes /\ f[2] \in Prices /\ f = <<c, f[2]>>
  BY DEF Offers
<1>2. f[2] \in InStock(c) /\ InTier(f, dearest)
  BY DEF Listed
<1>3. offer[f].active /\ offer[f].quantity > 0 /\ Ranked(f) # {}
  BY <1>1, <1>2 DEF InStock, ListInv, StallInv
<1>4. /\ InStock(c) \subseteq Prices \cup {0}
      /\ dearest \in Nat /\ \A p \in InStock(c) : p <= dearest
  <2>1. InStock(c) \subseteq Prices \cup {0} /\ InStock(c) # {}
    BY <1>2 DEF InStock
  <2> QED
    BY <2>1, DearestIs
<1>5. top <= dearest /\ top \in Nat
  <2> DEFINE Stocked == {p \in Prices : /\ offer[<<c, p>>].active
                                       /\ \E s \in Skus : /\ source[s].offer = <<c, p>>
                                                          /\ source[s].stock > 0}
  <2>1. top = Max({0} \cup Stocked)
    BY DEF TopPrice
  <2>2. {0} \cup Stocked \subseteq Prices \cup {0} /\ {0} \cup Stocked # {}
    OBVIOUS
  <2>3. top \in {0} \cup Stocked /\ {0} \cup Stocked \subseteq Nat
    <3> HIDE DEF Stocked, top
    <3> QED
      BY <2>1, <2>2, DearestIs
  <2>4. CASE top \in Stocked
    <3>1. PICK s \in Skus : source[s].offer = <<c, top>> /\ source[s].stock > 0
      BY <2>4
    <3>2. top \in Prices /\ offer[<<c, top>>].active
      BY <2>4
    <3>3. Seller[s] \in Enabled /\ source[s].cost \in Nat /\ MinCost \in Nat
      BY <3>1 DEF ListInv, StallInv, FollowInv, ShopConstants
    <3>4. CASE source[s].cost >= MinCost
      <4>1. s \in Ranked(<<c, top>>)
        BY <3>1, <3>3, <3>4 DEF Ranked, Sells
      <4>2. top \in InStock(c)
        BY <3>2, <4>1 DEF InStock
      <4> QED
        BY <1>4, <2>3, <4>2
    <3>5. CASE source[s].cost < MinCost
      <4>1. PICK t \in Skus : source[t].offer = f /\ source[t].cost >= MinCost
        BY <1>3 DEF Ranked, Sells
      <4>2. source[t].cost \in Nat /\ source[s].cost <= source[t].cost
        <5>1. source[t].cost \in Costs /\ Costs \subseteq Nat
          BY DEF ListInv, StallInv, FollowInv, ShopConstants
        <5>2. PICK x, y : x = source[s].cost /\ y = source[t].cost
          OBVIOUS
        <5>3. x \in Nat /\ y \in Nat /\ MinCost \in Nat /\ x < MinCost /\ y >= MinCost
          BY <3>3, <3>5, <4>1, <5>1, <5>2
        <5> HIDE DEF c, top
        <5> QED
          BY <5>2, <5>3
      <4>3. top = SalePrice(source[s].cost) /\ f[2] = SalePrice(source[t].cost)
        <5>1. source[s].offer = <<CodeOf[CountryKey[s]], SalePrice(source[s].cost)>>
          BY DEF ListInv, StallInv, OfferOf
        <5>2. source[t].offer = <<CodeOf[CountryKey[t]], SalePrice(source[t].cost)>>
          BY DEF ListInv, StallInv, OfferOf
        <5>3. <<c, top>>[2] = top /\ <<CodeOf[CountryKey[s]], SalePrice(source[s].cost)>>[2] = SalePrice(source[s].cost)
          OBVIOUS
        <5>4. f[2] = SalePrice(source[t].cost)
          BY <4>1, <5>2
        <5> HIDE DEF c, top
        <5> QED
          BY <3>1, <5>1, <5>3, <5>4
      <4>4. top <= f[2] /\ top \in Nat /\ f[2] \in Nat
        <5> HIDE DEF c, top
        <5>1. PICK x, y : x = source[s].cost /\ y = source[t].cost
          OBVIOUS
        <5>2. x \in Nat /\ y \in Nat /\ x <= y
          BY <3>3, <4>2, <5>1
        <5>3. SalePrice(x) \in Nat /\ SalePrice(y) \in Nat /\ SalePrice(x) <= SalePrice(y)
          BY <5>2, SalePriceRises
        <5> QED
          BY <4>3, <5>1, <5>3
      <4> QED
        BY <1>2, <1>4, <4>4
    <3> QED
      BY <3>3, <3>4, <3>5
  <2> QED
    BY <1>4, <2>3, <2>4
<1>6. f[2] * 10 >= top * Tier
  <2>1. f[2] * 10 >= dearest * Tier
    BY <1>2 DEF InTier
  <2>2. Tier \in Nat
    BY DEF ShopConstants
  <2>3. PICK d \in Nat : dearest = top + d
    <3>1. dearest - top \in Nat /\ dearest = top + (dearest - top)
      BY <1>4, <1>5
    <3> QED
      BY <3>1
  <2>4. (top + d) * Tier = top * Tier + d * Tier
    BY <1>5, <2>2
  <2>5. d * Tier \in Nat /\ top * Tier \in Nat
    BY <1>5, <2>2
  <2>6. f[2] \in Nat
    BY <1>2, <1>4, DearestIs
  <2> HIDE DEF top, dearest
  <2> QED
    BY <2>1, <2>3, <2>4, <2>5, <2>6
<1> QED
  BY <1>3, <1>6 DEF Accepts, InTier

LEMMA KnownIsListed ==
    ASSUME ShopConstants
    PROVE  /\ DOMAIN Known = 1..Len(Known) /\ Len(Known) \in Nat /\ 1 \in DOMAIN Known
           /\ \A p \in Providers : \E i \in DOMAIN Known : Known[i] = p
<1>1. Known \in Seq(Providers) /\ "fivesim" \in Providers
  BY DEF ShopConstants
<1>2. DOMAIN Known = 1..Len(Known) /\ Len(Known) \in Nat
  BY <1>1
<1>3. \A p \in Providers : \E i \in DOMAIN Known : Known[i] = p
  BY DEF Providers
<1>4. PICK i \in DOMAIN Known : Known[i] = "fivesim"
  BY <1>1, <1>3
<1>5. 1 \in DOMAIN Known
  BY <1>2, <1>4
<1> QED
  BY <1>2, <1>3, <1>5

LEMMA OfferIsOffered ==
    ASSUME ShopConstants, NEW s \in Skus, NEW cost \in Costs
    PROVE  OfferOf(s, cost) \in Offers
BY DEF OfferOf, Offers, Codes, Prices

LEMMA RestIs ==
    ASSUME ShopConstants
    PROVE  AtRest \in SweepRow /\ AtRest.guest \in Rows("fivesim") /\ AtRest.pc = "rest" /\ AtRest.at = 1
<1>1. NoFetch \in Rows("fivesim") /\ NoFetch \in Fetches
  BY DEF NoFetch, Rows, Fetches
<1>2. 1 \in DOMAIN Known
  BY KnownIsListed
<1> QED
  BY <1>1, <1>2 DEF AtRest, SweepRow

LEMMA ListStarts == ASSUME ShopConstants, ShopInit PROVE ListInv
<1>1. StallInv
  BY OfferIsOffered DEF ShopInit, StallInv, ShopConstants
<1>2. FollowInv
  BY RestIs DEF ShopInit, FollowInv
<1> QED
  BY <1>1, <1>2 DEF ListInv

\* Stock only runs out.
LEMMA StockFalls ==
    ASSUME ListInv, UNCHANGED <<market, switch, offer, sweep, touched, tidy>>,
           source' \in [Skus -> [offer : Offers, cost : Costs, stock : {0, 1}]],
           \A s \in Skus : /\ source'[s].offer = source[s].offer /\ source'[s].cost = source[s].cost
                           /\ source'[s].stock > 0 => source[s].stock > 0
    PROVE  ListInv'
<1>1. StallInv'
  BY DEF ListInv, StallInv, OfferOf
<1>2. Enabled' = Enabled
  BY DEF Enabled, On
<1>3. FollowInv'
  BY <1>2 DEF ListInv, FollowInv, WritesItsOwn, Followed, Visited
<1> QED
  BY <1>1, <1>3 DEF ListInv

\* A switch that is written is known to the sweep, or moves nothing.
LEMMA SwitchKeeps ==
    ASSUME ListInv, NEW p, NEW on \in BOOLEAN,
           switch' = [switch EXCEPT ![p] = on],
           touched' = (touched \/ switch[p] # on), tidy' = (tidy /\ switch[p] = on),
           UNCHANGED <<market, source, offer, sweep>>
    PROVE  ListInv'
<1>1. StallInv'
  BY DEF ListInv, StallInv, OfferOf
<1>2. /\ switch' \in [Providers -> BOOLEAN] /\ touched' \in BOOLEAN /\ tidy' \in BOOLEAN
      /\ (touched => touched') /\ (tidy' => tidy)
  BY DEF ListInv, FollowInv
<1>3. ASSUME switch[p] = on PROVE Enabled' = Enabled /\ touched' = touched /\ tidy' = tidy
  <2>1. switch' = switch
    BY <1>3 DEF ListInv, FollowInv
  <2> QED
    BY <1>3, <2>1 DEF Enabled, On, ListInv, FollowInv
<1>4. ASSUME switch[p] # on PROVE touched' /\ ~tidy'
  BY <1>4
<1>5. FollowInv'
  BY <1>2, <1>3, <1>4 DEF ListInv, FollowInv, WritesItsOwn, Followed, Visited
<1> QED
  BY <1>1, <1>5 DEF ListInv

\* The sweep goes on: what it leaves behind follows the switches it found.
LEMMA OnwardKeeps ==
    ASSUME ShopConstants, ListInv, StallInv', sweep.pc \in {"list", "write"}, Onward,
           UNCHANGED <<switch, touched>>,
           \A s \in Skus : source'[s].stock > 0 => source[s].stock > 0,
           \A s \in Skus : source'[s].stock > 0 /\ Seller[s] = Visited => Seller[s] \in sweep.on
    PROVE  ListInv'
<1>1. /\ sweep \in SweepRow /\ sweep.at \in DOMAIN Known
      /\ Followed /\ (~touched => sweep.on = Enabled)
  BY DEF ListInv, FollowInv, SweepRow
<1>2. Enabled' = Enabled
  BY DEF Enabled, On
<1>3. ASSUME NEW i \in DOMAIN Known, NEW s \in Skus, i <= sweep.at, Seller[s] = Known[i],
             source'[s].stock > 0
      PROVE  Seller[s] \in sweep.on
  <2>1. CASE i = sweep.at
    BY <1>3, <2>1 DEF Visited
  <2>2. CASE i < sweep.at
    BY <1>1, <1>3, <2>2 DEF Followed
  <2> QED
    BY <1>1, <1>3, <2>1, <2>2, KnownIsListed
<1>4. CASE sweep.at = Len(Known)
  <2>1. sweep' = AtRest /\ tidy' = ~touched
    BY <1>4 DEF Onward
  <2>2. ASSUME NEW s \in Skus, source'[s].stock > 0 PROVE Seller[s] \in sweep.on
    <3>1. PICK i \in DOMAIN Known : Seller[s] = Known[i]
      BY KnownIsListed DEF ShopConstants
    <3>2. i <= sweep.at
      BY <1>4, <3>1, KnownIsListed
    <3> QED
      BY <1>3, <2>2, <3>1, <3>2
  <2>3. FollowInv'
    BY <1>1, <1>2, <2>1, <2>2, RestIs DEF ListInv, FollowInv
  <2> QED
    BY <2>3 DEF ListInv
<1>5. CASE sweep.at # Len(Known)
  <2>1. PICK next : next = [sweep EXCEPT !.pc = "list", !.at = sweep.at + 1, !.rows = NoFetch, !.left = {}]
    OBVIOUS
  <2>2. sweep' = next /\ tidy' = tidy
    BY <1>5, <2>1 DEF Onward
  <2>3. sweep.at + 1 \in DOMAIN Known
    BY <1>1, <1>5, KnownIsListed
  <2>4. NoFetch \in Fetches
    BY DEF NoFetch, Fetches
  <2>5. /\ next \in SweepRow /\ next.pc = "list" /\ next.at = sweep.at + 1 /\ next.on = sweep.on
        /\ next.guest = sweep.guest
    BY <1>1, <2>1, <2>3, <2>4 DEF SweepRow
  <2>6. Followed'
    <3> SUFFICES ASSUME NEW i \in DOMAIN Known, NEW s \in Skus, i < sweep.at + 1,
                        Seller[s] = Known[i], source'[s].stock > 0
                 PROVE  Seller[s] \in sweep.on
      BY <2>2, <2>5 DEF Followed
    <3>1. i <= sweep.at
      BY <1>1, KnownIsListed
    <3> QED
      BY <1>3, <3>1
  <2>7. FollowInv'
    BY <1>1, <1>2, <2>2, <2>5, <2>6 DEF ListInv, FollowInv
  <2> QED
    BY <2>7 DEF ListInv
<1> QED
  BY <1>4, <1>5

\* What a listing of a supplier holds is that supplier's.
LEMMA ListingsAreTheirs ==
    ASSUME ShopConstants, ListInv, NEW p \in Providers, NEW rows,
           \/ rows \in Listings(p)
           \/ rows = NoFetch
           \/ Family(p) = "fivesim" /\ rows = sweep.guest
    PROVE  rows \in Rows(p)
<1>1. market \in [Skus -> [cost : Costs, stocked : BOOLEAN, rated : BOOLEAN]]
  BY DEF ListInv, StallInv
<1>2. NoFetch \in Rows(p)
  BY DEF NoFetch, Rows, Fetches
<1>3. ASSUME NEW r \in Rows(p), NEW balance PROVE Affordable(r, balance) \in Rows(p)
  BY DEF Affordable, Rows, Fetches
<1>4. PoolSkus(p) \in Rows(p)
  BY <1>1 DEF PoolSkus, PoolRow, Rows, Fetches
<1>5. ActivateSkus(p) \in Rows(p)
  BY <1>1 DEF ActivateSkus, ActivateRow, Rows, Fetches
<1>6. CASE Family(p) = "fivesim"
  <2>1. sweep.guest \in Rows(p)
    BY <1>6 DEF ListInv, FollowInv, Family
  <2> QED
    BY <1>2, <1>3, <1>6, <2>1 DEF Listings
<1>7. CASE Family(p) = "smspool"
  BY <1>2, <1>3, <1>4, <1>7 DEF Listings
<1>8. CASE Family(p) = "activate"
  BY <1>2, <1>5, <1>8 DEF Listings
<1> QED
  BY <1>6, <1>7, <1>8 DEF Family

LEMMA WritesKeeps ==
    ASSUME ShopConstants, ListInv, sweep.pc = "list", NEW rows \in Rows(Visited), Writes(Visited, rows),
           Visited \in sweep.on \/ rows = NoFetch,
           UNCHANGED <<market, source, offer, switch, touched, tidy>>
    PROVE  ListInv'
<1>1. StallInv'
  BY DEF ListInv, StallInv, OfferOf
<1>2. Enabled' = Enabled
  BY DEF Enabled, On
<1>3. PICK left, next :
         /\ left \subseteq Skus /\ next = [sweep EXCEPT !.pc = "write", !.rows = rows, !.left = left]
         /\ sweep' = next /\ \A s \in left : rows[s] > 0
  <2>1. PICK left : left = IF Visited \in Priced THEN {s \in Skus : rows[s] > 0} ELSE {}
    OBVIOUS
  <2>2. PICK next : next = [sweep EXCEPT !.pc = "write", !.rows = rows, !.left = left]
    OBVIOUS
  <2>3. sweep' = next
    BY <2>1, <2>2 DEF Writes
  <2>4. left \in SUBSET Skus /\ \A s \in left : rows[s] > 0
    BY <2>1
  <2> QED
    BY <2>2, <2>3, <2>4
<1>4. sweep \in SweepRow /\ rows \in Fetches
  BY DEF ListInv, FollowInv, Rows
<1>5. /\ next \in SweepRow /\ next.pc = "write" /\ next.at = sweep.at /\ next.on = sweep.on
      /\ next.guest = sweep.guest /\ next.rows = rows /\ next.left = left
  BY <1>3, <1>4 DEF SweepRow
<1>6. WritesItsOwn'
  <2>1. Visited' = Visited
    BY <1>3, <1>5 DEF Visited
  <2>2. \A s \in Skus : rows[s] > 0 => Seller[s] = Visited /\ Visited \in sweep.on
    BY DEF Rows, NoFetch
  <2> QED
    BY <1>3, <1>5, <2>1, <2>2 DEF WritesItsOwn
<1>7. FollowInv'
  BY <1>2, <1>3, <1>5, <1>6 DEF ListInv, FollowInv, Followed
<1> QED
  BY <1>1, <1>7 DEF ListInv

LEMMA ListingKeeps ==
    ASSUME ShopConstants, ListInv, ListProvider PROVE ListInv'
<1>1. /\ sweep.pc = "list" /\ UNCHANGED <<market, source, offer, switch, touched>>
      /\ IF Visited \in sweep.on \cap Configured THEN Lists(Visited)
         ELSE Writes(Visited, NoFetch) /\ UNCHANGED <<tidy, events>>
  BY DEF ListProvider, marketVars, listVars, switchVars
<1>2. PICK p \in Providers : p = Visited
  BY DEF ListInv, FollowInv, SweepRow, Visited, Providers
<1>3. StallInv'
  BY <1>1 DEF ListInv, StallInv, OfferOf
<1>4. CASE Visited \in sweep.on
  <2>1. ASSUME Onward PROVE ListInv'
    BY <1>1, <1>3, <1>4, <2>1, OnwardKeeps
  <2>2. ASSUME NEW rows, Writes(p, rows), tidy' = tidy,
               \/ rows \in Listings(p)
               \/ rows = NoFetch
               \/ Family(p) = "fivesim" /\ rows = sweep.guest
        PROVE  ListInv'
    <3>1. rows \in Rows(p)
      BY <2>2, ListingsAreTheirs
    <3> QED
      BY <1>1, <1>2, <1>4, <2>2, <3>1, WritesKeeps
  <2> QED
    BY <1>1, <1>2, <2>1, <2>2 DEF Lists
<1>5. CASE Visited \notin sweep.on
  <2>1. NoFetch \in Rows(p)
    BY ListingsAreTheirs
  <2> QED
    BY <1>1, <1>2, <1>5, <2>1, WritesKeeps
<1> QED
  BY <1>4, <1>5

LEMMA WriteSkuKeeps ==
    ASSUME ShopConstants, ListInv, NEW s \in Skus, WriteSku(s) PROVE ListInv'
<1>1. PICK cost, f :
         /\ cost = sweep.rows[s] /\ f = OfferOf(s, cost)
         /\ offer' = [offer EXCEPT ![f] = [quantity |-> 1, active |-> TRUE]]
         /\ source' = [source EXCEPT ![s] = [offer |-> f, cost |-> cost, stock |-> 1]]
  BY DEF WriteSku
<1>2. PICK left, next : /\ left = sweep.left \ {s} /\ next = [sweep EXCEPT !.left = left] /\ sweep' = next
  BY DEF WriteSku
<1>3. /\ sweep.pc = "write" /\ s \in sweep.left
      /\ UNCHANGED <<market, switch, touched, tidy>>
  BY DEF WriteSku, marketVars, switchVars
<1>4. sweep \in SweepRow /\ WritesItsOwn /\ cost > 0
  BY <1>1, <1>3 DEF ListInv, FollowInv
<1>5. cost \in Costs /\ Seller[s] = Visited /\ Visited \in sweep.on
  BY <1>1, <1>4 DEF WritesItsOwn, SweepRow, Fetches
<1>6. f \in Offers
  BY <1>1, <1>5, OfferIsOffered
<1>7. StallInv'
  BY <1>1, <1>3, <1>5, <1>6 DEF ListInv, StallInv, OfferOf
<1>8. Enabled' = Enabled
  BY <1>3 DEF Enabled, On
<1>9. /\ next \in SweepRow /\ next.pc = "write" /\ next.at = sweep.at /\ next.on = sweep.on
      /\ next.guest = sweep.guest /\ next.rows = sweep.rows /\ next.left = left
  BY <1>2, <1>3, <1>4 DEF SweepRow
<1>10. \A t \in Skus : source'[t].stock > 0 => source[t].stock > 0 \/ Seller[t] \in sweep.on
  BY <1>1, <1>5 DEF ListInv, StallInv
<1>11. FollowInv'
  <2>1. WritesItsOwn'
    BY <1>2, <1>4, <1>9 DEF WritesItsOwn, Visited
  <2>2. Followed'
    BY <1>2, <1>3, <1>9, <1>10 DEF Followed, ListInv, FollowInv
  <2>3. tidy => \A t \in Skus : source'[t].stock > 0 => Seller[t] \in Enabled
    BY <1>3, <1>10 DEF ListInv, FollowInv
  <2> QED
    BY <1>2, <1>3, <1>8, <1>9, <2>1, <2>2, <2>3 DEF ListInv, FollowInv
<1> QED
  BY <1>7, <1>11 DEF ListInv

LEMMA FinishProviderKeeps ==
    ASSUME ShopConstants, ListInv, FinishProvider PROVE ListInv'
<1>1. PICK seen : seen = IF Visited \in Priced THEN {s \in Skus : sweep.rows[s] > 0} ELSE {}
  OBVIOUS
<1>5. PICK rows : rows = [s \in Skus |-> IF Seller[s] = Visited /\ s \notin seen
                                        THEN [source[s] EXCEPT !.stock = 0] ELSE source[s]]
  OBVIOUS
<1>6. /\ source' = rows
      /\ offer' = [f \in Offers |->
                     [quantity |-> Cardinality({s \in Skus : rows[s].offer = f /\ rows[s].stock > 0}),
                      active |-> Cardinality({s \in Skus : rows[s].offer = f /\ rows[s].stock > 0}) > 0]]
  BY <1>1, <1>5 DEF FinishProvider
<1>2. /\ sweep.pc = "write" /\ Onward /\ UNCHANGED <<market, switch, touched>>
  BY DEF FinishProvider, marketVars, switchVars
<1>3. StallInv'
  <2>1. DOMAIN offer' = Offers /\ \A f \in Offers : offer'[f].active => offer'[f].quantity > 0
    BY <1>6
  <2>2. /\ rows \in [Skus -> [offer : Offers, cost : Costs, stock : {0, 1}]]
        /\ \A s \in Skus : rows[s].offer = source[s].offer /\ rows[s].cost = source[s].cost
    <3>1. source \in [Skus -> [offer : Offers, cost : Costs, stock : {0, 1}]]
      BY DEF ListInv, StallInv
    <3>2. ASSUME NEW s \in Skus
          PROVE  /\ rows[s] \in [offer : Offers, cost : Costs, stock : {0, 1}]
                 /\ rows[s].offer = source[s].offer /\ rows[s].cost = source[s].cost
      <4>1. PICK row : row = source[s] /\ row \in [offer : Offers, cost : Costs, stock : {0, 1}]
        BY <3>1
      <4>2. PICK dry : dry = [row EXCEPT !.stock = 0]
        OBVIOUS
      <4>3. dry \in [offer : Offers, cost : Costs, stock : {0, 1}] /\ dry.offer = row.offer /\ dry.cost = row.cost
        BY <4>1, <4>2
      <4>4. rows[s] \in {row, dry}
        BY <1>5, <4>1, <4>2
      <4> QED
        BY <4>1, <4>3, <4>4
    <3> QED
      BY <1>5, <3>2
  <2> QED
    BY <1>2, <1>6, <2>1, <2>2 DEF ListInv, StallInv, OfferOf
<1>4. ASSUME NEW s \in Skus, source'[s].stock > 0
      PROVE  source[s].stock > 0 /\ (Seller[s] = Visited => Seller[s] \in sweep.on)
  <2>1. ~(Seller[s] = Visited /\ s \notin seen) /\ source'[s] = source[s]
    BY <1>4, <1>5, <1>6 DEF ListInv, StallInv
  <2>2. s \in seen => sweep.rows[s] > 0
    BY <1>1
  <2> QED
    BY <1>2, <1>4, <2>1, <2>2 DEF ListInv, FollowInv, WritesItsOwn
<1> QED
  BY <1>2, <1>3, <1>4, OnwardKeeps

\* An order may dry a source up, and nothing else of the list.
LEMMA OrderLists ==
    ASSUME ShopConstants, ListInv, NEW o \in Purchases,
           \/ AskSource(o) \/ AskAgain(o) \/ RecoverRecentBuy(o)
    PROVE  ListInv'
<1>1. UNCHANGED <<market, switch, offer, sweep, touched, tidy>>
  BY DEF AskSource, AskAgain, RecoverRecentBuy, marketVars, switchVars
<1>2. source \in [Skus -> [offer : Offers, cost : Costs, stock : {0, 1}]]
  BY DEF ListInv, StallInv
<1>3. ASSUME NEW s, source' \in Dried(o, s) PROVE ListInv'
  <2>1. PICK stock : \/ source' = source
                     \/ source' = [source EXCEPT ![s].stock = stock] /\ stock \in {0, source[s].stock}
    BY <1>3 DEF Dried
  <2>2. /\ source' \in [Skus -> [offer : Offers, cost : Costs, stock : {0, 1}]]
        /\ \A t \in Skus : /\ source'[t].offer = source[t].offer
                           /\ source'[t].cost = source[t].cost
                           /\ source'[t].stock > 0 => source[t].stock > 0
    <3>1. CASE source' = source
      BY <1>2, <3>1
    <3>2. CASE source' = [source EXCEPT ![s].stock = stock] /\ stock \in {0, source[s].stock} /\ s \in Skus
      <4>1. PICK row : row = source[s] /\ row \in [offer : Offers, cost : Costs, stock : {0, 1}]
        BY <1>2, <3>2
      <4>2. PICK dry : dry = [row EXCEPT !.stock = stock]
        OBVIOUS
      <4>3. /\ dry \in [offer : Offers, cost : Costs, stock : {0, 1}] /\ dry.offer = row.offer
            /\ dry.cost = row.cost /\ (dry.stock > 0 => row.stock > 0)
        <5>1. stock \in {0, 1} /\ (stock > 0 => row.stock > 0)
          BY <3>2, <4>1
        <5>2. dry = [offer |-> row.offer, cost |-> row.cost, stock |-> stock]
          BY <4>1, <4>2
        <5> QED
          BY <4>1, <5>1, <5>2
      <4>4. source' = [source EXCEPT ![s] = dry]
        BY <3>2, <4>1, <4>2
      <4> QED
        BY <1>2, <4>1, <4>3, <4>4
    <3>3. CASE source' = [source EXCEPT ![s].stock = stock] /\ s \notin Skus
      <4>1. source' = source
        BY <1>2, <3>3
      <4> QED
        BY <1>2, <4>1
    <3> QED
      BY <2>1, <3>1, <3>2, <3>3
  <2> QED
    BY <1>1, <2>2, StockFalls
<1>4. ASSUME source' = source PROVE ListInv'
  BY <1>1, <1>2, <1>4, StockFalls
<1>5. ASSUME NEW s, NEW n, NEW left, NEW outcome, Handle(o, s, n, left, outcome) PROVE ListInv'
  BY <1>3, <1>4, <1>5 DEF Handle
<1>6. ASSUME NEW s, NEW n, NEW again, Ask(o, s, n, again) PROVE ListInv'
  BY <1>4, <1>5, <1>6 DEF Ask
<1>7. CASE AskSource(o)
  BY <1>5, <1>6, <1>7 DEF AskSource
<1>8. CASE AskAgain(o)
  BY <1>6, <1>8 DEF AskAgain
<1>9. CASE RecoverRecentBuy(o)
  BY <1>5, <1>9 DEF RecoverRecentBuy
<1> QED
  BY <1>7, <1>8, <1>9

LEMMA NothingListed ==
    ASSUME ListInv, UNCHANGED <<market, switch, source, offer, sweep, touched, tidy>>
    PROVE  ListInv'
<1>1. Enabled' = Enabled
  BY DEF Enabled, On
<1> QED
  BY <1>1 DEF ListInv, StallInv, FollowInv, WritesItsOwn, Followed, Visited, OfferOf

LEMMA SweepBegins ==
    ASSUME ShopConstants, ListInv, BeginShopSweep \/ LoadSwitches \/ DropSweep PROVE ListInv'
<1>1. UNCHANGED <<market, switch, source, offer, tidy>>
  BY DEF BeginShopSweep, LoadSwitches, DropSweep, marketVars, listVars, switchVars
<1>2. StallInv'
  BY <1>1 DEF ListInv, StallInv, OfferOf
<1>3. Enabled' = Enabled /\ Enabled \in SUBSET Providers
  BY <1>1 DEF Enabled, On, ShopConstants
<1>4. market \in [Skus -> [cost : Costs, stocked : BOOLEAN, rated : BOOLEAN]]
  BY DEF ListInv, StallInv
<1>5. AtRest \in SweepRow /\ AtRest.guest \in Rows("fivesim") /\ AtRest.pc = "rest" /\ AtRest.at = 1
  BY RestIs
<1>6. CASE BeginShopSweep
  <2>1. FiveSimSkus \in Rows("fivesim")
    BY <1>4 DEF FiveSimSkus, Rows, Fetches
  <2>2. PICK began, next :
           began \in GuestPrices /\ next = [began EXCEPT !.pc = "load"] /\ sweep' = next /\ touched' = touched
    BY <1>6 DEF BeginShopSweep, switchVars
  <2>3. began \in SweepRow /\ began.at = 1 /\ began.guest \in Rows("fivesim")
    <3>1. PICK guest : guest = FiveSimSkus
      OBVIOUS
    <3>2. guest \in Fetches /\ guest \in Rows("fivesim")
      BY <2>1, <3>1 DEF Rows
    <3>3. PICK read : read = [AtRest EXCEPT !.guest = guest, !.guested = TRUE]
      OBVIOUS
    <3>4. read \in SweepRow /\ read.at = 1 /\ read.guest = guest
      BY <1>5, <3>2, <3>3 DEF SweepRow
    <3>5. began \in {read, AtRest}
      BY <2>2, <3>1, <3>3 DEF GuestPrices
    <3> QED
      BY <1>5, <3>2, <3>4, <3>5
  <2>4. next \in SweepRow /\ next.pc = "load" /\ next.at = 1 /\ next.guest = began.guest
    BY <2>2, <2>3 DEF SweepRow
  <2>5. FollowInv'
    BY <1>1, <1>3, <2>2, <2>3, <2>4 DEF ListInv, FollowInv
  <2> QED
    BY <1>2, <2>5 DEF ListInv
<1>7. CASE LoadSwitches
  <2>1. PICK on, next : /\ on = Enabled /\ next = [sweep EXCEPT !.pc = "list", !.on = on]
                        /\ sweep' = next
    BY <1>7 DEF LoadSwitches
  <2>2. touched' = FALSE /\ sweep.at = 1 /\ sweep \in SweepRow /\ sweep.guest \in Rows("fivesim")
    BY <1>7 DEF LoadSwitches, ListInv, FollowInv
  <2>3. /\ next \in SweepRow /\ next.pc = "list" /\ next.at = 1 /\ next.on = on
        /\ next.guest = sweep.guest
    BY <1>3, <2>1, <2>2 DEF SweepRow
  <2>4. Followed'
    BY <2>1, <2>3, KnownIsListed DEF Followed
  <2>5. FollowInv'
    BY <1>1, <1>3, <2>1, <2>2, <2>3, <2>4 DEF ListInv, FollowInv
  <2> QED
    BY <1>2, <2>5 DEF ListInv
<1>8. CASE DropSweep
  <2>1. sweep' = AtRest /\ touched' = touched
    BY <1>8 DEF DropSweep, switchVars
  <2>2. FollowInv'
    BY <1>1, <1>3, <1>5, <2>1 DEF ListInv, FollowInv
  <2> QED
    BY <1>2, <2>2 DEF ListInv
<1> QED
  BY <1>6, <1>7, <1>8

LEMMA MarketKeeps == ASSUME ShopConstants, ListInv, MarketMoves PROVE ListInv'
<1>1. UNCHANGED <<switch, source, offer, sweep, touched, tidy>>
  BY DEF MarketMoves, listVars, switchVars
<1>2. market' \in [Skus -> [cost : Costs, stocked : BOOLEAN, rated : BOOLEAN]]
  <2>1. market \in [Skus -> [cost : Costs, stocked : BOOLEAN, rated : BOOLEAN]]
    BY DEF ListInv, StallInv
  <2>2. CASE market' = market
    BY <2>1, <2>2
  <2>3. CASE \E s \in Skus :
               \/ \E c \in Costs \ {market[s].cost} : market' = [market EXCEPT ![s].cost = c]
               \/ market' = [market EXCEPT ![s].stocked = ~@]
               \/ market' = [market EXCEPT ![s].rated = ~@]
    <3>1. PICK s \in Skus, c \in Costs, stocked \in BOOLEAN, rated \in BOOLEAN :
             \/ market' = [market EXCEPT ![s].cost = c]
             \/ market' = [market EXCEPT ![s].stocked = stocked]
             \/ market' = [market EXCEPT ![s].rated = rated]
      BY <2>1, <2>3
    <3>2. PICK row : row = market[s] /\ row \in [cost : Costs, stocked : BOOLEAN, rated : BOOLEAN]
      BY <2>1
    <3>3. /\ [row EXCEPT !.cost = c] \in [cost : Costs, stocked : BOOLEAN, rated : BOOLEAN]
          /\ [row EXCEPT !.stocked = stocked] \in [cost : Costs, stocked : BOOLEAN, rated : BOOLEAN]
          /\ [row EXCEPT !.rated = rated] \in [cost : Costs, stocked : BOOLEAN, rated : BOOLEAN]
      BY <3>2
    <3>4. PICK next \in [cost : Costs, stocked : BOOLEAN, rated : BOOLEAN] :
             market' = [market EXCEPT ![s] = next]
      BY <3>1, <3>2, <3>3
    <3> QED
      BY <2>1, <3>4
  <2> QED
    BY <2>2, <2>3 DEF MarketMoves
<1>3. Enabled' = Enabled
  BY <1>1 DEF Enabled, On
<1> QED
  BY <1>1, <1>2, <1>3 DEF ListInv, StallInv, FollowInv, WritesItsOwn, Followed, Visited, OfferOf

LEMMA ListInvStep == ASSUME ShopConstants, ListInv, [ShopNext]_shopVars PROVE ListInv'
<1>1. CASE UNCHANGED shopVars
  BY <1>1, NothingListed DEF shopVars, marketVars, listVars, switchVars
<1>2. CASE MarketMoves
  BY <1>2, MarketKeeps
<1>3. CASE SwitchStep
  <2>1. ASSUME BeginSeed PROVE ListInv'
    BY <2>1, NothingListed DEF BeginSeed, marketVars, listVars
  <2>2. ASSUME SeedSwitch PROVE ListInv'
    <3>1. PICK p : \E on \in BOOLEAN :
             /\ switch' = [switch EXCEPT ![p] = on]
             /\ touched' = (touched \/ switch[p] # on) /\ tidy' = (tidy /\ switch[p] = on)
      BY <2>2 DEF SeedSwitch, WriteSwitch
    <3>2. UNCHANGED <<market, source, offer, sweep>>
      BY <2>2 DEF SeedSwitch, marketVars, listVars
    <3> QED
      BY <3>1, <3>2, SwitchKeeps
  <2>3. ASSUME NEW d \in Dashboards, BeginPut(d) \/ StoreFails(d) PROVE ListInv'
    BY <2>3, NothingListed DEF BeginPut, StoreFails, marketVars, listVars
  <2>4. ASSUME NEW d \in Dashboards, StoreSwitch(d) PROVE ListInv'
    <3>1. PICK p : \E on \in BOOLEAN :
             /\ switch' = [switch EXCEPT ![p] = on]
             /\ touched' = (touched \/ switch[p] # on) /\ tidy' = (tidy /\ switch[p] = on)
      <4>1. PICK p, wanted : WriteSwitch(p, p \in wanted)
        BY <2>4 DEF StoreSwitch
      <4>2. CASE p \in wanted
        <5>1. (p \in wanted) = TRUE
          BY <4>2
        <5>2. WriteSwitch(p, TRUE)
          BY <4>1, <5>1, Zenon
        <5> QED
          BY <5>2 DEF WriteSwitch
      <4>3. CASE p \notin wanted
        <5>1. (p \in wanted) = FALSE
          BY <4>3
        <5>2. WriteSwitch(p, FALSE)
          BY <4>1, <5>1, Zenon
        <5> QED
          BY <5>2 DEF WriteSwitch
      <4> QED
        BY <4>2, <4>3
    <3>2. UNCHANGED <<market, source, offer, sweep>>
      BY <2>4 DEF StoreSwitch, marketVars, listVars
    <3> QED
      BY <3>1, <3>2, SwitchKeeps
  <2> QED
    BY <1>3, <2>1, <2>2, <2>3, <2>4 DEF SwitchStep
<1>4. CASE SweepStep
  BY <1>4, SweepBegins, ListingKeeps, FinishProviderKeeps, WriteSkuKeeps DEF SweepStep
<1>5. CASE OrderStep
  <2>1. PICK o \in Purchases : BuyStep(o) \/ Poll(o)
    BY <1>5 DEF OrderStep
  <2>2. CASE AskSource(o) \/ AskAgain(o) \/ RecoverRecentBuy(o)
    BY <2>2, OrderLists
  <2>3. CASE ~(AskSource(o) \/ AskAgain(o) \/ RecoverRecentBuy(o))
    <3>1. UNCHANGED <<market, switch, source, offer, sweep, touched, tidy>>
      BY <2>1, <2>3 DEF BuyStep, PlaceOrder, Pin, Assign, GiveBack, Doubt, TakeOver, Perish, Poll,
                        marketVars, listVars, switchVars
    <3> QED
      BY <3>1, NothingListed
  <2> QED
    BY <2>2, <2>3
<1> QED
  BY <1>1, <1>2, <1>3, <1>4, <1>5 DEF ShopNext

\* What the list shows can be ordered, once a sweep has followed the switches.
THEOREM ListIsForSale ==
    ASSUME ShopConstants, PricingConstants PROVE ShopSpec => []ListedCanBeBought
<1>1. ShopInit => ListInv
  BY ListStarts
<1>2. ListInv /\ [ShopNext]_shopVars => ListInv'
  BY ListInvStep
<1>3. ListInv => ListedCanBeBought
  BY ListedIsAccepted DEF ListedCanBeBought
<1> QED
  BY <1>1, <1>2, <1>3, PTL DEF ShopSpec

-----------------------------------------------------------------------------
(* The types of the catalogue and of the shop, where the invariants above  *)
(* leave them open.                                                        *)

PriceCell == [price : {0} \cup {SalePrice(c) : c \in AppCosts}, cost : {0} \cup AppCosts, stock : {0, 1}]

PriceBounds ==
    /\ dollars \in BOOLEAN /\ clean \in BOOLEAN /\ mirrored \in BOOLEAN
    /\ price \in [Isos -> [Apps -> PriceCell]]
    /\ shifts \in 0..MaxShifts

\* What a listing's row is priced at.
LEMMA RepricedTyped ==
    ASSUME NEW old \in PriceCell, NEW row \in Listing, row # Unlisted
    PROVE  Repriced(old, row) \in PriceCell
<1>1. row.cost \in AppCosts /\ row.qty \in {0, 1}
  BY DEF Listing
<1>2. Repriced(old, row).price \in {old.price, SalePrice(row.cost)}
  BY DEF Repriced
<1>3. old.price \in {0} \cup {SalePrice(c) : c \in AppCosts}
  BY DEF PriceCell
<1>4. PICK p : p \in {0} \cup {SalePrice(c) : c \in AppCosts} /\ p = Repriced(old, row).price
  BY <1>1, <1>2, <1>3
<1>5. Repriced(old, row) = [price |-> p, cost |-> row.cost, stock |-> row.qty]
  BY <1>4 DEF Repriced
<1> QED
  BY <1>1, <1>4, <1>5 DEF PriceCell

LEMMA PricesBounded ==
    ASSUME PriceListConstants, PriceInv, PriceBounds, [PriceListNext]_priceVars
    PROVE  PriceBounds'
<1>0. Shifts => shifts' \in 0..MaxShifts
  BY DEF Shifts, PriceBounds, PriceListConstants
<1>1. CASE UNCHANGED priceVars
  BY <1>1 DEF priceVars, PriceBounds
<1>2. CASE ListingMoves
  BY <1>0, <1>2 DEF ListingMoves, PriceBounds
<1>3. CASE BeginCatalogue
  BY <1>3 DEF BeginCatalogue, PriceBounds
<1>4. CASE UpsertCountry \/ ReadCountry \/ ReadFails
  <2>1. UNCHANGED <<dollars, price>> /\ (shifts' = shifts \/ Shifts)
    BY <1>4 DEF UpsertCountry, ReadCountry, ReadFails
  <2>2. UNCHANGED <<clean, mirrored>> \/ NextCountry(clean) \/ NextCountry(FALSE)
    BY <1>4 DEF UpsertCountry, ReadCountry, ReadFails
  <2> QED
    <3>1. shifts' \in 0..MaxShifts /\ UNCHANGED <<dollars, price>>
      BY <1>0, <2>1 DEF PriceBounds
    <3>2. clean' \in BOOLEAN /\ mirrored' \in BOOLEAN
      BY <2>2 DEF NextCountry, PriceBounds
    <3> QED
      BY <3>1, <3>2 DEF PriceBounds
<1>5. CASE UpsertPrices
  <2>1. UNCHANGED <<dollars, shifts>> /\ NextCountry(clean)
    BY <1>5 DEF UpsertPrices
  <2>2. PICK code \in Isos, rows \in [Apps -> Listing] :
           price' = [price EXCEPT ![code] =
                       [p \in Apps |-> IF rows[p] = Unlisted THEN @[p] ELSE Repriced(@[p], rows[p])]]
    <3>1. Key \in CountryKeys /\ visit.rows \in [Apps -> Listing]
      BY DEF PriceInv, Visits, Key, CountryKeys
    <3>2. IsoOf[Key] \in Isos
      BY <3>1 DEF PriceListConstants
    <3> QED
      BY <1>5, <3>1, <3>2 DEF UpsertPrices
  <2>3. price \in [Isos -> [Apps -> PriceCell]]
    BY DEF PriceBounds
  <2>4. \A p \in Apps : (IF rows[p] = Unlisted THEN price[code][p] ELSE Repriced(price[code][p], rows[p]))
                        \in PriceCell
    BY <2>2, <2>3, RepricedTyped
  <2>5. price' \in [Isos -> [Apps -> PriceCell]]
    BY <2>2, <2>3, <2>4
  <2> QED
    BY <2>1, <2>5 DEF NextCountry, PriceBounds
<1>6. CASE DropCatalogue
  BY <1>0, <1>6 DEF DropCatalogue, PriceBounds
<1> QED
  BY <1>1, <1>2, <1>3, <1>4, <1>5, <1>6 DEF PriceListNext

\* The catalogue keeps its types, for any keys, codes, products and costs.
THEOREM PriceListTyped == ASSUME PriceListConstants PROVE PriceListSpec => []PriceListTypeOK
<1>1. PriceListInit => PriceInv /\ PriceBounds
  <2>1. NoPrice \in PriceCell
    BY DEF NoPrice, PriceCell
  <2>2. MaxShifts \in Nat
    BY DEF PriceListConstants
  <2> SUFFICES ASSUME PriceListInit PROVE PriceInv /\ PriceBounds
    OBVIOUS
  <2>3. /\ dollars \in BOOLEAN /\ clean = FALSE /\ mirrored = FALSE /\ shifts = 0
        /\ price = [c \in Isos |-> [p \in Apps |-> NoPrice]]
    BY DEF PriceListInit
  <2>4. price \in [Isos -> [Apps -> PriceCell]]
    BY <2>1, <2>3
  <2>5. shifts \in 0..MaxShifts
    BY <2>2, <2>3
  <2> QED
    BY <2>3, <2>4, <2>5, PriceStarts DEF PriceBounds
<1>2. PriceInv /\ PriceBounds /\ [PriceListNext]_priceVars => PriceInv' /\ PriceBounds'
  BY PriceSteps, PricesBounded
<1>3. PriceInv /\ PriceBounds => PriceListTypeOK
  BY DEF PriceInv, PriceBounds, PriceListTypeOK, PriceCell, Visits
<1> QED
  BY <1>1, <1>2, <1>3, PTL DEF PriceListSpec

-----------------------------------------------------------------------------
(* The other types of the shop.                                            *)

DeskAt == [wanted : SUBSET Providers, at : 0..Len(ByName)]

ShopBounds ==
    /\ wallet \in [Providers -> {0} \cup Costs]
    /\ offer \in [Offers -> [quantity : 0..Cardinality(Skus), active : BOOLEAN]]
    /\ desk \in [Dashboards -> DeskAt]
    /\ seeding \in 0..Len(Known)

\* How many sources an offer can have.
LEMMA SourcesCounted ==
    ASSUME IsFiniteSet(Skus), NEW T \in SUBSET Skus
    PROVE  Cardinality(T) \in 0..Cardinality(Skus)
BY FS_Subset, FS_CardinalityType

LEMMA SwitchesBounded ==
    ASSUME ShopConstants, NameOrder, ShopBounds, SwitchStep PROVE ShopBounds'
<1>0. /\ Len(ByName) \in Nat /\ Len(ByName) >= 1 /\ Len(Known) \in Nat /\ Len(Known) >= 1
  <2>0. /\ "fivesim" \in Providers /\ Providers = {ByName[i] : i \in DOMAIN ByName}
        /\ ByName \in Seq(Providers) /\ Known \in Seq(Providers)
    BY DEF ShopConstants, NameOrder
  <2>1. DOMAIN ByName # {} /\ DOMAIN Known # {}
    BY <2>0 DEF Providers
  <2> QED
    BY <2>0, <2>1
<1>1. UNCHANGED <<wallet, offer>>
  BY DEF SwitchStep, BeginSeed, SeedSwitch, BeginPut, StoreSwitch, StoreFails, marketVars, listVars
<1>2. CASE BeginSeed
  BY <1>0, <1>1, <1>2 DEF BeginSeed, ShopBounds
<1>3. CASE SeedSwitch
  <2>1. seeding' = (seeding + 1) % (Len(Known) + 1) /\ desk' = desk
    BY <1>3 DEF SeedSwitch
  <2>2. seeding' \in 0..Len(Known)
    BY <1>0, <2>1 DEF ShopBounds
  <2> QED
    BY <1>1, <2>1, <2>2 DEF ShopBounds
<1>4. ASSUME NEW d \in Dashboards, BeginPut(d) PROVE ShopBounds'
  <2>1. PICK wanted \in SUBSET Providers : desk' = [desk EXCEPT ![d] = [wanted |-> wanted, at |-> 1]]
    BY <1>4 DEF BeginPut
  <2>2. [wanted |-> wanted, at |-> 1] \in DeskAt
    BY <1>0 DEF DeskAt
  <2>3. seeding' = seeding
    BY <1>4 DEF BeginPut
  <2> QED
    BY <1>1, <2>1, <2>2, <2>3 DEF ShopBounds
<1>5. ASSUME NEW d \in Dashboards, StoreSwitch(d) \/ StoreFails(d) PROVE ShopBounds'
  <2>1. desk[d] \in DeskAt /\ NoDesk \in DeskAt
    BY <1>0 DEF ShopBounds, DeskAt, NoDesk
  <2>2. desk[d].at # Len(ByName) => [wanted |-> desk[d].wanted, at |-> desk[d].at + 1] \in DeskAt
    <3>1. desk[d].at \in Nat /\ desk[d].at <= Len(ByName)
      BY <1>0, <2>1 DEF DeskAt
    <3>2. desk[d].at # Len(ByName) => desk[d].at + 1 \in 0..Len(ByName)
      BY <1>0, <3>1
    <3> QED
      BY <2>1, <3>2 DEF DeskAt
  <2>3. PICK row \in DeskAt : desk' = [desk EXCEPT ![d] = row]
    <3>1. CASE StoreFails(d)
      BY <2>1, <3>1 DEF StoreFails
    <3>2. CASE StoreSwitch(d)
      <4>1. desk' = [desk EXCEPT ![d] = IF desk[d].at = Len(ByName) THEN NoDesk
                                        ELSE [wanted |-> desk[d].wanted, at |-> desk[d].at + 1]]
        BY <3>2 DEF StoreSwitch
      <4> QED
        BY <2>1, <2>2, <4>1
    <3> QED
      BY <1>5, <3>1, <3>2
  <2>4. seeding' = seeding
    BY <1>5 DEF StoreSwitch, StoreFails
  <2> QED
    BY <1>1, <2>3, <2>4 DEF ShopBounds
<1> QED
  BY <1>2, <1>3, <1>4, <1>5 DEF SwitchStep

LEMMA ShopBounded ==
    ASSUME ShopConstants, NameOrder, IsFiniteSet(Skus), ListInv, ShopBounds, [ShopNext]_shopVars
    PROVE  ShopBounds'
<1>1. CASE UNCHANGED <<wallet, offer, desk, seeding>>
  BY <1>1 DEF ShopBounds
<1>2. CASE UNCHANGED shopVars
  BY <1>1, <1>2 DEF shopVars, marketVars, listVars, switchVars
<1>3. CASE MarketMoves
  <2>1. UNCHANGED <<offer, desk, seeding>>
    BY <1>3 DEF MarketMoves, listVars, switchVars
  <2>2. wallet' \in [Providers -> {0} \cup Costs]
    BY <1>3 DEF MarketMoves, ShopBounds
  <2> QED
    BY <2>1, <2>2 DEF ShopBounds
<1>4. CASE SwitchStep
  BY <1>4, SwitchesBounded
<1>5. ASSUME NEW s \in Skus, WriteSku(s) PROVE ShopBounds'
  <2>1. PICK f : offer' = [offer EXCEPT ![f] = [quantity |-> 1, active |-> TRUE]]
    BY <1>5 DEF WriteSku
  <2>2. 1 \in 0..Cardinality(Skus)
    <3>1. Cardinality({s}) = 1 /\ {s} \in SUBSET Skus
      BY FS_Singleton
    <3> QED
      BY <3>1, SourcesCounted
  <2>3. offer' \in [Offers -> [quantity : 0..Cardinality(Skus), active : BOOLEAN]]
    BY <2>1, <2>2 DEF ShopBounds
  <2>4. UNCHANGED <<wallet, desk, seeding>>
    BY <1>5 DEF WriteSku, marketVars, switchVars
  <2> QED
    BY <2>3, <2>4 DEF ShopBounds
<1>6. CASE FinishProvider
  <2> DEFINE Count(f) == Cardinality({s \in Skus : source'[s].offer = f /\ source'[s].stock > 0})
  <2>1. offer' = [f \in Offers |-> [quantity |-> Count(f), active |-> Count(f) > 0]]
    BY <1>6 DEF FinishProvider
  <2>2. \A f \in Offers : Count(f) \in 0..Cardinality(Skus)
    BY SourcesCounted
  <2> HIDE DEF Count
  <2>3. offer' \in [Offers -> [quantity : 0..Cardinality(Skus), active : BOOLEAN]]
    BY <2>1, <2>2
  <2>4. UNCHANGED <<wallet, desk, seeding>>
    BY <1>6 DEF FinishProvider, marketVars, switchVars
  <2> QED
    BY <2>3, <2>4 DEF ShopBounds
<1>7. CASE BeginShopSweep \/ LoadSwitches \/ ListProvider \/ DropSweep
  BY <1>1, <1>7 DEF BeginShopSweep, LoadSwitches, ListProvider, DropSweep, marketVars, listVars, switchVars
<1>8. CASE OrderStep
  BY <1>1, <1>8 DEF OrderStep, BuyStep, PlaceOrder, AskSource, AskAgain, RecoverRecentBuy, Pin, Assign,
                    GiveBack, Doubt, TakeOver, Perish, Poll, marketVars, listVars, switchVars
<1> QED
  BY <1>2, <1>3, <1>4, <1>5, <1>6, <1>7, <1>8 DEF ShopNext, SweepStep

LEMMA ShopBoundsStart ==
    ASSUME ShopConstants, NameOrder, IsFiniteSet(Skus), Skus # {}, ShopInit PROVE ShopBounds
<1>1. Max(Costs) \in Costs
  <2>1. Costs \subseteq Nat /\ IsFiniteSet(Costs) /\ Costs # {}
    BY DEF ShopConstants
  <2>2. PICK bound \in Nat : \A y \in Costs : y <= bound
    BY <2>1, FiniteIsBounded
  <2> QED
    BY <2>1, <2>2, BoundedHasMax
<1>2. offer \in [Offers -> [quantity : 0..Cardinality(Skus), active : BOOLEAN]]
  <2> DEFINE Count(f) == Cardinality({s \in Skus : OfferOf(s, Opening[s]) = f})
  <2>1. offer = [f \in Offers |-> [quantity |-> Count(f), active |-> Count(f) > 0]]
    BY DEF ShopInit
  <2>2. \A f \in Offers : Count(f) \in 0..Cardinality(Skus)
    BY SourcesCounted
  <2> HIDE DEF Count
  <2> QED
    BY <2>1, <2>2
<1>3. Len(ByName) \in Nat /\ Len(Known) \in Nat
  BY DEF ShopConstants, NameOrder
<1> QED
  BY <1>1, <1>2, <1>3 DEF ShopInit, ShopBounds, DeskAt, NoDesk

LEMMA ShopTypes ==
    ASSUME SaleInv, ListInv, ShopBounds PROVE ShopTypeOK
<1>1. sweep.pc \in {"rest", "load", "list", "write"} /\ sweep.guest \in Fetches /\ sweep.rows \in Fetches
  BY DEF ListInv, FollowInv, SweepRow
<1>2. \A o \in Purchases :
         /\ purchase[o].status \in {"none", "reserved", "awaiting", "review", "failed"}
         /\ purchase[o].pc \in {"idle", "shop", "again", "history", "pin", "assign", "refuse",
                                "unknown", "done", "dead"}
  BY DEF SaleInv, OrderRow
<1> QED
  BY <1>1, <1>2 DEF SaleInv, ListInv, StallInv, FollowInv, ShopBounds, DeskAt, ShopTypeOK

\* The shop keeps its types, for any suppliers, costs, sweeps and orders.
THEOREM ShopTyped ==
    ASSUME ShopConstants, NameOrder, IsFiniteSet(Skus), Skus # {} PROVE ShopSpec => []ShopTypeOK
<1>1. ShopInit => SaleInv /\ ListInv /\ ShopBounds
  BY SaleStarts, ListStarts, ShopBoundsStart
<1>2. SaleInv /\ ListInv /\ ShopBounds /\ [ShopNext]_shopVars
         => SaleInv' /\ ListInv' /\ ShopBounds'
  BY SaleInvStep, ListInvStep, ShopBounded
<1>3. SaleInv /\ ListInv /\ ShopBounds => ShopTypeOK
  BY ShopTypes
<1> QED
  BY <1>1, <1>2, <1>3, PTL DEF ShopSpec
===============================================================================
