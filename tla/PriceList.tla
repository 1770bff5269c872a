------------------------------- MODULE PriceList -------------------------------
(***************************************************************************)
(* The catalogue (sync in number_catalog.rs): the sweep reads 5SIM's       *)
(* countries and, one after another, what each sells, into                 *)
(* number_countries and number_prices.  A country is sold under one key of *)
(* 5SIM's, and two keys may claim one ISO code.  Only this sweep writes    *)
(* the two tables.  The offers, which it feeds as well, are in Shop.       *)
(***************************************************************************)
EXTENDS Pricing, Sequences

CONSTANTS KeyOrder,       \* 5SIM's keys of countries, sorted
          IsoOf,          \* the code each claims
          Apps,           \* products
          AppCosts,       \* costs there may be
          StartList,      \* environment: what 5SIM lists at first
          NoHolder,
          MaxShifts       \* bound: changes of 5SIM's list, and faults

CountryKeys == {KeyOrder[i] : i \in DOMAIN KeyOrder}
Isos        == {IsoOf[k] : k \in CountryKeys}
Unlisted    == [cost |-> 0, qty |-> 0]
Listing     == [cost : AppCosts, qty : {0, 1}] \cup {Unlisted}

\* A sorted map: each key once, and there is one.
ASSUME PriceListConstants ==
    /\ KeyOrder \in Seq(CountryKeys) \ {<<>>}
    /\ \A i, j \in DOMAIN KeyOrder : KeyOrder[i] = KeyOrder[j] => i = j
    /\ IsoOf \in [CountryKeys -> Isos] /\ NoHolder \notin CountryKeys
    /\ AppCosts \subseteq Nat \ {0} /\ MaxShifts \in Nat
    /\ StartList \in [CountryKeys -> [Apps -> Listing]]

VARIABLES dollars,        \* prices_in_usd
          listing,        \* 5SIM's, by key and product
          holder,         \* number_countries: the provider_country of each code
          price,          \* number_prices, by code and product; NoPrice before the first
          visit,          \* the sweep: the key it is at, and what it read of it
          clean, mirrored,\* nothing went wrong or changed since the sweep began; since the last one
          shifts

priceVars == <<dollars, listing, holder, price, visit, clean, mirrored, shifts>>

NoPrice == [price |-> 0, cost |-> 0, stock |-> 0]
NoVisit == [pc |-> "rest", at |-> 1, rows |-> [p \in Apps |-> Unlisted]]

PriceListTypeOK ==
    /\ dollars \in BOOLEAN
    /\ listing \in [CountryKeys -> [Apps -> Listing]]
    /\ holder \in [Isos -> CountryKeys \cup {NoHolder}]
    /\ price \in [Isos -> [Apps -> [price : {0} \cup {SalePrice(c) : c \in AppCosts},
                                    cost : {0} \cup AppCosts, stock : {0, 1}]]]
    /\ visit \in [pc : {"rest", "country", "read", "write"}, at : DOMAIN KeyOrder,
                  rows : [Apps -> Listing]]
    /\ clean \in BOOLEAN /\ mirrored \in BOOLEAN
    /\ shifts \in 0..MaxShifts

\* Whoever held a code before the rule about two keys existed may hold it still.
PriceListInit ==
    /\ dollars \in BOOLEAN
    /\ listing = StartList
    /\ holder \in {h \in [Isos -> CountryKeys \cup {NoHolder}] :
                      \A c \in Isos : h[c] = NoHolder \/ IsoOf[h[c]] = c}
    /\ price = [c \in Isos |-> [p \in Apps |-> NoPrice]]
    /\ visit = NoVisit
    /\ clean = FALSE /\ mirrored = FALSE
    /\ shifts = 0

Shifts == shifts < MaxShifts /\ shifts' = shifts + 1

-----------------------------------------------------------------------------
ListingMoves ==
    /\ Shifts
    /\ \E k \in CountryKeys, p \in Apps, row \in Listing :
         /\ row # listing[k][p]
         /\ listing' = [listing EXCEPT ![k][p] = row]
    /\ clean' = FALSE /\ mirrored' = FALSE
    /\ UNCHANGED <<dollars, holder, price, visit>>

Key == KeyOrder[visit.at]

Sorts(k, l) == \E i, j \in DOMAIN KeyOrder : i < j /\ KeyOrder[i] = k /\ KeyOrder[j] = l

\* Every fifteen minutes; the keys in their order.
BeginCatalogue ==
    /\ visit.pc = "rest"
    /\ visit' = [NoVisit EXCEPT !.pc = "country"]
    /\ clean' = TRUE
    /\ UNCHANGED <<dollars, listing, holder, price, mirrored, shifts>>

\* On to the next key, or to the offers.
NextCountry(sofar) ==
    /\ clean' = sofar
    /\ IF visit.at = Len(KeyOrder) THEN visit' = NoVisit /\ mirrored' = sofar
       ELSE visit' = [NoVisit EXCEPT !.pc = "country", !.at = visit.at + 1] /\ UNCHANGED mirrored

\* Whether a key sells under its code: it does already, nobody does, or a key
\* that sorts after it does.
Wins(k) ==
    LET h == holder[IsoOf[k]]
    IN h \in {k, NoHolder} \/ Sorts(k, h)

\* Mutant: whoever arrived first.
UpsertCountryFirst ==
    /\ visit.pc = "country"
    /\ IF holder[IsoOf[Key]] \in {Key, NoHolder}
       THEN /\ holder' = [holder EXCEPT ![IsoOf[Key]] = Key]
            /\ visit' = [visit EXCEPT !.pc = "read"]
            /\ UNCHANGED <<clean, mirrored>>
       ELSE NextCountry(clean) /\ UNCHANGED holder
    /\ UNCHANGED <<dollars, listing, price, shifts>>

\* upsert_country: a row that is taken over keeps its prices.
UpsertCountry ==
    /\ visit.pc = "country"
    /\ IF Wins(Key)
       THEN /\ holder' = [holder EXCEPT ![IsoOf[Key]] = Key]
            /\ visit' = [visit EXCEPT !.pc = "read"]
            /\ UNCHANGED <<clean, mirrored>>
       ELSE NextCountry(clean) /\ UNCHANGED holder
    /\ UNCHANGED <<dollars, listing, price, shifts>>

\* The country's products; one that lists nothing is passed over.
ReadCountry ==
    /\ visit.pc = "read"
    /\ IF \A p \in Apps : listing[Key][p] = Unlisted THEN NextCountry(clean)
       ELSE /\ visit' = [visit EXCEPT !.pc = "write", !.rows = listing[Key]]
            /\ UNCHANGED <<clean, mirrored>>
    /\ UNCHANGED <<dollars, listing, holder, price, shifts>>

\* 5SIM cannot be read for one country, and the sweep goes on.
ReadFails ==
    /\ visit.pc = "read"
    /\ Shifts
    /\ NextCountry(FALSE)
    /\ UNCHANGED <<dollars, listing, holder, price>>

\* PRICE_HYSTERESIS: five per cent of the price that is stored.
Near(old, new) == 20 * Max({old - new, new - old}) < Max({old, 1})

\* INSERT ... ON CONFLICT (product_id, country_id) DO UPDATE.  The price of a new
\* row is computed whether or not the cost is in dollars.
Repriced(old, row) ==
    LET new == SalePrice(row.cost)
    IN [price |-> IF old # NoPrice /\ (~dollars \/ Near(old.price, new)) THEN old.price ELSE new,
        cost |-> row.cost, stock |-> row.qty]

\* upsert_products, upsert_prices: a product that is not listed keeps its row.
UpsertPrices ==
    LET code == IsoOf[Key]
    IN /\ visit.pc = "write"
       /\ price' = [price EXCEPT ![code] =
                       [p \in Apps |-> IF visit.rows[p] = Unlisted THEN @[p]
                                       ELSE Repriced(@[p], visit.rows[p])]]
       /\ NextCountry(clean)
       /\ UNCHANGED <<dollars, listing, holder, shifts>>

\* A statement fails, or the process is restarted.
DropCatalogue ==
    /\ visit.pc # "rest"
    /\ Shifts
    /\ visit' = NoVisit
    /\ clean' = FALSE /\ mirrored' = FALSE
    /\ UNCHANGED <<dollars, listing, holder, price>>

PriceListNext ==
    \/ ListingMoves \/ BeginCatalogue \/ UpsertCountry \/ ReadCountry \/ ReadFails
    \/ UpsertPrices \/ DropCatalogue

PriceListSpec == PriceListInit /\ [][PriceListNext]_priceVars

-----------------------------------------------------------------------------
\* "Sorting converges on the same catalogue from any starting state"
\* (upsert_country): after a sweep that read everything, each code is sold under
\* the first key that claims it, at what that key lists; and however many small
\* moves the hysteresis swallowed, a price is within five per cent of the price
\* of the cost beside it.
CatalogueConverges ==
    /\ mirrored => \A c \in Isos :
         LET first == CHOOSE k \in CountryKeys :
                          /\ IsoOf[k] = c
                          /\ \A l \in CountryKeys : IsoOf[l] = c => ~Sorts(l, k)
         IN /\ holder[c] = first
            /\ \A p \in Apps : listing[first][p] # Unlisted =>
                  /\ price[c][p].cost = listing[first][p].cost
                  /\ price[c][p].stock = listing[first][p].qty
    /\ dollars => \A c \in Isos, p \in Apps :
         LET row == price[c][p]
         IN row # NoPrice => row.price = SalePrice(row.cost) \/ Near(row.price, SalePrice(row.cost))
===============================================================================
