-------------------------------- MODULE Shop --------------------------------
(***************************************************************************)
(* What the shop sells and from whom: the switches of the suppliers        *)
(* (number_sell.rs), the sweep that mirrors their stock into offers and    *)
(* sources (number_catalog.rs, number_offers.rs), the list a customer      *)
(* sees, and an order that goes from source to source until one sells      *)
(* (number_routes.rs).  The order's money and its later life are in        *)
(* NumberOrders.  One app; a delivery rate is published or it is not, so   *)
(* the ranking of an offer's sources is any order.                         *)
(***************************************************************************)
EXTENDS SupplierReplies, Pricing, Sequences, FiniteSets

CONSTANTS Known,          \* KNOWN_PROVIDERS, in order
          ByName,         \* ... in the order of their names
          Configured,     \* those with a key
          Priced,         \* those whose costs are in dollars
          Skus,           \* what the suppliers sell: (product, country, operator)
          Seller,         \* ... the supplier of each
          Named,          \* ... those of a named operator
          CountryKey,     \* ... the supplier's key of its country
          CodeOf,         \* ISO code of each key
          Costs, Opening, \* costs there may be; the cost of each at the start
          MinCost,        \* number_products.min_provider_cost_usd
          Tier,           \* tenths of the dearest price that are still listed
          Purchases,      \* orders
          Dashboards,     \* operators' requests
          NoSku,          \* no SKU, no number
          MaxEvents       \* bound: market moves, requests, sweeps and faults

Providers == {Known[i] : i \in DOMAIN Known}
Codes     == {CodeOf[CountryKey[s]] : s \in Skus}

ASSUME ShopConstants ==
    /\ Known \in Seq(Providers)
    /\ "fivesim" \in Configured \cap Priced /\ Configured \subseteq Providers
    /\ Providers = {ByName[i] : i \in DOMAIN ByName}
    /\ Seller \in [Skus -> Providers] /\ Named \subseteq Skus
    /\ CountryKey \in [Skus -> DOMAIN CodeOf]
    /\ Costs \subseteq Nat \ {0} /\ IsFiniteSet(Costs) /\ Opening \in [Skus -> Costs]
    /\ {MinCost, Tier} \subseteq Nat
    /\ NoSku \notin Skus \cup (Purchases \X Skus)

\* The switches are kept in the order of the providers' names.
ASSUME NameOrder == ByName \in Seq(Providers)

VARIABLES market,         \* what a supplier has: cost, stock, whether it publishes a rate
          wallet,         \* our balance with each supplier
          switch,         \* number_sell_providers
          source,         \* number_offer_sources, one for each SKU
          offer,          \* number_offers, by (country, price)
          sweep, desk, seeding,
          purchase,       \* rows and create_order of each order
          sold, back,     \* numbers, each an order and what was sold for it; handed back
          paged,          \* history: those whose sale SMSPool's gateway answered for
          tidy, touched,  \* a sweep ended since a switch moved; one moved since it began
          events

marketVars == <<market, wallet>>
listVars   == <<source, offer>>
switchVars == <<switch, desk, seeding, touched>>
orderVars  == <<purchase, sold, back, paged>>
shopVars   == <<marketVars, listVars, switchVars, orderVars, sweep, tidy, events>>

Prices == {SalePrice(c) : c \in Costs}
Offers == Codes \X Prices

OfferOf(s, cost) == <<CodeOf[CountryKey[s]], SalePrice(cost)>>

Family(p) == IF p \in {"fivesim", "smspool"} THEN p ELSE "activate"

NoFetch  == [s \in Skus |-> 0]
Fetches  == [Skus -> Costs \cup {0}]
AtRest   == [pc |-> "rest", on |-> {}, at |-> 1, guest |-> NoFetch, guested |-> FALSE,
             rows |-> NoFetch, left |-> {}]
NoDesk   == [wanted |-> {}, at |-> 0]
NoOrder  == [status |-> "none", offer |-> <<CHOOSE c \in Codes : TRUE, 0>>, provider |-> "none",
             pid |-> NoSku, open |-> FALSE, code |-> FALSE,
             pc |-> "idle", left |-> {}, number |-> NoSku, asking |-> NoSku]

ShopTypeOK ==
    /\ market \in [Skus -> [cost : Costs, stocked : BOOLEAN, rated : BOOLEAN]]
    /\ wallet \in [Providers -> {0} \cup Costs]
    /\ switch \in [Providers -> BOOLEAN]
    /\ source \in [Skus -> [offer : Offers, cost : Costs, stock : {0, 1}]]
    /\ offer \in [Offers -> [quantity : 0..Cardinality(Skus), active : BOOLEAN]]
    /\ sweep.pc \in {"rest", "load", "list", "write"}
    /\ sweep.guest \in Fetches /\ sweep.rows \in Fetches
    /\ desk \in [Dashboards -> [wanted : SUBSET Providers, at : 0..Len(ByName)]]
    /\ seeding \in 0..Len(Known)
    /\ \A o \in Purchases :
         /\ purchase[o].status \in {"none", "reserved", "awaiting", "review", "failed"}
         /\ purchase[o].pc \in {"idle", "shop", "again", "history", "pin", "assign", "refuse",
                                "unknown", "done", "dead"}
    /\ back \cup paged \subseteq sold /\ sold \subseteq Purchases \X Skus
    /\ tidy \in BOOLEAN /\ touched \in BOOLEAN

\* The shop has been open a while: every SKU is listed at the opening cost.
ShopInit ==
    /\ market = [s \in Skus |-> [cost |-> Opening[s], stocked |-> TRUE, rated |-> TRUE]]
    /\ wallet = [p \in Providers |-> Max(Costs)]
    /\ switch = [p \in Providers |-> TRUE]
    /\ source = [s \in Skus |-> [offer |-> OfferOf(s, Opening[s]), cost |-> Opening[s], stock |-> 1]]
    /\ offer = [f \in Offers |->
          LET n == Cardinality({s \in Skus : OfferOf(s, Opening[s]) = f})
          IN [quantity |-> n, active |-> n > 0]]
    /\ sweep = AtRest /\ seeding = 0
    /\ desk = [d \in Dashboards |-> NoDesk]
    /\ purchase = [o \in Purchases |-> NoOrder]
    /\ sold = {} /\ back = {} /\ paged = {}
    /\ tidy = FALSE /\ touched = FALSE
    /\ events = 0

Happens == events < MaxEvents /\ events' = events + 1

-----------------------------------------------------------------------------
(* The suppliers.                                                          *)

MarketMoves ==
    /\ Happens
    /\ \/ /\ \E s \in Skus :
               \/ \E c \in Costs \ {market[s].cost} : market' = [market EXCEPT ![s].cost = c]
               \/ market' = [market EXCEPT ![s].stocked = ~@]
               \/ market' = [market EXCEPT ![s].rated = ~@]
          /\ UNCHANGED wallet
       \/ /\ \E p \in Providers, balance \in {0} \cup Costs : wallet' = [wallet EXCEPT ![p] = balance]
          /\ UNCHANGED market
    /\ UNCHANGED <<listVars, switchVars, orderVars, sweep, tidy>>

-----------------------------------------------------------------------------
(* The switches.  A row is written at a time, and nothing holds the table. *)

On == {p \in Providers : switch[p]}

\* SellSettings::load: with every switch off, the seed.
Enabled == IF On = {} THEN {"fivesim"} ELSE On

\* The request that finds them all off writes the seed; it is one process
\* here, whichever request it is.
BeginSeed ==
    /\ On = {} /\ seeding = 0
    /\ seeding' = 1
    /\ UNCHANGED <<marketVars, listVars, orderVars, switch, desk, touched, sweep, tidy, events>>

WriteSwitch(p, on) ==
    /\ switch' = [switch EXCEPT ![p] = on]
    /\ touched' = (touched \/ switch[p] # on)
    /\ tidy' = (tidy /\ switch[p] = on)

SeedSwitch ==
    /\ seeding > 0
    /\ seeding' = (seeding + 1) % (Len(Known) + 1)
    /\ WriteSwitch(Known[seeding], Known[seeding] = "fivesim")
    /\ UNCHANGED <<marketVars, listVars, orderVars, desk, sweep, events>>

\* put_sell_settings reads the switches and refuses to turn the last one off.
BeginPut(d) ==
    /\ desk[d].at = 0
    /\ Happens
    /\ \E wanted \in SUBSET Providers \ {{}} :
         desk' = [desk EXCEPT ![d] = [wanted |-> wanted, at |-> 1]]
    /\ UNCHANGED <<marketVars, listVars, orderVars, switch, seeding, touched, sweep, tidy>>

\* SellSettings::store, an upsert for every row of the settings.
StoreSwitch(d) ==
    LET p == ByName[desk[d].at]
    IN /\ desk[d].at > 0
       /\ WriteSwitch(p, p \in desk[d].wanted)
       /\ desk' = [desk EXCEPT ![d] = IF @.at = Len(ByName) THEN NoDesk
                                      ELSE [wanted |-> @.wanted, at |-> @.at + 1]]
       /\ UNCHANGED <<marketVars, listVars, orderVars, seeding, sweep, events>>

\* A statement fails: what was written stays.
StoreFails(d) ==
    /\ desk[d].at > 0
    /\ Happens
    /\ desk' = [desk EXCEPT ![d] = NoDesk]
    /\ UNCHANGED <<marketVars, listVars, orderVars, switch, seeding, touched, sweep, tidy>>

-----------------------------------------------------------------------------
(* The sweep, every fifteen minutes.                                       *)

\* What of a market a listing takes: rows with stock and a published rate.
Rated(s) == market[s].stocked /\ market[s].rated

\* skus_from_guest_prices: `any' only where no operator is named.
FiveSimSkus ==
    [s \in Skus |->
        IF /\ Seller[s] = "fivesim" /\ Rated(s)
           /\ s \in Named \/ ~\E t \in Named : /\ Seller[t] = "fivesim" /\ Rated(t)
                                             /\ CountryKey[t] = CountryKey[s]
        THEN market[s].cost ELSE 0]

\* The prices of 5SIM's operators, read once for a sweep; they may not be read.
GuestPrices == {[AtRest EXCEPT !.guest = FiveSimSkus, !.guested = TRUE], AtRest}

\* sync: the countries and the products' own prices, then the offers.
BeginShopSweep ==
    /\ sweep.pc = "rest"
    /\ Happens
    /\ \E began \in GuestPrices : sweep' = [began EXCEPT !.pc = "load"]
    /\ UNCHANGED <<marketVars, source, offer, switchVars, orderVars, tidy>>

\* sync_offers loads the switches once.
LoadSwitches ==
    /\ sweep.pc = "load"
    /\ sweep' = [sweep EXCEPT !.pc = "list", !.on = Enabled]
    /\ touched' = FALSE
    /\ UNCHANGED <<marketVars, listVars, switch, desk, seeding, orderVars, tidy, events>>

Affordable(rows, balance) == [s \in Skus |-> IF rows[s] <= balance THEN rows[s] ELSE 0]

\* What a row of a supplier's listing sells at: SMSPool's carry a rate
\* (skus_from_success_rows), the others' do not (skus_from_prices).
PoolRow(s)     == IF Rated(s) THEN market[s].cost ELSE 0
ActivateRow(s) == IF market[s].stocked THEN market[s].cost ELSE 0

\* fetch_skus
PoolSkus(p)     == [s \in Skus |-> IF Seller[s] = p THEN PoolRow(s) ELSE 0]
ActivateSkus(p) == [s \in Skus |-> IF Seller[s] = p THEN ActivateRow(s) ELSE 0]

\* The wallet that is read before the listing; the handler_api suppliers' is not.
Broke(p) == Family(p) # "activate" /\ wallet[p] = 0

\* What a supplier's listing writes, unless a fetch fails.  fivesim_listing:
\* an empty wallet hides; without prices the last rows stay.
Listings(p) ==
    IF Broke(p) THEN {NoFetch}
    ELSE CASE Family(p) = "smspool"  -> {Affordable(PoolSkus(p), wallet[p])}
           [] Family(p) = "activate" -> {ActivateSkus(p)}
           [] OTHER -> IF sweep.guested THEN {Affordable(sweep.guest, wallet[p])} ELSE {}

Visited == Known[sweep.at]

\* On to the next supplier; after the last one the shop agrees with the switches.
Onward ==
    IF sweep.at = Len(Known)
    THEN sweep' = AtRest /\ tidy' = ~touched
    ELSE sweep' = [sweep EXCEPT !.pc = "list", !.at = @ + 1, !.rows = NoFetch, !.left = {}]
         /\ UNCHANGED tidy

\* A SKU is written if its supplier's costs are in dollars.
Writes(p, rows) ==
    sweep' = [sweep EXCEPT !.pc = "write", !.rows = rows,
                           !.left = IF p \in Priced THEN {s \in Skus : rows[s] > 0} ELSE {}]

\* What an enabled supplier's turn comes to.  A listing that fails keeps the last
\* rows; a wallet of 5SIM's that is not read is not guessed.
Lists(p) ==
    \/ \E rows \in Listings(p) : Writes(p, rows) /\ UNCHANGED <<tidy, events>>
    \/ Listings(p) = {} /\ Onward /\ UNCHANGED events
    \/ Happens /\ Onward
    \/ /\ Happens /\ Family(p) = "fivesim" /\ sweep.guested
       /\ Writes(p, sweep.guest) /\ UNCHANGED tidy

\* Mutant: a supplier that is off keeps its rows.
ListProviderKeeps ==
    /\ sweep.pc = "list"
    /\ IF Visited \in sweep.on \cap Configured THEN Lists(Visited) ELSE Onward /\ UNCHANGED events
    /\ UNCHANGED <<marketVars, listVars, switchVars, orderVars>>

\* sync_offers, one supplier: hide_provider if it is off or has no key.
ListProvider ==
    /\ sweep.pc = "list"
    /\ IF Visited \in sweep.on \cap Configured THEN Lists(Visited)
       ELSE Writes(Visited, NoFetch) /\ UNCHANGED <<tidy, events>>
    /\ UNCHANGED <<marketVars, listVars, switchVars, orderVars>>

\* apply_provider_skus, a SKU: the offer of its price, then the source.
WriteSku(s) ==
    LET f == OfferOf(s, sweep.rows[s])
    IN /\ sweep.pc = "write" /\ s \in sweep.left
       /\ sweep' = [sweep EXCEPT !.left = @ \ {s}]
       /\ offer' = [offer EXCEPT ![f] = [quantity |-> 1, active |-> TRUE]]
       /\ source' = [source EXCEPT ![s] = [offer |-> f, cost |-> sweep.rows[s], stock |-> 1]]
       /\ UNCHANGED <<marketVars, switchVars, orderVars, tidy, events>>

\* ... and then: sources it did not see are empty, and offers are what their
\* sources add up to.
FinishProvider ==
    LET seen  == IF Visited \in Priced THEN {s \in Skus : sweep.rows[s] > 0} ELSE {}
        rows  == [s \in Skus |-> IF Seller[s] = Visited /\ s \notin seen
                                 THEN [source[s] EXCEPT !.stock = 0] ELSE source[s]]
        n(f)  == Cardinality({s \in Skus : rows[s].offer = f /\ rows[s].stock > 0})
    IN /\ sweep.pc = "write" /\ sweep.left = {}
       /\ source' = rows
       /\ offer' = [f \in Offers |-> [quantity |-> n(f), active |-> n(f) > 0]]
       /\ Onward
       /\ UNCHANGED <<marketVars, switchVars, orderVars, events>>

\* A statement fails, or the process is restarted.
DropSweep ==
    /\ sweep.pc # "rest"
    /\ Happens
    /\ sweep' = AtRest
    /\ UNCHANGED <<marketVars, listVars, switchVars, orderVars, tidy>>

-----------------------------------------------------------------------------
(* The list and the order.                                                 *)

\* Sources that may fill an offer: the same for the list and ranked_sources_sql.
Sells(s) == source[s].stock > 0 /\ Seller[s] \in Enabled /\ source[s].cost >= MinCost

Ranked(f) == {s \in Skus : source[s].offer = f /\ Sells(s)}

InTier(f, dearest) == f[2] * 10 >= dearest * Tier

\* list_offers: of what is in stock, what is near the dearest.
InStock(c) == {p \in Prices : offer[<<c, p>>].active /\ Ranked(<<c, p>>) # {}}

Listed(f) == f[2] \in InStock(f[1]) /\ InTier(f, Max(InStock(f[1])))

\* What create_order takes for the dearest: any supplier's stock.
TopPrice(c) == Max({0} \cup {p \in Prices : /\ offer[<<c, p>>].active
                                           /\ \E s \in Skus : /\ source[s].offer = <<c, p>>
                                                              /\ source[s].stock > 0})

\* The refusals of create_order that are about the offer.  An offer is one
\* price, so none is dearer than the customer expects.
Accepts(f) ==
    /\ offer[f].active /\ offer[f].quantity > 0
    /\ InTier(f, TopPrice(f[1]))
    /\ Ranked(f) # {}

Written(o, row) == purchase' = [purchase EXCEPT ![o] = row]
MovesTo(o, pc) == Written(o, [purchase[o] EXCEPT !.pc = pc])

\* The reservation commits and the order claims itself; the list it was
\* ordered from may be old.
PlaceOrder(o) ==
    /\ purchase[o].pc = "idle"
    /\ \E f \in Offers :
         /\ Accepts(f)
         /\ \E first \in Ranked(f) :
              Written(o, [purchase[o] EXCEPT !.status = "reserved", !.offer = f, !.left = Ranked(f),
                                         !.provider = Seller[first], !.pc = "shop"])
    /\ UNCHANGED <<marketVars, listVars, switchVars, sold, back, paged, sweep, tidy, events>>

\* A supplier sells what it has to whoever can pay.
CanSell(s) == market[s].stocked /\ market[s].cost <= wallet[Seller[s]]

BuyOutcome(p, r) ==
    CASE Family(p) = "fivesim" -> Purchase(r)
      [] Family(p) = "smspool" -> PoolBuy(r)
      [] OTHER                 -> ActivateBuy(r)

\* What the app may hear of a sale, or of a refusal.
Answers(sells) == IF sells THEN SoldReplies ELSE UnsoldReplies

\* The page PoolFailure takes for an empty shelf.
Gateway(p, r) == Family(p) = "smspool" /\ r.class = "5xx" /\ r.says \in OutOfStockWords

\* buy_source without a key.
Unconfigured(p) == IF p = "smspool" THEN "out_of_stock" ELSE "unavailable"

\* UPDATE ... SET stock = 0 WHERE offer_id = $1 AND ..., whose failure is ignored.
Dried(o, s) == {source, [source EXCEPT ![s].stock =
                            IF source[s].offer = purchase[o].offer THEN 0 ELSE @]}

\* What create_order does with the answer of a source: number n, or none.
Handle(o, s, n, left, outcome) ==
    LET row == [purchase[o] EXCEPT !.left = left, !.asking = NoSku]
    IN /\ Written(o, CASE outcome = "sold"      -> [row EXCEPT !.pc = "pin", !.number = n, !.left = {}]
                   [] outcome = "history"   -> [row EXCEPT !.pc = "history", !.asking = s]
                   [] TryNext(outcome)      -> [row EXCEPT !.pc = "shop"]
                   [] outcome = "ambiguous" -> [row EXCEPT !.pc = "unknown"]
                   [] OTHER                 -> [row EXCEPT !.pc = "refuse"])
       /\ source' \in IF outcome = "out_of_stock" THEN Dried(o, s) ELSE {source}

\* A supplier is asked for a number of SKU s: it sells one of SKU n, or none.
Ask(o, s, n, again) ==
    /\ sold' = IF n = NoSku THEN sold ELSE sold \cup {<<o, n>>}
    /\ \E r \in Answers(n # NoSku) :
         LET outcome == BuyOutcome(Seller[s], r)
         IN /\ paged' = IF n # NoSku /\ Gateway(Seller[s], r) THEN paged \cup {<<o, n>>} ELSE paged
            /\ IF Family(Seller[s]) = "fivesim" /\ ~again /\ AskAny(s \in Named, outcome)
               THEN Written(o, [purchase[o] EXCEPT !.pc = "again", !.asking = s]) /\ UNCHANGED source
               ELSE Handle(o, s, <<o, n>>, purchase[o].left \ {s}, outcome)

\* The next source of the ranking is asked, or skipped for want of a key.
AskSource(o) ==
    /\ purchase[o].pc = "shop"
    /\ \E s \in purchase[o].left :
         IF Seller[s] \in Configured
         THEN \E n \in {NoSku} \cup {t \in {s} : CanSell(t)} : Ask(o, s, n, FALSE)
         ELSE Handle(o, s, NoSku, purchase[o].left \ {s}, Unconfigured(Seller[s]))
              /\ UNCHANGED <<sold, paged>>
    /\ UNCHANGED <<marketVars, offer, switchVars, back, sweep, tidy, events>>

\* 5SIM is asked for any operator of that country.
AskAgain(o) ==
    LET s    == purchase[o].asking
        pool == {t \in Skus : Seller[t] = "fivesim" /\ CountryKey[t] = CountryKey[s] /\ CanSell(t)}
    IN /\ purchase[o].pc = "again"
       /\ \E n \in {NoSku} \cup pool : Ask(o, s, n, TRUE)
       /\ UNCHANGED <<marketVars, offer, switchVars, back, sweep, tidy, events>>

\* recover_recent_buy: the first of the last orders of that country and product
\* that has an identifier and a phone, whosever it is; or none has, or the list
\* could not be read.
RecoverRecentBuy(o) ==
    LET s    == purchase[o].asking
        last == {n \in sold : Seller[n[2]] = "fivesim" /\ CountryKey[n[2]] = CountryKey[s]}
    IN /\ purchase[o].pc = "history"
       /\ \E n \in {NoSku} \cup last :
            Handle(o, s, n, purchase[o].left, IF n = NoSku THEN "ambiguous" ELSE "sold")
       /\ UNCHANGED <<marketVars, offer, switchVars, sold, back, paged, sweep, tidy, events>>

Sellers(n) == Seller[n[2]]

\* The row is told which supplier sold: UPDATE ... SET provider = $2.
Pin(o) ==
    /\ purchase[o].pc = "pin"
    /\ Written(o, [purchase[o] EXCEPT !.pc = "assign", !.provider = Sellers(purchase[o].number)])
    /\ UNCHANGED <<marketVars, listVars, switchVars, sold, back, paged, sweep, tidy, events>>

\* status = 'reserved' AND reconcile_claim_token = $7 AND reconcile_claimed_until
\* > now(): the claim may have lapsed, and if another took the order it has.
Claims(o) == {held \in BOOLEAN : held => purchase[o].status = "reserved"}

\* assignment_cancel_provider: whoever sold it.
CancelsAt(o) == Sellers(purchase[o].number)

\* cancel_for; the request may be lost, and is not tried again.
HandedBack(o, at) ==
    back' = IF at = Sellers(purchase[o].number) /\ at \in Configured
            THEN back \cup {purchase[o].number} ELSE back

Assign(o) ==
    /\ purchase[o].pc = "assign"
    /\ \E held \in Claims(o) :
         IF held
         THEN /\ Written(o, [purchase[o] EXCEPT !.pc = "done", !.status = "awaiting", !.open = TRUE,
                                                !.pid = purchase[o].number])
              /\ UNCHANGED back
         ELSE MovesTo(o, "done") /\ HandedBack(o, CancelsAt(o))
    /\ UNCHANGED <<marketVars, listVars, switchVars, sold, paged, sweep, tidy, events>>

\* What apply_claimed and mark_review_required write, if the claim is current.
Ends(o, status) ==
    \E held \in Claims(o) :
        Written(o, [purchase[o] EXCEPT !.pc = "done", !.left = {}, !.status = IF held THEN status ELSE @])

GiveBack(o) ==
    /\ \/ purchase[o].pc = "refuse"
       \/ purchase[o].pc = "shop" /\ purchase[o].left = {}
    /\ Ends(o, "failed")
    /\ UNCHANGED <<marketVars, listVars, switchVars, sold, back, paged, sweep, tidy, events>>

Doubt(o) ==
    /\ purchase[o].pc = "unknown"
    /\ Ends(o, "review")
    /\ UNCHANGED <<marketVars, listVars, switchVars, sold, back, paged, sweep, tidy, events>>

\* The claim lapses and the reconciler takes the order to review.
TakeOver(o) ==
    /\ purchase[o].pc # "idle" /\ purchase[o].status = "reserved"
    /\ Written(o, [purchase[o] EXCEPT !.status = "review"])
    /\ UNCHANGED <<marketVars, listVars, switchVars, sold, back, paged, sweep, tidy, events>>

\* The handler is dropped, or a statement of its own fails.
Perish(o) ==
    /\ purchase[o].pc \notin {"idle", "done", "dead"}
    /\ Happens
    /\ Written(o, [purchase[o] EXCEPT !.pc = "dead", !.left = {}])
    /\ UNCHANGED <<marketVars, listVars, switchVars, sold, back, paged, sweep, tidy>>

Check(p, status, sms) ==
    CASE Family(p) = "fivesim" -> FiveSimCheck(status, sms)
      [] Family(p) = "smspool" -> PoolCheck(status, sms)
      [] OTHER                 -> ActivateCheck(status, sms)

\* check_for: the supplier that sold it is asked, if there still is a key.
Poll(o) ==
    /\ purchase[o].status = "awaiting" /\ purchase[o].open
    /\ purchase[o].provider \in Configured
    /\ \E status \in Statuses, sms \in SUBSET {"code", "text"} :
         LET heard == Check(purchase[o].provider, status, sms)
         IN Written(o, [purchase[o] EXCEPT !.open = ~heard.closed, !.code = @ \/ "code" \in heard.sms])
    /\ UNCHANGED <<marketVars, listVars, switchVars, sold, back, paged, sweep, tidy, events>>

SwitchStep ==
    \/ BeginSeed \/ SeedSwitch
    \/ \E d \in Dashboards : BeginPut(d) \/ StoreSwitch(d) \/ StoreFails(d)

SweepStep ==
    \/ BeginShopSweep \/ LoadSwitches \/ ListProvider \/ FinishProvider \/ DropSweep
    \/ \E s \in Skus : WriteSku(s)

BuyStep(o) ==
    \/ PlaceOrder(o) \/ AskSource(o) \/ AskAgain(o) \/ RecoverRecentBuy(o) \/ Pin(o) \/ Assign(o)
    \/ GiveBack(o) \/ Doubt(o) \/ TakeOver(o) \/ Perish(o)

OrderStep == \E o \in Purchases : BuyStep(o) \/ Poll(o)

ShopNext == MarketMoves \/ SwitchStep \/ SweepStep \/ OrderStep

ShopSpec == ShopInit /\ [][ShopNext]_shopVars

-----------------------------------------------------------------------------
(* Properties.                                                             *)

\* Its order holds another order's number, out of 5SIM's history.
Swapped(n) ==
    LET held == purchase[n[1]].number
    IN Sellers(n) = "fivesim" /\ held # NoSku /\ held[1] # n[1]

\* Every number a supplier sold is the order's, with that supplier's name on the
\* row, or was handed back to that supplier, or is one the handler holds, or is
\* one nobody was told of and the order is not closed over it: it is under review
\* or still reserved.  What escapes is what 5SIM's history confused with another
\* order's, and what SMSPool sold behind a gateway's page (recover_recent_buy,
\* classify_smspool_failure); nothing else does, however the answer was lost.
SoldIsAccounted ==
    \A n \in sold :
        LET row == purchase[n[1]]
        IN \/ n \in back
           \/ row.status = "awaiting" /\ row.pid = n /\ row.provider = Sellers(n)
           \/ row.number = n /\ row.pc \in {"pin", "assign"}
           \/ row.status \in {"reserved", "review"} /\ (row.number # n \/ row.pc = "dead")
           \/ n \in paged /\ Family(Sellers(n)) = "smspool"
           \/ Swapped(n)

\* "The same price floor the listing applies" (create_order): what the list
\* shows can be ordered, once a sweep has followed the last change of switches.
\* Before that a supplier that was turned off may hold the dearest price.
ListedCanBeBought == tidy => \A f \in Offers : Listed(f) => Accepts(f)
=============================================================================
