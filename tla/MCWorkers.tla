------------------------------ MODULE MCWorkers ------------------------------
(* The parts that work by themselves: the two scans of a chain, the outbox   *)
(* of alerts, the shop, the catalogue, and the ledger.  They share no state, so an instance *)
(* explores them side by side: `part' says which one moves.                  *)
EXTENDS TronWatcher, LogScan, AlertOutbox, Shop, PriceList, Ledger, TLC

CONSTANTS x1, x2, x3, w1, w2, r1, r2, s1, s2, s3, s4

VARIABLE part

Sharing == x1 :> {w1} @@ x2 :> {w1,w2}
Both    == x1 :> {w1,w2} @@ x2 :> {w1,w2}

ThreeSuppliers == <<"fivesim", "smspool", "tigersms">>
SoldBy   == s1 :> "fivesim" @@ s2 :> "fivesim" @@ s3 :> "smspool" @@ s4 :> "tigersms"
OneKey   == [s \in Skus |-> "uk"]
OneCode  == [k \in {"uk"} |-> "GB"]
OpensAt  == s1 :> 5 @@ s2 :> 5 @@ s3 :> 5 @@ s4 :> 2

\* Two keys of 5SIM's claim one code; at two shops nothing is listed yet.
ThreeKeys  == <<"france", "frenchguiana", "uk">>
ClaimedIso == "france" :> "FR" @@ "frenchguiana" :> "FR" @@ "uk" :> "GB"
ListedAt   == "france" :> (r1 :> 40) @@ "frenchguiana" :> (r1 :> 42) @@ "uk" :> (r1 :> 0)
FirstList  == [k \in DOMAIN ListedAt |->
                 [p \in Apps |-> IF ListedAt[k][p] = 0 THEN Unlisted
                                 ELSE [cost |-> ListedAt[k][p], qty |-> 1]]]

\* Drafts of the ledger: three that are sound, and one for each way not to be.
KindsOfBooks == "mine" :> "user_ngn" @@ "coins" :> "user_crypto" @@ "held" :> "ngn_payable_pending"
                @@ "hot" :> "custody_hot" @@ "master" :> "custody_master"
SmallAmounts == -2..2
Line(account, asset, amount) == [account |-> account, asset |-> asset, amount |-> amount]
Reserving == <<Line("mine", "NGN", 2), Line("held", "NGN", -2)>>
Selling   == <<Line("coins", "USDT", 1), Line("hot", "USDT", -1),
               Line("hot", "NGN", 2), Line("mine", "NGN", -2)>>
Sweeping  == <<Line("hot", "USDT", -1), Line("master", "USDT", 1)>>
BookDrafts ==
    {[kind |-> "payout_reserve", entries |-> e] :
        e \in {Reserving, <<Line("mine", "NGN", 2)>>, <<>>,
              <<Line("mine", "NGN", 2), Line("hot", "NGN", 0), Line("held", "NGN", -2)>>,
              <<Line("mine", "NGN", 2), Line("held", "USDT", -2)>>}}
    \cup {[kind |-> "sell", entries |-> Selling]}
    \cup {[kind |-> "sweep", entries |-> e] :
              e \in {Sweeping, <<Line("hot", "USDT", -1), Line("coins", "USDT", 1)>>}}

allVars == <<part, tronVars, scanVars, alertVars, shopVars, priceVars, ledgerVars>>

\* The shop is explored with no order and more events; with an order, switches
\* that stay and fewer events, the last of which can only be a handler's end; and
\* with two orders that are bought with no event and a shelf that is not told
\* what is out of stock.
CONSTANT OrderEvents

AllInit ==
    /\ part \in {"tron", "scan", "alerts", "shelves", "order", "orders", "prices", "books"}
    /\ TronInit
    /\ IF part = "scan" THEN LogScanInit
       ELSE LogScanInit /\ limit = CHOOSE l \in Limits : TRUE
    /\ IF part = "alerts" THEN AlertInit ELSE AlertInit /\ told
    /\ ShopInit
    /\ IF part = "prices" THEN PriceListInit
       ELSE PriceListInit /\ dollars /\ holder = [c \in Isos |-> NoHolder]
    /\ LedgerInit

Others(some) == UNCHANGED <<part, some>>

Runs(what) == part = what

AllNext ==
    \/ Runs("tron") /\ TronNext /\ Others(<<scanVars, alertVars, shopVars, priceVars, ledgerVars>>)
    \/ Runs("scan") /\ ScanNext /\ Others(<<tronVars, alertVars, shopVars, priceVars, ledgerVars>>)
    \/ Runs("alerts") /\ AlertNext /\ Others(<<tronVars, scanVars, shopVars, priceVars, ledgerVars>>)
    \/ /\ Runs("shelves")
       /\ MarketMoves \/ SwitchStep \/ SweepStep
       /\ Others(<<tronVars, scanVars, alertVars, priceVars, ledgerVars>>)
    \/ /\ Runs("order")
       /\ MarketMoves \/ SweepStep \/ OrderStep
       /\ events' <= OrderEvents /\ purchase'[x2] = purchase[x2]
       /\ events' > 1 => UNCHANGED <<marketVars, sweep>> \/ events' = events
       /\ Others(<<tronVars, scanVars, alertVars, priceVars, ledgerVars>>)
    \/ /\ Runs("orders")
       /\ \E o \in Purchases : BuyStep(o)
       /\ UNCHANGED source /\ events' = 0
       /\ Others(<<tronVars, scanVars, alertVars, priceVars, ledgerVars>>)
    \/ Runs("prices") /\ PriceListNext /\ Others(<<tronVars, scanVars, alertVars, shopVars, ledgerVars>>)
    \/ Runs("books") /\ LedgerNext /\ Others(<<tronVars, scanVars, alertVars, shopVars, priceVars>>)

\* Blocks keep coming and the watcher keeps running, as in LogScan.
Elsewhere == Others(<<tronVars, alertVars, shopVars, priceVars, ledgerVars>>)

AllSpec ==
    /\ AllInit /\ [][AllNext]_allVars
    /\ WF_allVars(Runs("scan") /\ NewBlock /\ Elsewhere)
    /\ WF_allVars(Runs("scan") /\ ScanProgress /\ Elsewhere)

AllTypeOK == TronTypeOK /\ LogScanTypeOK /\ AlertTypeOK /\ ShopTypeOK /\ PriceListTypeOK
             /\ LedgerTypeOK

ScanEndsAtTip == Runs("scan") => ScanCatchesUp
=============================================================================
