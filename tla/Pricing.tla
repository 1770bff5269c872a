-------------------------------- MODULE Pricing --------------------------------
(* What a supplier's cost sells for (Pricing, number_catalog.rs): the offers *)
(* of Shop and the catalogue of PriceList are priced alike.                  *)
EXTENDS Integers, FiniteSetsExt

CONSTANTS UsdNgn, Margin, \* naira per unit of cost; tenths of it that are charged
          MinPrice        \* MIN_PRICE_NGN

ASSUME PricingConstants == {UsdNgn, Margin, MinPrice} \subseteq Nat

\* Pricing::sale_price, rounded up to ten naira.
SalePrice(cost) == Max({10 * ((cost * UsdNgn * Margin + 99) \div 100), MinPrice})
===============================================================================
