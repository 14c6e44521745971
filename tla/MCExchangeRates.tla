-------------------------- MODULE MCExchangeRates --------------------------
(***************************************************************************)
(* ExchangeRates for TLC: the worker's two currencies, and one the seed    *)
(* does not know and only an administrator sets.                           *)
(***************************************************************************)
EXTENDS ExchangeRates, TLC

UsdEur == <<"USD", "EUR">>

Interchangeable == Permutations(Guests)
=============================================================================
