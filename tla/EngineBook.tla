----------------------------- MODULE EngineBook -----------------------------
(***************************************************************************)
(* ExchangeEngine implements PriceTimeBook.  The refinement mapping is kept*)
(* in a variable that only follows the store, so that TLC computes it once *)
(* a state.  A sweep of the spot price is several market orders in one     *)
(* request, which is no single step of the abstract book: the engine       *)
(* implements it while the spot price does not move.                       *)
(***************************************************************************)
EXTENDS ExchangeEngine

VARIABLE resting   \* RestingOrders of the store

PTB == INSTANCE PriceTimeBook
         WITH Prices <- LimitPrices, Sizes <- Quantities, arrivals <- nextId

BookVars == <<vars, resting>>

EngineBookSpec == Init /\ resting = RestingOrders /\ [][Next /\ resting' = RestingOrders']_BookVars

\* Price-time priority and matching to the end: whatever the engine does with
\* its two price-keyed lists, an order is never filled, not even in part, while
\* a better or older one still rests, a limit order rests only with what it
\* could not trade, and nothing but a cancellation takes an order off unfilled.
BookIsPriceTimeBook == PTB!BookSpec
=============================================================================
