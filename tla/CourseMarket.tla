---------------------------- MODULE CourseMarket ----------------------------
(***************************************************************************)
(* CourseMarket.sol with what buyCourse needs of CourseCatalog and YDToken, *)
(* for one course: its offer, the balances, and what each buyer allows the *)
(* market to take.  Every function is one transaction; one that its guards *)
(* refuse reverts and changes nothing.                                     *)
(***************************************************************************)
EXTENDS Integers, FiniteSetsExt

CONSTANTS
  Buyers,           \* accounts that may buy the course
  Payout, Treasury, \* the teacher's and the platform's account
  Prices,           \* prices the administrator may set
  Funds             \* YD that each buyer owns at first

ASSUME MarketAssumption ==
  /\ IsFiniteSet(Buyers)
  /\ Payout \notin Buyers /\ Treasury \notin Buyers /\ Payout # Treasury
  /\ Prices \subseteq Nat \ {0}
  /\ Funds \in Nat

VARIABLES
  offer,      \* price and listing of the course in the catalog
  paused,     \* whether the market is paused
  balance,    \* YD of each account
  allowance,  \* YD that each buyer allows the market to take
  quoted      \* price that the buyer of each purchase was quoted, 0: none

marketVars == <<offer, paused, balance, allowance, quoted>>

MarketTypeOK ==
  /\ offer \in [price : Prices, listed : BOOLEAN]
  /\ paused \in BOOLEAN
  /\ balance \in [Buyers \union {Payout, Treasury} -> Nat]
  /\ allowance \in [Buyers -> Nat]
  /\ quoted \in [Buyers -> Prices \union {0}]

MarketInit ==
  /\ offer \in [price : Prices, listed : {TRUE}]
  /\ paused = FALSE
  /\ balance = [a \in Buyers \union {Payout, Treasury} |-> IF a \in Buyers THEN Funds ELSE 0]
  /\ allowance = [b \in Buyers |-> 0]
  /\ quoted = [b \in Buyers |-> 0]

\* hasPurchased: a timestamp was recorded for the pair.
HasPurchased(b) == quoted[b] # 0

\* 7500 of 10000 basis points, rounded down; the platform gets the rest.
TeacherAmount(price) == (price * 7500) \div 10000

PlatformAmount(price) == price - TeacherAmount(price)

\* Fault: the market does not compare the price with the quote.
AnyPrice(b, expectedPrice) ==
  /\ ~paused
  /\ ~HasPurchased(b)
  /\ offer.listed
  /\ offer.price <= allowance[b] /\ offer.price <= balance[b]

\* What buyCourse and the two transfers require.
CanBuy(b, expectedPrice) ==
  /\ ~paused
  /\ ~HasPurchased(b)
  /\ offer.listed
  /\ offer.price = expectedPrice
  /\ offer.price <= allowance[b] /\ offer.price <= balance[b]

BuyCourse(b, expectedPrice) ==
  /\ CanBuy(b, expectedPrice)
  /\ quoted' = [quoted EXCEPT ![b] = expectedPrice]
  /\ allowance' = [allowance EXCEPT ![b] = @ - offer.price]
  /\ balance' = [balance EXCEPT
       ![b] = @ - offer.price,
       ![Payout] = @ + TeacherAmount(offer.price),
       ![Treasury] = @ + PlatformAmount(offer.price)]
  /\ UNCHANGED <<offer, paused>>

\* ERC-20 approve: the new allowance replaces the old one.
Approve(b, amount) ==
  /\ allowance' = [allowance EXCEPT ![b] = amount]
  /\ UNCHANGED <<offer, paused, balance, quoted>>

-----------------------------------------------------------------------------
(* The administrator, at any time.                                         *)

\* A new configuration also lists the course.
ConfigureCourse(price) ==
  /\ offer' = [price |-> price, listed |-> TRUE]
  /\ UNCHANGED <<paused, balance, allowance, quoted>>

SetCourseStatus ==
  /\ offer' = [price |-> offer.price, listed |-> ~offer.listed]
  /\ UNCHANGED <<paused, balance, allowance, quoted>>

PauseOrUnpause ==
  /\ paused' = ~paused
  /\ UNCHANGED <<offer, balance, allowance, quoted>>

Administer ==
  \/ \E p \in Prices : ConfigureCourse(p)
  \/ SetCourseStatus
  \/ PauseOrUnpause

\* A buyer acts from elsewhere: another tab, or the contract itself.
Elsewhere(b) ==
  \/ \E p \in Prices : Approve(b, p)
  \/ BuyCourse(b, offer.price)

-----------------------------------------------------------------------------
\* A buyer has paid the price quoted, once, or nothing.
BuyersPaid == \A b \in Buyers : balance[b] = Funds - quoted[b]

\* And what the buyers paid has gone to teacher and platform in the shares of
\* each purchase, whatever prices, pauses and purchases came in between.
MoneyMatchesPurchases ==
  /\ BuyersPaid
  /\ balance[Payout] = MapThenSumSet(LAMBDA b : TeacherAmount(quoted[b]), Buyers)
  /\ balance[Payout] + balance[Treasury] = MapThenSumSet(LAMBDA b : quoted[b], Buyers)
=============================================================================
