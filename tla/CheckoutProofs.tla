--------------------------- MODULE CheckoutProofs ---------------------------
(***************************************************************************)
(* Proofs about Checkout, for any number of buyers, prices, calls, moves   *)
(* and funds.  The page's promises follow from what each call in progress  *)
(* keeps: the wallet of its click, its signer, and, once the purchase was  *)
(* found, that this wallet has bought.  The contracts' promise follows     *)
(* from what one purchase adds to two sums over the buyers.                *)
(***************************************************************************)
EXTENDS Checkout, CoverageRangesProofs

USE MarketAssumption, CheckoutAssumption DEF MarketAssumption, CheckoutAssumption

-----------------------------------------------------------------------------
(* Sums over the buyers, as folds over the subsets of a finite set: the    *)
(* lemmas about folds are those of CoverageRangesProofs.                   *)

\* it[s] is the sum of f over s.
IsSum(it, S, f) ==
  \A s \in SUBSET S :
    it[s] = IF s = {} THEN 0
            ELSE f[CHOOSE x \in s : TRUE] + it[s \ {CHOOSE x \in s : TRUE}]

LEMMA SumExists ==
  ASSUME NEW S, IsFiniteSet(S), NEW f, \A x \in S : f[x] \in Int
  PROVE  \E it \in [SUBSET S -> Int] : IsSum(it, S, f)
<1> DEFINE pick == [s \in SUBSET S |-> CHOOSE x \in s : TRUE]
           next == [x \in S \X Int |-> f[x[1]] + x[2]]
<1>1. \A s \in SUBSET S : pick[s] = (CHOOSE x \in s : TRUE) /\ (s # {} => pick[s] \in s)
  OBVIOUS
<1>2. \A x \in S, v \in Int : next[<<x, v>>] = f[x] + v /\ next[<<x, v>>] \in Int
  OBVIOUS
<1> HIDE DEF pick, next
<1>3. CanFold(S, Int, 0, pick, next)
  BY <1>1, <1>2 DEF CanFold
<1>4. PICK it \in [SUBSET S -> Int] : IsFold(it, S, 0, pick, next)
  BY <1>3, FoldOverSet
<1>5. ASSUME NEW s \in SUBSET S
      PROVE  it[s] = IF s = {} THEN 0
                     ELSE f[CHOOSE x \in s : TRUE] + it[s \ {CHOOSE x \in s : TRUE}]
  <2>1. CASE s = {}
    BY <1>4, <2>1 DEF IsFold
  <2>2. CASE s # {}
    <3>1. it[s] = next[<<pick[s], it[s \ {pick[s]}]>>]
      BY <1>4, <2>2 DEF IsFold
    <3>2. pick[s] \in S /\ it[s \ {pick[s]}] \in Int
      BY <1>1, <1>4, <2>2
    <3> QED BY <1>1, <1>2, <2>2, <3>1, <3>2
  <2> QED BY <2>1, <2>2
<1> QED BY <1>4, <1>5 DEF IsSum

\* Two sums that differ in one element differ by it.
LEMMA SumsDiffer ==
  ASSUME NEW S, IsFiniteSet(S), NEW f, NEW g, NEW b \in S,
         \A x \in S : f[x] \in Int /\ g[x] \in Int,
         \A x \in S \ {b} : g[x] = f[x],
         NEW i, NEW j, IsSum(i, S, f), IsSum(j, S, g)
  PROVE  i[S] \in Int /\ j[S] = i[S] + (g[b] - f[b])
<1> DEFINE F == {s \in SUBSET S : /\ i[s] \in Int /\ j[s] \in Int
                                  /\ j[s] - i[s] = IF b \in s THEN g[b] - f[b] ELSE 0}
<1>1. {} \in F
  <2>1. i[{}] = 0 /\ j[{}] = 0
    BY DEF IsSum
  <2> QED BY <2>1
<1>2. ASSUME NEW s \in SUBSET S, s # {}
      PROVE  \E x \in s : (s \ {x} \in F => s \in F)
  <2> DEFINE x == CHOOSE x \in s : TRUE
  <2>1. x \in s /\ i[s] = f[x] + i[s \ {x}] /\ j[s] = g[x] + j[s \ {x}]
    BY <1>2 DEF IsSum
  <2> HIDE DEF x
  <2>2. ASSUME s \ {x} \in F PROVE s \in F
    <3>1. CASE x = b
      BY <2>1, <2>2, <3>1
    <3>2. CASE x # b
      BY <2>1, <2>2, <3>2
    <3> QED BY <3>1, <3>2
  <2> QED BY <2>1, <2>2
<1> HIDE DEF F
<1>3. S \in F
  BY <1>1, <1>2, SetInduction
<1> QED BY <1>3 DEF F

LEMMA SumOfZeros ==
  ASSUME NEW S, IsFiniteSet(S), NEW f, \A x \in S : f[x] = 0, NEW it, IsSum(it, S, f)
  PROVE  it[S] = 0
<1> DEFINE F == {s \in SUBSET S : it[s] = 0}
<1>1. {} \in F
  BY DEF IsSum
<1>2. ASSUME NEW s \in SUBSET S, s # {}
      PROVE  \E x \in s : (s \ {x} \in F => s \in F)
  <2> DEFINE x == CHOOSE x \in s : TRUE
  <2>1. x \in s /\ it[s] = f[x] + it[s \ {x}]
    BY <1>2 DEF IsSum
  <2> HIDE DEF x
  <2> QED BY <2>1
<1> HIDE DEF F
<1>3. S \in F
  BY <1>1, <1>2, SetInduction
<1> QED BY <1>3 DEF F

-----------------------------------------------------------------------------
(* What the buyers paid, and what the teacher has of it.                   *)

Paid(q) == MapThenSumSet(LAMBDA b : q[b], Buyers)
Taught(q) == MapThenSumSet(LAMBDA b : TeacherAmount(q[b]), Buyers)
Shares(q) == [b \in Buyers |-> TeacherAmount(q[b])]

LEMMA PaidIsSum ==
  ASSUME NEW q \in [Buyers -> Nat]
  PROVE  \E it : IsSum(it, Buyers, q) /\ Paid(q) = it[Buyers]
<1> DEFINE Step(s, g) == IF s = {} THEN 0
                         ELSE q[CHOOSE x \in s : TRUE] + g[s \ {CHOOSE x \in s : TRUE}]
           it == CHOOSE it : it = [s \in SUBSET Buyers |-> Step(s, it)]
<1>1. PICK g \in [SUBSET Buyers -> Int] : IsSum(g, Buyers, q)
  <2>1. \A b \in Buyers : q[b] \in Int
    OBVIOUS
  <2> QED BY <2>1, SumExists
<1>2. g = [s \in SUBSET Buyers |-> Step(s, g)]
  BY <1>1 DEF IsSum
<1> HIDE DEF Step
<1>3. it = [s \in SUBSET Buyers |-> Step(s, it)]
  BY <1>2
<1> USE DEF Step
<1>4. Paid(q) = it[Buyers]
  BY DEF Paid, MapThenSumSet, MapThenFoldSet
<1> HIDE DEF it
<1>5. IsSum(it, Buyers, q)
  BY <1>3 DEF IsSum
<1> QED BY <1>4, <1>5

LEMMA TaughtIsSum ==
  ASSUME NEW q \in [Buyers -> Nat]
  PROVE  \E it : IsSum(it, Buyers, Shares(q)) /\ Taught(q) = it[Buyers]
<1> DEFINE Step(s, g) == IF s = {} THEN 0
                         ELSE TeacherAmount(q[CHOOSE x \in s : TRUE])
                              + g[s \ {CHOOSE x \in s : TRUE}]
           it == CHOOSE it : it = [s \in SUBSET Buyers |-> Step(s, it)]
<1>1. PICK g \in [SUBSET Buyers -> Int] : IsSum(g, Buyers, Shares(q))
  <2>1. \A b \in Buyers : Shares(q)[b] \in Int
    BY DEF Shares, TeacherAmount
  <2> QED BY <2>1, SumExists
<1>2. \A s \in SUBSET Buyers : s # {} =>
        Shares(q)[CHOOSE x \in s : TRUE] = TeacherAmount(q[CHOOSE x \in s : TRUE])
  BY DEF Shares
<1>3. g = [s \in SUBSET Buyers |-> Step(s, g)]
  BY <1>1, <1>2 DEF IsSum
<1> HIDE DEF Step
<1>4. it = [s \in SUBSET Buyers |-> Step(s, it)]
  BY <1>3
<1> USE DEF Step
<1>5. Taught(q) = it[Buyers]
  BY DEF Taught, MapThenSumSet, MapThenFoldSet
<1> HIDE DEF it
<1>6. IsSum(it, Buyers, Shares(q))
  BY <1>2, <1>4 DEF IsSum
<1> QED BY <1>5, <1>6

\* One purchase more.
LEMMA OneMorePurchase ==
  ASSUME NEW q \in [Buyers -> Nat], NEW b \in Buyers, q[b] = 0, NEW p \in Nat
  PROVE  /\ Paid(q) \in Int /\ Paid([q EXCEPT ![b] = p]) = Paid(q) + p
         /\ Taught(q) \in Int
         /\ Taught([q EXCEPT ![b] = p]) = Taught(q) + TeacherAmount(p)
<1> DEFINE r == [q EXCEPT ![b] = p]
<1>1. r \in [Buyers -> Nat] /\ r[b] = p /\ \A x \in Buyers \ {b} : r[x] = q[x]
  OBVIOUS
<1> HIDE DEF r
<1>2. PICK i : IsSum(i, Buyers, q) /\ Paid(q) = i[Buyers]
  BY PaidIsSum
<1>3. PICK j : IsSum(j, Buyers, r) /\ Paid(r) = j[Buyers]
  BY <1>1, PaidIsSum
<1>4. Paid(q) \in Int /\ Paid(r) = Paid(q) + (r[b] - q[b])
  BY <1>1, <1>2, <1>3, SumsDiffer
<1>5. PICK k : IsSum(k, Buyers, Shares(q)) /\ Taught(q) = k[Buyers]
  BY TaughtIsSum
<1>6. PICK m : IsSum(m, Buyers, Shares(r)) /\ Taught(r) = m[Buyers]
  BY <1>1, TaughtIsSum
<1>7. /\ \A x \in Buyers : Shares(q)[x] \in Int /\ Shares(r)[x] \in Int
      /\ \A x \in Buyers \ {b} : Shares(r)[x] = Shares(q)[x]
      /\ Shares(q)[b] = 0 /\ Shares(r)[b] = TeacherAmount(p)
      /\ TeacherAmount(p) \in Int
  BY <1>1 DEF Shares, TeacherAmount
<1>8. Taught(q) \in Int /\ Taught(r) = Taught(q) + (Shares(r)[b] - Shares(q)[b])
  BY <1>5, <1>6, <1>7, SumsDiffer
<1> QED BY <1>1, <1>4, <1>7, <1>8 DEF r

LEMMA NothingPaid ==
  ASSUME NEW q \in [Buyers -> Nat], \A b \in Buyers : q[b] = 0
  PROVE  Paid(q) = 0 /\ Taught(q) = 0
<1>1. Paid(q) = 0
  BY PaidIsSum, SumOfZeros
<1>2. \A b \in Buyers : Shares(q)[b] = 0
  BY DEF Shares, TeacherAmount
<1>3. Taught(q) = 0
  BY <1>2, TaughtIsSum, SumOfZeros
<1> QED BY <1>1, <1>3

MoneyShared ==
  /\ balance[Payout] = Taught(quoted)
  /\ balance[Payout] + balance[Treasury] = Paid(quoted)

LEMMA MoneyMeans == MoneyMatchesPurchases <=> BuyersPaid /\ MoneyShared
BY DEF MoneyMatchesPurchases, MoneyShared, Paid, Taught

-----------------------------------------------------------------------------
(* The inductive invariant.                                                *)

\* What each call knows at its step.
CallsKnow ==
  \A c \in Calls :
    /\ call[c].step # "none" => call[c].wallet \in Buyers
    /\ call[c].step \in {"mine", "lost"} => call[c].signer \in Buyers
    /\ call[c].step = "refetch" => call[c].kind = "buy" /\ HasPurchased(call[c].wallet)

CheckoutInv ==
  /\ CheckoutTypeOK
  /\ BuyersPaid
  /\ MoneyShared
  /\ CallsKnow
  /\ BusyHasCall
  /\ CompleteIsPurchased

-----------------------------------------------------------------------------
(* The contracts.                                                          *)

\* Both shares of a price are amounts.
LEMMA SharesAreAmounts ==
  ASSUME NEW p \in Nat
  PROVE  TeacherAmount(p) \in Nat /\ PlatformAmount(p) \in Nat
BY DEF TeacherAmount, PlatformAmount

\* What a transaction or the administrator does to the contracts keeps the
\* accounts right, and takes no purchase back.
MarketStep ==
  /\ MarketTypeOK' /\ BuyersPaid' /\ MoneyShared'
  /\ \A b \in Buyers : quoted[b] # 0 => quoted'[b] # 0

\* A purchase takes the price from the buyer and divides it.
LEMMA BuyCourseStep ==
  ASSUME MarketTypeOK, BuyersPaid, MoneyShared, NEW b \in Buyers, NEW p \in Amounts, BuyCourse(b, p)
  PROVE  MarketStep
<1>1. /\ offer.price \in Nat \ {0} /\ offer.price \in Prices /\ offer.price = p
      /\ offer.price <= balance[b] /\ offer.price <= allowance[b] /\ quoted[b] = 0
  BY DEF MarketTypeOK, BuyCourse, CanBuy, HasPurchased
<1>2. TeacherAmount(offer.price) \in Nat /\ PlatformAmount(offer.price) \in Nat
  BY <1>1, SharesAreAmounts
<1>3. quoted' = [quoted EXCEPT ![b] = p] /\ offer' = offer /\ paused' = paused
  BY DEF BuyCourse
<1>4. allowance' \in [Buyers -> Nat]
  BY <1>1 DEF BuyCourse, MarketTypeOK
<1>5. /\ balance' \in [Buyers \union {Payout, Treasury} -> Nat]
      /\ balance'[b] = balance[b] - offer.price
      /\ \A a \in Buyers \ {b} : balance'[a] = balance[a]
      /\ balance'[Payout] = balance[Payout] + TeacherAmount(offer.price)
      /\ balance'[Treasury] = balance[Treasury] + PlatformAmount(offer.price)
  <2> DEFINE taken == [balance EXCEPT ![b] = @ - offer.price]
             taught == [taken EXCEPT ![Payout] = @ + TeacherAmount(offer.price)]
  <2>1. balance' = [taught EXCEPT ![Treasury] = @ + PlatformAmount(offer.price)]
    BY DEF BuyCourse
  <2>2. balance \in [Buyers \union {Payout, Treasury} -> Nat]
    BY DEF MarketTypeOK
  <2>3. taken \in [Buyers \union {Payout, Treasury} -> Nat]
    BY <1>1, <2>2
  <2>4. taught \in [Buyers \union {Payout, Treasury} -> Nat]
    BY <1>2, <2>3
  <2> QED
    BY <1>1, <1>2, <2>1, <2>2, <2>3, <2>4
<1>6. MarketTypeOK'
  BY <1>1, <1>3, <1>4, <1>5 DEF MarketTypeOK
<1>7. BuyersPaid'
  <2> SUFFICES ASSUME NEW a \in Buyers PROVE balance'[a] = Funds - quoted'[a]
    BY DEF BuyersPaid
  <2>1. quoted \in [Buyers -> Prices \union {0}] /\ balance[a] = Funds - quoted[a]
    BY DEF MarketTypeOK, BuyersPaid
  <2> QED
    BY <1>1, <1>3, <1>5, <2>1
<1>8. \A a \in Buyers : quoted[a] # 0 => quoted'[a] # 0
  BY <1>1, <1>3 DEF MarketTypeOK
<1>9. MoneyShared'
  <2>0. p \in Nat /\ Prices \union {0} \subseteq Nat
    BY <1>1
  <2>1. quoted \in [Buyers -> Nat]
    BY <2>0 DEF MarketTypeOK
  <2>2. /\ Paid(quoted) \in Int /\ Paid(quoted') = Paid(quoted) + p
        /\ Taught(quoted) \in Int /\ Taught(quoted') = Taught(quoted) + TeacherAmount(p)
    BY <1>1, <1>3, <2>0, <2>1, OneMorePurchase
  <2>3. PlatformAmount(p) = p - TeacherAmount(p) /\ TeacherAmount(p) \in Nat
    BY <1>1, <1>2 DEF PlatformAmount
  <2>4. balance[Payout] \in Int /\ balance[Treasury] \in Int
    BY DEF MarketTypeOK
  <2> QED
    BY <1>1, <1>5, <2>2, <2>3, <2>4 DEF MoneyShared
<1> QED
  BY <1>6, <1>7, <1>8, <1>9 DEF MarketStep

\* Everything else leaves balances and purchases alone.
LEMMA ApproveStep ==
  ASSUME MarketTypeOK, BuyersPaid, MoneyShared, NEW b \in Buyers, NEW p \in Amounts, Approve(b, p)
  PROVE  MarketStep
<1>1. p \in Nat
  BY DEF Amounts
<1> QED
  BY <1>1 DEF MarketStep, MarketTypeOK, BuyersPaid, MoneyShared, Approve

LEMMA AdministerStep ==
  ASSUME MarketTypeOK, BuyersPaid, MoneyShared, Administer
  PROVE  MarketStep
<1>1. CASE \E p \in Prices : ConfigureCourse(p)
  BY <1>1 DEF MarketStep, MarketTypeOK, BuyersPaid, MoneyShared, ConfigureCourse
<1>2. CASE SetCourseStatus
  BY <1>2 DEF MarketStep, MarketTypeOK, BuyersPaid, MoneyShared, SetCourseStatus
<1>3. CASE PauseOrUnpause
  BY <1>3 DEF MarketStep, MarketTypeOK, BuyersPaid, MoneyShared, PauseOrUnpause
<1> QED
  BY <1>1, <1>2, <1>3 DEF Administer

LEMMA ElsewhereStep ==
  ASSUME MarketTypeOK, BuyersPaid, MoneyShared, NEW b \in Buyers, Elsewhere(b)
  PROVE  MarketStep
<1>1. CASE \E p \in Prices : Approve(b, p)
  BY <1>1, ApproveStep DEF Amounts
<1>2. CASE BuyCourse(b, offer.price)
  BY <1>2, BuyCourseStep DEF Amounts, MarketTypeOK
<1> QED
  BY <1>1, <1>2 DEF Elsewhere

LEMMA NoMarketStep ==
  ASSUME MarketTypeOK, BuyersPaid, MoneyShared, UNCHANGED marketVars
  PROVE  MarketStep
BY DEF MarketStep, MarketTypeOK, BuyersPaid, MoneyShared, marketVars

-----------------------------------------------------------------------------
(* What a step does to the calls and the page.                             *)

CallRecords == [step : Steps, kind : {"approve", "buy"}, wallet : Accounts,
                signer : Accounts, amount : Amounts]

\* The call c becomes r.
Becomes(c, r) == r \in CallRecords /\ call' = [call EXCEPT ![c] = r]

\* What the page will end, as BusyHasCall says it.
Ending(r, kind, amount) ==
  /\ r.kind = kind /\ r.amount = amount
  /\ \/ r.step \in {"sign", "mine", "check"}
     \/ kind = "buy" /\ r.step = "refetch"

LEMMA BusyIsEnding ==
  BusyHasCall <=>
    /\ purchase.phase = "approving" => \E c \in Calls : Ending(call[c], "approve", purchase.approved)
    /\ purchase.phase = "purchasing" => \E c \in Calls : Ending(call[c], "buy", purchase.approved)
BY DEF BusyHasCall, Ending

\* The same for the next state.
LEMMA BusyIsEndingNext ==
  BusyHasCall' <=>
    /\ purchase'.phase = "approving" => \E c \in Calls : Ending(call'[c], "approve", purchase'.approved)
    /\ purchase'.phase = "purchasing" => \E c \in Calls : Ending(call'[c], "buy", purchase'.approved)
BY DEF BusyHasCall, Ending

\* A call that still ends what it would have ended keeps the page's promise.
LEMMA GoesOn ==
  ASSUME CheckoutTypeOK, BusyHasCall, NEW c \in Calls, NEW r, Becomes(c, r), purchase' = purchase,
         purchase.phase = "approving" /\ Ending(call[c], "approve", purchase.approved)
           => Ending(r, "approve", purchase.approved),
         purchase.phase = "purchasing" /\ Ending(call[c], "buy", purchase.approved)
           => Ending(r, "buy", purchase.approved)
  PROVE  BusyHasCall'
<1>1. /\ call'[c] = r
      /\ \A d \in Calls \ {c} : call'[d] = call[d]
  BY DEF Becomes, CheckoutTypeOK
<1>2. CASE purchase.phase = "approving"
  <2>1. PICK d \in Calls : Ending(call[d], "approve", purchase.approved)
    BY <1>2, BusyIsEnding
  <2>2. Ending(call'[d], "approve", purchase.approved)
    BY <1>1, <1>2, <2>1
  <2> QED
    BY <1>2, <2>2, BusyIsEndingNext
<1>3. CASE purchase.phase = "purchasing"
  <2>1. PICK d \in Calls : Ending(call[d], "buy", purchase.approved)
    BY <1>3, BusyIsEnding
  <2>2. Ending(call'[d], "buy", purchase.approved)
    BY <1>1, <1>3, <2>1
  <2> QED
    BY <1>3, <2>2, BusyIsEndingNext
<1>4. CASE purchase.phase \notin {"approving", "purchasing"}
  BY <1>4, BusyIsEndingNext
<1> QED
  BY <1>2, <1>3, <1>4

\* A page that is not busy needs no call.
LEMMA NotBusy ==
  ASSUME purchase'.phase \notin {"approving", "purchasing"}
  PROVE  BusyHasCall'
BY DEF BusyHasCall

\* A wallet that the page confirmed stays a buyer.
LEMMA StaysComplete ==
  ASSUME CheckoutTypeOK, CompleteIsPurchased, MarketStep, confirmed' = confirmed,
         purchase'.phase = "complete" => purchase.phase = "complete"
  PROVE  CompleteIsPurchased'
<1>1. confirmed \in Buyers \/ confirmed = NoAccount
  BY DEF CheckoutTypeOK, Accounts
<1> QED
  BY <1>1 DEF CompleteIsPurchased, MarketStep, HasPurchased

\* The other calls keep what they know; c has to know it at its new step.
LEMMA OthersKnow ==
  ASSUME CheckoutTypeOK, CallsKnow, MarketStep, NEW c \in Calls, NEW r, Becomes(c, r),
         r.step # "none" => r.wallet \in Buyers,
         r.step \in {"mine", "lost"} => r.signer \in Buyers,
         r.step = "refetch" => r.kind = "buy" /\ quoted[r.wallet] # 0
  PROVE  CallsKnow'
<1> SUFFICES ASSUME NEW d \in Calls
             PROVE  /\ call'[d].step # "none" => call'[d].wallet \in Buyers
                    /\ call'[d].step \in {"mine", "lost"} => call'[d].signer \in Buyers
                    /\ call'[d].step = "refetch" =>
                         call'[d].kind = "buy" /\ quoted'[call'[d].wallet] # 0
  BY DEF CallsKnow, HasPurchased
<1>1. call' = [call EXCEPT ![c] = r] /\ call \in [Calls -> CallRecords]
  BY DEF Becomes, CheckoutTypeOK, CallRecords
<1>2. \A b \in Buyers : quoted[b] # 0 => quoted'[b] # 0
  BY DEF MarketStep
<1>3. CASE d = c
  <2>1. call'[d] = r
    BY <1>1, <1>3
  <2> QED
    BY <1>2, <2>1
<1>4. CASE d # c
  <2>1. call'[d] = call[d]
    BY <1>1, <1>4
  <2> QED
    BY <1>2, <2>1 DEF CallsKnow, HasPurchased
<1> QED
  BY <1>3, <1>4

-----------------------------------------------------------------------------
(* The actions of a call.                                                  *)

\* NoCall and every change of some fields of a call is a call.
LEMMA NoCallIsCall == NoCall \in CallRecords /\ NoCall.step = "none"
BY DEF NoCall, CallRecords, Steps, Accounts, Amounts

\* The step of a call changes.
Stepped(c, step) ==
  [step |-> step, kind |-> call[c].kind, wallet |-> call[c].wallet,
   signer |-> call[c].signer, amount |-> call[c].amount]

LEMMA NowBecomes ==
  ASSUME CheckoutTypeOK, NEW c \in Calls, NEW step \in Steps, Now(c, step)
  PROVE  Becomes(c, Stepped(c, step))
<1>1. call[c] \in CallRecords
  BY DEF CheckoutTypeOK, CallRecords
<1>2. [call[c] EXCEPT !.step = step] = Stepped(c, step)
  BY <1>1 DEF CallRecords, Stepped
<1>3. Stepped(c, step) \in CallRecords
  BY <1>1 DEF CallRecords, Stepped
<1>4. call' = [call EXCEPT ![c] = [call[c] EXCEPT !.step = step]]
  BY DEF Now
<1> QED
  BY <1>2, <1>3, <1>4 DEF Becomes

LEMMA EndsBecomes ==
  ASSUME NEW c \in Calls, NEW s, Ends(c, s)
  PROVE  Becomes(c, NoCall) /\ purchase' = s
BY NoCallIsCall DEF Ends, Becomes

\* The purchase states, and the fields of the state record.
PurchaseStates == [phase : Phases, approved : Amounts]

LEMMA ReducerTypes ==
  ASSUME NEW s \in PurchaseStates, NEW amount \in Amounts
  PROVE  /\ StartApproval(s, amount) \in PurchaseStates
         /\ ApprovalConfirmed(s, amount) \in PurchaseStates
         /\ StartPurchase(s, amount) \in PurchaseStates
         /\ PurchaseConfirmed(s) \in PurchaseStates
         /\ Failed(s) \in PurchaseStates
         /\ InitialPurchase \in PurchaseStates
BY DEF PurchaseStates, Phases, Amounts, StartApproval, ApprovalConfirmed, StartPurchase,
       PurchaseConfirmed, Failed, InitialPurchase

\* What is left of the type invariant once the call and the market are right.
LEMMA TypeStep ==
  ASSUME CheckoutTypeOK, MarketStep, NEW c \in Calls, NEW r, Becomes(c, r),
         purchase' \in PurchaseStates, account' \in Accounts, confirmed' \in Accounts,
         seen' \in Amounts, moves' \in 0..MaxMoves
  PROVE  CheckoutTypeOK'
BY DEF CheckoutTypeOK, MarketStep, Becomes, CallRecords, PurchaseStates

LEMMA ListedIsAmount ==
  ASSUME MarketTypeOK
  PROVE  Listed \in Amounts
BY DEF MarketTypeOK, Listed, Amounts

\* A step of one call keeps the invariant when the call knows enough at its new
\* step and the page keeps its two promises.
LEMMA CallKeeps ==
  ASSUME CheckoutInv, MarketStep, NEW c \in Calls, NEW r, Becomes(c, r),
         r.step # "none" => r.wallet \in Buyers,
         r.step \in {"mine", "lost"} => r.signer \in Buyers,
         r.step = "refetch" => r.kind = "buy" /\ quoted[r.wallet] # 0,
         purchase' \in PurchaseStates, account' = account, confirmed' \in Accounts,
         seen' \in Amounts, moves' = moves, BusyHasCall', CompleteIsPurchased'
  PROVE  CheckoutInv'
<1>1. account' \in Accounts /\ moves' \in 0..MaxMoves
  BY DEF CheckoutInv, CheckoutTypeOK
<1>2. CheckoutTypeOK'
  BY <1>1, TypeStep DEF CheckoutInv
<1>3. CallsKnow'
  BY OthersKnow DEF CheckoutInv
<1> QED
  BY <1>2, <1>3 DEF CheckoutInv, MarketStep

\* What the invariant says of one call.
LEMMA CallFacts ==
  ASSUME CheckoutInv, NEW c \in Calls
  PROVE  /\ call \in [Calls -> CallRecords] /\ call[c] \in CallRecords
         /\ call[c].step # "none" => call[c].wallet \in Buyers
         /\ call[c].step \in {"mine", "lost"} => call[c].signer \in Buyers
         /\ call[c].step = "refetch" => call[c].kind = "buy" /\ quoted[call[c].wallet] # 0
         /\ purchase \in PurchaseStates /\ account \in Accounts /\ confirmed \in Accounts
         /\ seen \in Amounts /\ MarketTypeOK /\ BuyersPaid /\ MoneyShared /\ CheckoutTypeOK
         /\ CallsKnow /\ BusyHasCall /\ CompleteIsPurchased /\ Listed \in Amounts
BY ListedIsAmount DEF CheckoutInv, CheckoutTypeOK, CallsKnow, CallRecords, PurchaseStates,
       HasPurchased

LEMMA ClickKeeps ==
  ASSUME CheckoutInv, NEW c \in Calls, NEW kind \in {"approve", "buy"}, NEW amount \in Amounts,
         Click(c, kind, amount)
  PROVE  CheckoutInv'
<1> DEFINE r == [step |-> "price", kind |-> kind, wallet |-> account,
                 signer |-> NoAccount, amount |-> amount]
<1>1. MarketStep
  BY CallFacts, NoMarketStep DEF Click
<1>2. r \in CallRecords
  BY CallFacts DEF CallRecords, Steps, Accounts
<1>3. Becomes(c, r)
  BY <1>2 DEF Click, Becomes
<1>4. account \in Buyers
  BY CallFacts DEF Click, Accounts
<1>5. ~Ending(call[c], "approve", purchase.approved) /\ ~Ending(call[c], "buy", purchase.approved)
  BY DEF Click, Ending
<1>6. /\ purchase' = purchase /\ account' = account /\ confirmed' = confirmed
      /\ seen' = seen /\ moves' = moves
  BY DEF Click
<1>7. BusyHasCall'
  BY <1>3, <1>5, <1>6, CallFacts, GoesOn
<1>8. CompleteIsPurchased'
  BY <1>1, <1>6, CallFacts, StaysComplete
<1> HIDE DEF r
<1>9. r.step = "price" /\ r.wallet = account
  BY DEF r
<1> QED
  BY <1>1, <1>3, <1>4, <1>6, <1>7, <1>8, <1>9, CallFacts, CallKeeps

\* Two fields of a call change.
LEMMA TwoFields ==
  ASSUME NEW k \in CallRecords, NEW step \in Steps, NEW amount \in Amounts, NEW signer \in Accounts
  PROVE  /\ [k EXCEPT !.step = step, !.amount = amount] =
              [step |-> step, kind |-> k.kind, wallet |-> k.wallet,
               signer |-> k.signer, amount |-> amount]
         /\ [k EXCEPT !.step = step, !.signer = signer] =
              [step |-> step, kind |-> k.kind, wallet |-> k.wallet,
               signer |-> signer, amount |-> k.amount]
<1> DEFINE m == [k EXCEPT !.step = step]
<1>1. m = [step |-> step, kind |-> k.kind, wallet |-> k.wallet,
           signer |-> k.signer, amount |-> k.amount]
  BY DEF CallRecords
<1>2. m \in CallRecords
  BY DEF CallRecords
<1>3. /\ [k EXCEPT !.step = step, !.amount = amount] = [m EXCEPT !.amount = amount]
      /\ [k EXCEPT !.step = step, !.signer = signer] = [m EXCEPT !.signer = signer]
  BY DEF CallRecords
<1> HIDE DEF m
<1>4. [m EXCEPT !.amount = amount] = [step |-> m.step, kind |-> m.kind, wallet |-> m.wallet,
                                      signer |-> m.signer, amount |-> amount]
  BY <1>2 DEF CallRecords
<1>5. [m EXCEPT !.signer = signer] = [step |-> m.step, kind |-> m.kind, wallet |-> m.wallet,
                                      signer |-> signer, amount |-> m.amount]
  BY <1>2 DEF CallRecords
<1> QED
  BY <1>1, <1>3, <1>4, <1>5

\* The approval is for the fresh price.
LEMMA BeginApprovalKeeps ==
  ASSUME CheckoutInv, NEW c \in Calls, ReadFreshPrice(c), BeginApproval(c)
  PROVE  CheckoutInv'
<1> DEFINE r == [step |-> "sign", kind |-> call[c].kind, wallet |-> call[c].wallet,
                 signer |-> call[c].signer, amount |-> offer.price]
<1>1. MarketStep
  BY CallFacts, NoMarketStep DEF ReadFreshPrice
<1>2. offer.price \in Amounts
  BY CallFacts DEF MarketTypeOK, Amounts
<1>3. Becomes(c, r)
  <2>1. [call[c] EXCEPT !.step = "sign", !.amount = offer.price] = r
    BY <1>2, CallFacts, TwoFields, "sign" \in Steps DEF Steps
  <2>2. call' = [call EXCEPT ![c] = [call[c] EXCEPT !.step = "sign", !.amount = offer.price]]
    BY CallFacts DEF BeginApproval
  <2>3. r \in CallRecords
    BY <1>2, CallFacts DEF CallRecords, Steps
  <2> QED
    BY <2>1, <2>2, <2>3 DEF Becomes
<1>4. /\ call[c].step = "price" /\ call[c].kind = "approve"
      /\ account' = account /\ confirmed' = confirmed /\ seen' = seen /\ moves' = moves
      /\ purchase' = StartApproval(purchase, offer.price)
  BY DEF ReadFreshPrice, BeginApproval
<1>5. purchase' \in PurchaseStates
  BY <1>2, <1>4, CallFacts, ReducerTypes
<1>6. BusyHasCall'
  <2>1. CASE purchase.phase \in {"idle", "failed"}
    <3>1. purchase'.phase = "approving" /\ purchase'.approved = offer.price
      BY <1>4, <2>1 DEF StartApproval
    <3>2. Ending(call'[c], "approve", purchase'.approved)
      BY <1>3, <1>4, <3>1, CallFacts DEF Becomes, Ending
    <3> QED
      BY <3>1, <3>2, BusyIsEndingNext
  <2>2. CASE purchase.phase \notin {"idle", "failed"}
    <3>1. purchase' = purchase
      BY <1>4, <2>2 DEF StartApproval
    <3>2. ~Ending(call[c], "approve", purchase.approved) /\ ~Ending(call[c], "buy", purchase.approved)
      BY <1>4 DEF Ending
    <3> QED
      BY <1>3, <3>1, <3>2, CallFacts, GoesOn
  <2> QED
    BY <2>1, <2>2
<1>7. purchase'.phase = "complete" => purchase.phase = "complete"
  BY <1>4 DEF StartApproval
<1>8. CompleteIsPurchased'
  BY <1>1, <1>4, <1>7, CallFacts, StaysComplete
<1>9. r.step = "sign" /\ r.wallet = call[c].wallet
  OBVIOUS
<1> HIDE DEF r
<1> QED
  BY <1>1, <1>3, <1>4, <1>5, <1>6, <1>8, <1>9, CallFacts, CallKeeps

\* The purchase is for the amount that was approved.
LEMMA BeginPurchaseKeeps ==
  ASSUME CheckoutInv, NEW c \in Calls, ReadFreshPrice(c), BeginPurchase(c)
  PROVE  CheckoutInv'
<1> DEFINE r == Stepped(c, "sign")
<1>1. MarketStep
  BY CallFacts, NoMarketStep DEF ReadFreshPrice
<1>2. offer.price \in Amounts
  BY CallFacts DEF MarketTypeOK, Amounts
<1>3. Becomes(c, r)
  BY CallFacts, NowBecomes DEF BeginPurchase, Steps
<1>4. /\ call[c].step = "price" /\ call[c].kind = "buy" /\ call[c].amount = offer.price
      /\ account' = account /\ confirmed' = confirmed /\ seen' = seen /\ moves' = moves
      /\ purchase' = StartPurchase(purchase, offer.price)
  BY DEF ReadFreshPrice, BeginPurchase
<1>5. purchase' \in PurchaseStates
  BY <1>2, <1>4, CallFacts, ReducerTypes
<1>6. BusyHasCall'
  <2>1. CASE purchase = [phase |-> "readyToBuy", approved |-> offer.price]
    <3>1. purchase'.phase = "purchasing" /\ purchase'.approved = offer.price
      BY <1>4, <2>1 DEF StartPurchase
    <3>2. Ending(call'[c], "buy", purchase'.approved)
      BY <1>3, <1>4, <3>1, CallFacts DEF Becomes, Ending, Stepped
    <3> QED
      BY <3>1, <3>2, BusyIsEndingNext
  <2>2. CASE purchase # [phase |-> "readyToBuy", approved |-> offer.price]
    <3>1. purchase' = purchase
      BY <1>4, <2>2 DEF StartPurchase
    <3>2. ~Ending(call[c], "approve", purchase.approved) /\ ~Ending(call[c], "buy", purchase.approved)
      BY <1>4 DEF Ending
    <3> HIDE DEF r
    <3> QED
      BY <1>3, <3>1, <3>2, CallFacts, GoesOn
  <2> QED
    BY <2>1, <2>2
<1>7. purchase'.phase = "complete" => purchase.phase = "complete"
  BY <1>4 DEF StartPurchase
<1>8. CompleteIsPurchased'
  BY <1>1, <1>4, <1>7, CallFacts, StaysComplete
<1>9. r.step = "sign" /\ r.wallet = call[c].wallet
  BY DEF Stepped
<1> HIDE DEF r
<1> QED
  BY <1>1, <1>3, <1>4, <1>5, <1>6, <1>8, <1>9, CallFacts, CallKeeps

\* The signer is the account at the signature; the wallet of the click stays.
LEMMA SignKeeps ==
  ASSUME CheckoutInv, NEW c \in Calls, Sign(c)
  PROVE  CheckoutInv'
<1> DEFINE r == [step |-> "mine", kind |-> call[c].kind, wallet |-> call[c].wallet,
                 signer |-> account, amount |-> call[c].amount]
<1>1. MarketStep
  BY CallFacts, NoMarketStep DEF Sign
<1>2. account \in Buyers /\ call[c].step = "sign"
  BY CallFacts DEF Sign, Accounts
<1>3. Becomes(c, r)
  <2>1. [call[c] EXCEPT !.step = "mine", !.signer = account] = r
    <3>1. /\ call[c] \in CallRecords /\ "mine" \in Steps
          /\ call[c].amount \in Amounts /\ account \in Accounts
      BY CallFacts DEF CallRecords, Steps
    <3> QED
      BY <3>1, TwoFields
  <2>2. call' = [call EXCEPT ![c] = [call[c] EXCEPT !.step = "mine", !.signer = account]]
    BY CallFacts DEF Sign
  <2>3. r \in CallRecords
    BY CallFacts DEF CallRecords, Steps
  <2> QED
    BY <2>1, <2>2, <2>3 DEF Becomes
<1>4. /\ purchase' = purchase /\ account' = account /\ confirmed' = confirmed
      /\ seen' = seen /\ moves' = moves
  BY DEF Sign
<1>5. \A kind, amount : Ending(call[c], kind, amount) => Ending(r, kind, amount)
  BY DEF Ending
<1>6. r.step = "mine" /\ r.wallet = call[c].wallet /\ r.signer = account
  OBVIOUS
<1> HIDE DEF r
<1>7. BusyHasCall'
  BY <1>3, <1>4, <1>5, CallFacts, GoesOn
<1>8. CompleteIsPurchased'
  BY <1>1, <1>4, CallFacts, StaysComplete
<1> QED
  BY <1>1, <1>2, <1>3, <1>4, <1>6, <1>7, <1>8, CallFacts, CallKeeps

\* A transaction is of a buyer's account, for the amount of its call.
LEMMA TransactStep ==
  ASSUME CheckoutInv, NEW c \in Calls, call[c].step \in {"mine", "lost"}, Transact(c)
  PROVE  MarketStep
<1>1. call[c].signer \in Buyers /\ call[c].amount \in Amounts
  BY CallFacts DEF CallRecords
<1>2. CASE Approve(call[c].signer, call[c].amount)
  BY <1>1, <1>2, CallFacts, ApproveStep
<1>3. CASE BuyCourse(call[c].signer, call[c].amount)
  BY <1>1, <1>3, CallFacts, BuyCourseStep
<1> QED
  BY <1>2, <1>3 DEF Transact

\* A call that goes on to another step, the page as it was.
LEMMA NowKeeps ==
  ASSUME CheckoutInv, MarketStep, NEW c \in Calls, NEW step \in {"check", "refetch"}, Now(c, step),
         call[c].step \in {"mine", "check"},
         step = "refetch" => call[c].kind = "buy" /\ quoted[call[c].wallet] # 0,
         UNCHANGED <<account, seen, purchase, confirmed, moves>>
  PROVE  CheckoutInv'
<1> DEFINE r == Stepped(c, step)
<1>1. Becomes(c, r)
  BY CallFacts, NowBecomes DEF Steps
<1>2. /\ purchase' = purchase /\ account' = account /\ confirmed' = confirmed
      /\ seen' = seen /\ moves' = moves
  OBVIOUS
<1>3. Ending(call[c], "approve", purchase.approved) => Ending(r, "approve", purchase.approved)
  BY DEF Ending, Stepped
<1>4. Ending(call[c], "buy", purchase.approved) => Ending(r, "buy", purchase.approved)
  BY DEF Ending, Stepped
<1>5. /\ r.step = step /\ r.wallet = call[c].wallet /\ r.kind = call[c].kind
  BY DEF Stepped
<1> HIDE DEF r
<1>6. BusyHasCall'
  BY <1>1, <1>2, <1>3, <1>4, CallFacts, GoesOn
<1>7. CompleteIsPurchased'
  BY <1>2, CallFacts, StaysComplete
<1> QED
  BY <1>1, <1>2, <1>5, <1>6, <1>7, CallFacts, CallKeeps

LEMMA MineKeeps ==
  ASSUME CheckoutInv, NEW c \in Calls, Mine(c)
  PROVE  CheckoutInv'
<1>1. call[c].step = "mine" /\ Transact(c) /\ Now(c, "check")
  BY DEF Mine
<1>2. UNCHANGED <<account, seen, purchase, confirmed, moves>>
  BY DEF Mine
<1>3. MarketStep
  BY <1>1, TransactStep
<1> QED
  BY <1>1, <1>2, <1>3, NowKeeps

LEMMA FindPurchaseKeeps ==
  ASSUME CheckoutInv, NEW c \in Calls, FindPurchase(c)
  PROVE  CheckoutInv'
<1>1. /\ call[c].step = "check" /\ call[c].kind = "buy" /\ quoted[call[c].wallet] # 0
      /\ Now(c, "refetch")
  BY DEF FindPurchase, PurchaseFound, HasPurchased
<1>2. UNCHANGED <<account, seen, purchase, confirmed, moves>>
  BY DEF FindPurchase
<1>3. MarketStep
  BY CallFacts, NoMarketStep DEF FindPurchase
<1> QED
  BY <1>1, <1>2, <1>3, NowKeeps

\* A call ends: the page has nothing left to keep of it.
LEMMA EndKeeps ==
  ASSUME CheckoutInv, MarketStep, NEW c \in Calls, call' = [call EXCEPT ![c] = NoCall],
         purchase' \in PurchaseStates, account' = account, confirmed' \in Accounts,
         seen' \in Amounts, moves' = moves, BusyHasCall', CompleteIsPurchased'
  PROVE  CheckoutInv'
<1>1. Becomes(c, NoCall)
  BY NoCallIsCall DEF Becomes
<1> QED
  BY <1>1, NoCallIsCall, CallKeeps

\* An approval that the contract shows ends its own phase only: the amounts agree.
LEMMA FindAllowanceKeeps ==
  ASSUME CheckoutInv, NEW c \in Calls, FindAllowance(c)
  PROVE  CheckoutInv'
<1>1. /\ call[c].step = "check" /\ call[c].kind = "approve"
      /\ call' = [call EXCEPT ![c] = NoCall]
      /\ purchase' = ApprovalConfirmed(purchase, call[c].amount)
      /\ account' = account /\ seen' = seen /\ confirmed' = confirmed /\ moves' = moves
  BY DEF FindAllowance, Ends
<1>2. MarketStep
  BY CallFacts, NoMarketStep DEF FindAllowance
<1>3. purchase' \in PurchaseStates
  BY <1>1, CallFacts, ReducerTypes DEF CallRecords
<1>4. BusyHasCall'
  <2>1. CASE purchase = [phase |-> "approving", approved |-> call[c].amount]
    BY <1>1, <2>1, NotBusy DEF ApprovalConfirmed
  <2>2. CASE purchase # [phase |-> "approving", approved |-> call[c].amount]
    <3>1. purchase' = purchase
      BY <1>1, <2>2 DEF ApprovalConfirmed
    <3>2. ~(purchase.phase = "approving" /\ purchase.approved = call[c].amount)
      BY <2>2, CallFacts DEF PurchaseStates
    <3>3. purchase.phase = "approving" => ~Ending(call[c], "approve", purchase.approved)
      BY <3>2 DEF Ending
    <3>4. ~Ending(call[c], "buy", purchase.approved)
      BY <1>1 DEF Ending
    <3>5. Becomes(c, NoCall)
      BY <1>1, NoCallIsCall DEF Becomes
    <3> QED
      BY <3>1, <3>3, <3>4, <3>5, CallFacts, GoesOn
  <2> QED
    BY <2>1, <2>2
<1>5. purchase'.phase = "complete" => purchase.phase = "complete"
  BY <1>1 DEF ApprovalConfirmed
<1>6. CompleteIsPurchased'
  BY <1>1, <1>2, <1>5, CallFacts, StaysComplete
<1> QED
  BY <1>1, <1>2, <1>3, <1>4, <1>6, CallFacts, EndKeeps

\* The wallet confirmed is the one that FindPurchase found.
LEMMA RefetchKeeps ==
  ASSUME CheckoutInv, NEW c \in Calls, Refetch(c)
  PROVE  CheckoutInv'
<1>1. /\ call[c].step = "refetch"
      /\ call' = [call EXCEPT ![c] = NoCall]
      /\ purchase' = PurchaseConfirmed(purchase)
      /\ account' = account /\ seen' = Listed /\ moves' = moves
      /\ confirmed' = IF purchase.phase = "purchasing" THEN call[c].wallet ELSE confirmed
  BY DEF Refetch, Ends
<1>2. MarketStep
  BY CallFacts, NoMarketStep DEF Refetch
<1>3. purchase' \in PurchaseStates
  BY <1>1, CallFacts, ReducerTypes, 0 \in Amounts DEF Amounts
<1>4. call[c].wallet \in Buyers /\ quoted[call[c].wallet] # 0 /\ call[c].kind = "buy"
  BY <1>1, CallFacts
<1>5. BusyHasCall' /\ CompleteIsPurchased'
  <2>1. CASE purchase.phase = "purchasing"
    <3>1. purchase'.phase = "complete" /\ confirmed' = call[c].wallet
      BY <1>1, <2>1 DEF PurchaseConfirmed
    <3>2. quoted'[call[c].wallet] # 0
      BY <1>2, <1>4 DEF MarketStep
    <3> QED
      BY <1>4, <3>1, <3>2, NotBusy DEF CompleteIsPurchased, HasPurchased
  <2>2. CASE purchase.phase # "purchasing"
    <3>1. purchase' = purchase /\ confirmed' = confirmed
      BY <1>1, <2>2 DEF PurchaseConfirmed
    <3>2. ~Ending(call[c], "approve", purchase.approved)
      BY <1>4 DEF Ending
    <3>3. Becomes(c, NoCall)
      BY <1>1, NoCallIsCall DEF Becomes
    <3> QED
      BY <1>2, <2>2, <3>1, <3>2, <3>3, CallFacts, GoesOn, StaysComplete
  <2> QED
    BY <2>1, <2>2
<1>6. confirmed' \in Accounts /\ seen' \in Amounts
  BY <1>1, <1>4, CallFacts DEF Accounts
<1> QED
  BY <1>1, <1>2, <1>3, <1>5, <1>6, CallFacts, EndKeeps

\* A failure ends the phase whatever it was.
LEMMA CallFailsKeeps ==
  ASSUME CheckoutInv, NEW c \in Calls, CallFails(c)
  PROVE  CheckoutInv'
<1>1. /\ call' = [call EXCEPT ![c] = NoCall] /\ purchase' = Failed(purchase)
      /\ account' = account /\ seen' = seen /\ confirmed' = confirmed /\ moves' = moves
  BY DEF CallFails, Ends
<1>2. MarketStep
  BY CallFacts, NoMarketStep DEF CallFails
<1>3. purchase' \in PurchaseStates /\ purchase'.phase = "failed"
  BY <1>1, CallFacts, ReducerTypes, 0 \in Amounts DEF Amounts, Failed
<1>4. BusyHasCall' /\ CompleteIsPurchased'
  BY <1>3, NotBusy DEF CompleteIsPurchased
<1> QED
  BY <1>1, <1>2, <1>3, <1>4, CallFacts, EndKeeps

LEMMA LoseReceiptKeeps ==
  ASSUME CheckoutInv, NEW c \in Calls, LoseReceipt(c)
  PROVE  CheckoutInv'
<1> DEFINE r == Stepped(c, "lost")
<1>1. /\ call[c].step = "mine" /\ Now(c, "lost") /\ purchase' = Failed(purchase)
      /\ account' = account /\ seen' = seen /\ confirmed' = confirmed /\ moves' = moves
  BY DEF LoseReceipt
<1>2. MarketStep
  BY CallFacts, NoMarketStep DEF LoseReceipt
<1>3. Becomes(c, r)
  BY <1>1, CallFacts, NowBecomes DEF Steps
<1>4. r.step = "lost" /\ r.wallet = call[c].wallet /\ r.signer = call[c].signer
  BY DEF Stepped
<1> HIDE DEF r
<1>5. purchase' \in PurchaseStates /\ purchase'.phase = "failed"
  BY <1>1, CallFacts, ReducerTypes, 0 \in Amounts DEF Amounts, Failed
<1>6. BusyHasCall' /\ CompleteIsPurchased'
  BY <1>5, NotBusy DEF CompleteIsPurchased
<1> QED
  BY <1>1, <1>2, <1>3, <1>4, <1>5, <1>6, CallFacts, CallKeeps

\* A lost call that is mined tells the page nothing.
LEMMA MineLostKeeps ==
  ASSUME CheckoutInv, NEW c \in Calls, MineLost(c)
  PROVE  CheckoutInv'
<1>1. /\ call[c].step = "lost" /\ Transact(c) /\ call' = [call EXCEPT ![c] = NoCall]
      /\ purchase' = purchase /\ account' = account /\ seen' = seen
      /\ confirmed' = confirmed /\ moves' = moves
  BY DEF MineLost
<1>2. MarketStep
  BY <1>1, TransactStep
<1>3. ~Ending(call[c], "approve", purchase.approved) /\ ~Ending(call[c], "buy", purchase.approved)
  BY <1>1 DEF Ending
<1>4. Becomes(c, NoCall)
  BY <1>1, NoCallIsCall DEF Becomes
<1>5. BusyHasCall'
  BY <1>1, <1>3, <1>4, CallFacts, GoesOn
<1>6. CompleteIsPurchased'
  BY <1>1, <1>2, CallFacts, StaysComplete
<1> QED
  BY <1>1, <1>2, <1>5, <1>6, CallFacts, EndKeeps

LEMMA CallStepKeeps ==
  ASSUME CheckoutInv, NEW c \in Calls, CallStep(c)
  PROVE  CheckoutInv'
<1>1. CASE ApproveExact(c)
  BY <1>1, ClickKeeps, 0 \in Amounts DEF ApproveExact, Amounts
<1>2. CASE BuyExact(c)
  BY <1>2, CallFacts, ClickKeeps DEF BuyExact, PurchaseStates
<1>3. CASE ReadFreshPrice(c)
  BY <1>3, BeginApprovalKeeps, BeginPurchaseKeeps DEF ReadFreshPrice
<1> QED
  BY <1>1, <1>2, <1>3, SignKeeps, MineKeeps, FindAllowanceKeeps, FindPurchaseKeeps, RefetchKeeps,
     CallFailsKeeps, LoseReceiptKeeps, MineLostKeeps DEF CallStep

-----------------------------------------------------------------------------
(* The page, the administrator and the other tabs.                         *)

\* Steps that leave the calls alone.
LEMMA PageKeeps ==
  ASSUME CheckoutInv, MarketStep, UNCHANGED call, purchase' \in PurchaseStates,
         account' \in Accounts, UNCHANGED confirmed, seen' \in Amounts, moves' \in 0..MaxMoves,
         purchase' = purchase \/ purchase' = InitialPurchase
  PROVE  CheckoutInv'
<1>1. CheckoutTypeOK'
  BY DEF CheckoutInv, CheckoutTypeOK, MarketStep, PurchaseStates
<1>2. CallsKnow'
  <2> SUFFICES ASSUME NEW d \in Calls
               PROVE  /\ call'[d].step # "none" => call'[d].wallet \in Buyers
                      /\ call'[d].step \in {"mine", "lost"} => call'[d].signer \in Buyers
                      /\ call'[d].step = "refetch" =>
                           call'[d].kind = "buy" /\ quoted'[call'[d].wallet] # 0
    BY DEF CallsKnow, HasPurchased
  <2> QED
    BY CallFacts DEF MarketStep
<1>3. CASE purchase' = purchase
  <2>1. BusyHasCall'
    BY <1>3 DEF CheckoutInv, BusyHasCall
  <2>2. CompleteIsPurchased'
    BY <1>3, StaysComplete DEF CheckoutInv
  <2> QED
    BY <1>1, <1>2, <2>1, <2>2 DEF CheckoutInv, MarketStep
<1>4. CASE purchase' = InitialPurchase
  <2>1. purchase'.phase = "idle"
    BY <1>4 DEF InitialPurchase
  <2>2. BusyHasCall' /\ CompleteIsPurchased'
    BY <2>1, NotBusy DEF CompleteIsPurchased
  <2> QED
    BY <1>1, <1>2, <2>2 DEF CheckoutInv, MarketStep
<1> QED
  BY <1>3, <1>4

\* A reload forgets the calls; what was signed is lost and can still be mined.
LEMMA ReloadKeeps ==
  ASSUME CheckoutInv, Reload, moves' \in 0..MaxMoves
  PROVE  CheckoutInv'
<1>1. MarketStep
  BY NoMarketStep DEF Reload, CheckoutInv, CheckoutTypeOK
<1>2. \A c \in Calls :
        /\ call'[c] \in CallRecords
        /\ call'[c].step # "none" => call'[c].wallet \in Buyers
        /\ call'[c].step \in {"mine", "lost"} => call'[c].signer \in Buyers
        /\ call'[c].step # "refetch"
  <2> SUFFICES ASSUME NEW c \in Calls
               PROVE  /\ call'[c] \in CallRecords
                      /\ call'[c].step # "none" => call'[c].wallet \in Buyers
                      /\ call'[c].step \in {"mine", "lost"} => call'[c].signer \in Buyers
                      /\ call'[c].step # "refetch"
    OBVIOUS
  <2>1. CASE call[c].step \in {"mine", "lost"}
    <3>1. call'[c] = Stepped(c, "lost")
      BY <2>1 DEF Reload, Stepped
    <3> QED
      BY <2>1, <3>1, CallFacts DEF Stepped, CallRecords, Steps
  <2>2. CASE call[c].step \notin {"mine", "lost"}
    <3>1. call'[c] = NoCall
      BY <2>2 DEF Reload
    <3> QED
      BY <3>1, NoCallIsCall
  <2> QED
    BY <2>1, <2>2
<1>3. call' \in [Calls -> CallRecords]
  BY <1>2 DEF Reload
<1>4. purchase' = InitialPurchase /\ purchase'.phase = "idle" /\ purchase' \in PurchaseStates
  BY ReducerTypes DEF Reload, InitialPurchase, PurchaseStates, Phases, Amounts
<1>5. CheckoutTypeOK'
  <2>1. seen' \in Amounts /\ confirmed' \in Accounts /\ account' \in Accounts
    BY ListedIsAmount DEF Reload, Accounts, CheckoutInv, CheckoutTypeOK
  <2> QED
    BY <1>1, <1>3, <1>4, <2>1 DEF CheckoutTypeOK, MarketStep, CallRecords, PurchaseStates
<1>6. CallsKnow'
  BY <1>2 DEF CallsKnow
<1>7. BusyHasCall' /\ CompleteIsPurchased'
  BY <1>4, NotBusy DEF CompleteIsPurchased
<1> QED
  BY <1>1, <1>5, <1>6, <1>7 DEF CheckoutInv, MarketStep

LEMMA MoveKeeps ==
  ASSUME CheckoutInv, Move
  PROVE  CheckoutInv'
<1>1. moves' \in 0..MaxMoves
  BY DEF Move, CheckoutInv, CheckoutTypeOK
<1>2. MarketTypeOK /\ BuyersPaid /\ MoneyShared /\ account \in Accounts /\ seen \in Amounts
      /\ purchase \in PurchaseStates
  BY DEF CheckoutInv, CheckoutTypeOK, PurchaseStates
<1>3. CASE /\ Administer \/ \E b \in Buyers : Elsewhere(b)
           /\ UNCHANGED <<account, seen, purchase, call, confirmed>>
  <2>1. MarketStep
    BY <1>2, <1>3, AdministerStep, ElsewhereStep
  <2> QED
    BY <1>1, <1>2, <1>3, <2>1, PageKeeps
<1>4. CASE \E a \in Accounts : SwitchAccount(a)
  <2>1. UNCHANGED <<marketVars, seen, purchase, call, confirmed>> /\ account' \in Accounts
    BY <1>4 DEF SwitchAccount
  <2>2. MarketStep
    BY <1>2, <2>1, NoMarketStep
  <2> QED
    BY <1>1, <1>2, <2>1, <2>2, PageKeeps
<1>5. CASE Reload
  BY <1>1, <1>5, ReloadKeeps
<1> QED
  BY <1>3, <1>4, <1>5 DEF Move

LEMMA CheckoutInvKeeps ==
  ASSUME CheckoutInv, [CheckoutNext]_checkoutVars
  PROVE  CheckoutInv'
<1>1. /\ MarketTypeOK /\ BuyersPaid /\ MoneyShared /\ account \in Accounts /\ seen \in Amounts
      /\ moves \in 0..MaxMoves /\ purchase \in PurchaseStates /\ Listed \in Amounts
      /\ InitialPurchase \in PurchaseStates
  BY ListedIsAmount DEF CheckoutInv, CheckoutTypeOK, PurchaseStates, InitialPurchase, Phases, Amounts
<1>2. CASE \E c \in Calls : CallStep(c)
  BY <1>2, CallStepKeeps
<1>3. CASE Retry
  BY <1>1, <1>3, NoMarketStep, PageKeeps DEF Retry
<1>4. CASE RefreshOffer
  BY <1>1, <1>4, NoMarketStep, PageKeeps DEF RefreshOffer
<1>5. CASE Move
  BY <1>5, MoveKeeps
<1>6. CASE UNCHANGED checkoutVars
  <2>1. UNCHANGED marketVars /\ UNCHANGED <<account, seen, purchase, call, confirmed, moves>>
    BY <1>6 DEF checkoutVars, pageVars
  <2>2. MarketStep
    BY <1>1, <2>1, NoMarketStep
  <2> QED
    BY <1>1, <2>1, <2>2, PageKeeps
<1> QED
  BY <1>2, <1>3, <1>4, <1>5, <1>6 DEF CheckoutNext

LEMMA CheckoutInvInit ==
  ASSUME CheckoutInit
  PROVE  CheckoutInv
<1>1. MarketTypeOK /\ BuyersPaid /\ MoneyShared
  <2>1. /\ offer \in [price : Prices, listed : BOOLEAN] /\ paused \in BOOLEAN
        /\ allowance \in [Buyers -> Nat] /\ quoted = [b \in Buyers |-> 0]
    BY DEF CheckoutInit, MarketInit
  <2>2. balance = [a \in Buyers \union {Payout, Treasury} |-> IF a \in Buyers THEN Funds ELSE 0]
    BY DEF CheckoutInit, MarketInit
  <2>3. balance \in [Buyers \union {Payout, Treasury} -> Nat]
    BY <2>2
  <2>4. \A b \in Buyers : balance[b] = Funds /\ quoted[b] = 0
    BY <2>1, <2>2
  <2>5. balance[Payout] = 0 /\ balance[Treasury] = 0
    BY <2>2
  <2>6. MoneyShared
    BY <2>1, <2>4, <2>5, NothingPaid DEF MoneyShared
  <2> QED
    BY <2>1, <2>3, <2>4, <2>6 DEF MarketTypeOK, BuyersPaid
<1>2. call \in [Calls -> CallRecords] /\ \A c \in Calls : call[c].step = "none"
  BY NoCallIsCall DEF CheckoutInit
<1>3. seen \in Amounts /\ account \in Accounts /\ confirmed \in Accounts /\ moves \in 0..MaxMoves
  BY <1>1, ListedIsAmount DEF CheckoutInit, Accounts
<1>4. purchase \in PurchaseStates /\ purchase.phase = "idle"
  BY DEF CheckoutInit, InitialPurchase, PurchaseStates, Phases, Amounts
<1>5. CheckoutTypeOK
  BY <1>1, <1>2, <1>3, <1>4 DEF CheckoutTypeOK, CallRecords, PurchaseStates
<1>6. CallsKnow
  BY <1>2 DEF CallsKnow
<1>7. BusyHasCall /\ CompleteIsPurchased
  BY <1>4 DEF BusyHasCall, CompleteIsPurchased
<1> QED
  BY <1>1, <1>5, <1>6, <1>7 DEF CheckoutInv

LEMMA CheckoutInvHolds == CheckoutSpec => []CheckoutInv
<1>1. CheckoutInit => CheckoutInv
  BY CheckoutInvInit
<1>2. CheckoutInv /\ [CheckoutNext]_checkoutVars => CheckoutInv'
  BY CheckoutInvKeeps
<1> QED
  BY <1>1, <1>2, PTL DEF CheckoutSpec

-----------------------------------------------------------------------------
(* The theorems.                                                           *)

\* The page and the contracts have their types.
THEOREM CheckoutTypeCorrect == CheckoutSpec => []CheckoutTypeOK
<1>1. CheckoutInv => CheckoutTypeOK
  BY DEF CheckoutInv
<1> QED
  BY <1>1, CheckoutInvHolds, PTL

\* Whatever the administrator, the other tabs and overlapping clicks do, a buyer
\* pays the price it was quoted, once, and teacher and platform have their shares of
\* every purchase (CourseMarket.buyCourse).
THEOREM MoneyAlwaysMatches == CheckoutSpec => []MoneyMatchesPurchases
<1>1. CheckoutInv => MoneyMatchesPurchases
  BY MoneyMeans DEF CheckoutInv
<1> QED
  BY <1>1, CheckoutInvHolds, PTL

\* However many calls overlap, a page that is busy has a call that ends its
\* phase (purchaseReducer and the two handlers of app.tsx).
THEOREM BusyAlwaysHasCall == CheckoutSpec => []BusyHasCall
<1>1. CheckoutInv => BusyHasCall
  BY DEF CheckoutInv
<1> QED
  BY <1>1, CheckoutInvHolds, PTL

\* The page confirms the purchase of a wallet that has bought only, even when
\* the account was switched while the call went on.
THEOREM CompleteAlwaysPurchased == CheckoutSpec => []CompleteIsPurchased
<1>1. CheckoutInv => CompleteIsPurchased
  BY DEF CheckoutInv
<1> QED
  BY <1>1, CheckoutInvHolds, PTL
=============================================================================
