------------------------------ MODULE Checkout ------------------------------
(***************************************************************************)
(* The checkout page of one course (app.tsx, purchase-machine.ts) against  *)
(* the contracts of CourseMarket.  A click starts a call that awaits the   *)
(* fresh price, the wallet, the receipt and the result.  The buttons are   *)
(* disabled by a phase that is only set after the first await, so calls    *)
(* overlap; each keeps the wallet and the approved amount of its click.    *)
(***************************************************************************)
EXTENDS CourseMarket

CONSTANTS
  NoAccount,   \* no wallet connected
  Calls,       \* clicks whose effects can overlap
  MaxMoves     \* bound: moves of the administrator, other tabs, the account and the page

ASSUME CheckoutAssumption ==
  /\ NoAccount \notin Buyers
  /\ MaxMoves \in Nat

VARIABLES
  account,     \* connected account that can transact
  seen,        \* price on the buttons, 0 when the offer could not be read
  purchase,    \* the reducer's state: phase and approvedAmount, 0: null
  call,        \* what each click is doing
  confirmed,   \* wallet whose purchase the page confirmed
  moves

pageVars == <<account, seen, purchase, call, confirmed, moves>>
checkoutVars == <<marketVars, pageVars>>

Accounts == Buyers \union {NoAccount}
Amounts == Prices \union {0}
Phases == {"idle", "approving", "readyToBuy", "purchasing", "complete", "failed"}
\* A lost call was abandoned with its transaction signed.
Steps == {"none", "price", "sign", "mine", "check", "refetch", "lost"}

NoCall == [step |-> "none", kind |-> "approve", wallet |-> NoAccount,
           signer |-> NoAccount, amount |-> 0]

CheckoutTypeOK ==
  /\ MarketTypeOK
  /\ account \in Accounts /\ confirmed \in Accounts
  /\ seen \in Amounts
  /\ purchase \in [phase : Phases, approved : Amounts]
  /\ call \in [Calls -> [step : Steps, kind : {"approve", "buy"}, wallet : Accounts,
                         signer : Accounts, amount : Amounts]]
  /\ moves \in 0..MaxMoves

InitialPurchase == [phase |-> "idle", approved |-> 0]

Listed == IF offer.listed THEN offer.price ELSE 0

CheckoutInit ==
  /\ MarketInit
  /\ account \in Accounts
  /\ seen = Listed
  /\ purchase = InitialPurchase
  /\ call = [c \in Calls |-> NoCall]
  /\ confirmed = NoAccount
  /\ moves = 0

-----------------------------------------------------------------------------
(* purchaseReducer, one operator per event.                                *)

StartApproval(s, amount) ==
  IF s.phase \in {"idle", "failed"} THEN [phase |-> "approving", approved |-> amount] ELSE s

ApprovalConfirmed(s, amount) ==
  IF s = [phase |-> "approving", approved |-> amount]
  THEN [phase |-> "readyToBuy", approved |-> amount] ELSE s

StartPurchase(s, amount) ==
  IF s = [phase |-> "readyToBuy", approved |-> amount]
  THEN [phase |-> "purchasing", approved |-> amount] ELSE s

PurchaseConfirmed(s) ==
  IF s.phase = "purchasing" THEN [phase |-> "complete", approved |-> s.approved] ELSE s

\* Fault: a failure is only taken from an approval.
FailedApproval(s) ==
  IF s.phase = "purchasing" THEN s ELSE [phase |-> "failed", approved |-> s.approved]

\* In every phase.
Failed(s) == [phase |-> "failed", approved |-> s.approved]

-----------------------------------------------------------------------------
(* The calls.                                                              *)

Now(c, step) == call' = [call EXCEPT ![c].step = step]

Ends(c, state) ==
  /\ call' = [call EXCEPT ![c] = NoCall]
  /\ purchase' = state

\* Either button, with what the rendered page knew.
Click(c, kind, amount) ==
  /\ call[c].step = "none"
  /\ account # NoAccount
  /\ call' = [call EXCEPT ![c] =
       [step |-> "price", kind |-> kind, wallet |-> account,
        signer |-> NoAccount, amount |-> amount]]
  /\ UNCHANGED <<marketVars, account, seen, purchase, confirmed, moves>>

ApproveExact(c) ==
  /\ purchase.phase \in {"idle", "failed"}
  /\ seen # 0
  /\ Click(c, "approve", 0)

BuyExact(c) ==
  /\ purchase.phase = "readyToBuy"
  /\ Click(c, "buy", purchase.approved)

\* The reducer may ignore the first dispatch of a call: the call goes on.
BeginApproval(c) ==
  /\ call[c].kind = "approve"
  /\ call' = [call EXCEPT ![c].step = "sign", ![c].amount = offer.price]
  /\ purchase' = StartApproval(purchase, offer.price)

BeginPurchase(c) ==
  /\ call[c].kind = "buy"
  /\ offer.price = call[c].amount
  /\ Now(c, "sign")
  /\ purchase' = StartPurchase(purchase, offer.price)

ReadFreshPrice(c) ==
  /\ call[c].step = "price"
  /\ offer.listed
  /\ BeginApproval(c) \/ BeginPurchase(c)
  /\ UNCHANGED <<marketVars, account, seen, confirmed, moves>>

\* The wallet signs with the account it has now.
Sign(c) ==
  /\ call[c].step = "sign"
  /\ account # NoAccount
  /\ call' = [call EXCEPT ![c].step = "mine", ![c].signer = account]
  /\ UNCHANGED <<marketVars, account, seen, purchase, confirmed, moves>>

Transact(c) ==
  \/ call[c].kind = "approve" /\ Approve(call[c].signer, call[c].amount)
  \/ call[c].kind = "buy" /\ BuyCourse(call[c].signer, call[c].amount)

\* The transaction is included with success, and its receipt answered.
Mine(c) ==
  /\ call[c].step = "mine"
  /\ Transact(c)
  /\ Now(c, "check")
  /\ UNCHANGED <<account, seen, purchase, confirmed, moves>>

\* The contract is read for the wallet of the click.
FindAllowance(c) ==
  /\ call[c].step = "check" /\ call[c].kind = "approve"
  /\ allowance[call[c].wallet] >= call[c].amount
  /\ Ends(c, ApprovalConfirmed(purchase, call[c].amount))
  /\ UNCHANGED <<marketVars, account, seen, confirmed, moves>>

\* Fault: the receipt is enough.
ReceiptIsEnough(c) == TRUE

PurchaseFound(c) == HasPurchased(call[c].wallet)

FindPurchase(c) ==
  /\ call[c].step = "check" /\ call[c].kind = "buy"
  /\ PurchaseFound(c)
  /\ Now(c, "refetch")
  /\ UNCHANGED <<marketVars, account, seen, purchase, confirmed, moves>>

Refetch(c) ==
  /\ call[c].step = "refetch"
  /\ seen' = Listed
  /\ Ends(c, PurchaseConfirmed(purchase))
  /\ confirmed' = IF purchase.phase = "purchasing" THEN call[c].wallet ELSE confirmed
  /\ UNCHANGED <<marketVars, account, moves>>

\* A refused signature, a failed read or test; at "mine", a revert (of a late
\* purchase, too).
CallFails(c) ==
  /\ call[c].step \in {"price", "sign", "mine", "check"}
  /\ Ends(c, Failed(purchase))
  /\ UNCHANGED <<marketVars, account, seen, confirmed, moves>>

\* The wait for the receipt fails, the transaction does not.
LoseReceipt(c) ==
  /\ call[c].step = "mine"
  /\ Now(c, "lost")
  /\ purchase' = Failed(purchase)
  /\ UNCHANGED <<marketVars, account, seen, confirmed, moves>>

MineLost(c) ==
  /\ call[c].step = "lost"
  /\ Transact(c)
  /\ call' = [call EXCEPT ![c] = NoCall]
  /\ UNCHANGED <<account, seen, purchase, confirmed, moves>>

-----------------------------------------------------------------------------
\* "Retry safely".
Retry ==
  /\ purchase.phase = "failed"
  /\ purchase' = InitialPurchase
  /\ UNCHANGED <<marketVars, account, seen, call, confirmed, moves>>

\* The query of the offer is repeated, on focus or when it is stale.
RefreshOffer ==
  /\ account # NoAccount
  /\ seen # Listed
  /\ seen' = Listed
  /\ UNCHANGED <<marketVars, account, purchase, call, confirmed, moves>>

SwitchAccount(a) ==
  /\ a # account
  /\ account' = a
  /\ UNCHANGED <<marketVars, seen, purchase, call, confirmed>>

Reload ==
  /\ purchase' = InitialPurchase
  /\ call' = [c \in Calls |->
       IF call[c].step \in {"mine", "lost"}
       THEN [step |-> "lost", kind |-> call[c].kind, wallet |-> call[c].wallet,
             signer |-> call[c].signer, amount |-> call[c].amount]
       ELSE NoCall]
  /\ seen' = Listed
  /\ confirmed' = NoAccount
  /\ UNCHANGED <<marketVars, account>>

Move ==
  /\ moves < MaxMoves
  /\ moves' = moves + 1
  /\ \/ /\ Administer \/ \E b \in Buyers : Elsewhere(b)
        /\ UNCHANGED <<account, seen, purchase, call, confirmed>>
     \/ \E a \in Accounts : SwitchAccount(a)
     \/ Reload

CallStep(c) ==
  \/ ApproveExact(c) \/ BuyExact(c) \/ ReadFreshPrice(c) \/ Sign(c) \/ Mine(c)
  \/ FindAllowance(c) \/ FindPurchase(c) \/ Refetch(c) \/ CallFails(c) \/ LoseReceipt(c) \/ MineLost(c)

CheckoutNext ==
  \/ \E c \in Calls : CallStep(c)
  \/ Retry \/ RefreshOffer \/ Move

CheckoutSpec == CheckoutInit /\ [][CheckoutNext]_checkoutVars

-----------------------------------------------------------------------------
\* A page whose buttons are disabled as busy has a call that will end the phase,
\* however calls overlap, fail and are ignored by the reducer.
BusyHasCall ==
  /\ purchase.phase = "approving" => \E c \in Calls :
       /\ call[c].kind = "approve" /\ call[c].step \in {"sign", "mine", "check"}
       /\ call[c].amount = purchase.approved
  /\ purchase.phase = "purchasing" => \E c \in Calls :
       /\ call[c].kind = "buy" /\ call[c].step \in {"sign", "mine", "check", "refetch"}
       /\ call[c].amount = purchase.approved

\* "On-chain purchase confirmed" is shown only for a wallet that has bought,
\* with the account switched during the call as well.
CompleteIsPurchased ==
  purchase.phase = "complete" => confirmed # NoAccount /\ HasPurchased(confirmed)

\* A buyer signs a purchase at the price that the page shows: flows.md says that the
\* quote prevents a silent change between page load and transaction execution.
PaysShownPrice ==
  [][\A c \in Calls : call[c].kind = "buy" /\ call[c].step = "sign" /\ call'[c].step = "mine"
       => call[c].amount = seen]_checkoutVars
=============================================================================
