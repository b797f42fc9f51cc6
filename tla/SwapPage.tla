------------------------------ MODULE SwapPage ------------------------------
(***************************************************************************)
(* The swap page (SwapPage.tsx, swap-domain.ts): its authorizations and    *)
(* swaps, with what it needs of Test USDT, Permit2, the router and pools.  *)
(* Each call keeps the inputs of its click, while every edit of an input   *)
(* makes the page idle again, so calls overlap.  A transaction is sent and *)
(* included in one step.                                                   *)
(***************************************************************************)
EXTENDS Integers

CONSTANTS
  Amounts,     \* inputs the student enters
  Slippages,   \* in basis points
  Rates,       \* YD that a pool gives for one unit
  Deadline,    \* SWAP_DEADLINE_SECONDS
  PermitLife,  \* one hour
  Calls,
  MaxClock, MaxMoves  \* bounds: time; edits, changes of the rate and of allowances

\* Whoever instantiates this module assumes it of the constants.
SwapAssumption ==
  /\ Amounts \subseteq Nat \ {0} /\ Rates \subseteq Nat \ {0}
  /\ Slippages \subseteq 10..500
  /\ {Deadline, PermitLife, MaxClock, MaxMoves} \subseteq Nat

VARIABLES
  input,       \* asset, amount and slippage of the form
  phase,       \* of the page's action
  ready,       \* what the authorization query knows of the amount
  trade,       \* what each call is doing
  token,       \* Test USDT that Permit2 may take
  permit,      \* what Permit2 lets the router take, and until when
  rate,        \* of the pool of each asset
  time, edits

world == <<token, permit, rate>>
vars == <<input, phase, ready, trade, world, time, edits>>

Zero(S) == S \union {0}
Assets == {"test-usdt", "sepolia-eth"}
Inputs == [asset : Assets, amount : Amounts, slippage : Slippages]

\* A call that ended without its receipt, while its transaction is still out.
LostSteps == {"resetLost", "approveLost", "signLost", "executeLost"}
NoTrade(in) == [step |-> "none", input |-> in, quote |-> 0, minimum |-> 0, until |-> 0]

TypeOK ==
  /\ input \in Inputs
  /\ phase \in {"idle", "authorizing", "swapping", "success", "error"}
  /\ ready \in {"unknown", "ready", "missing"}
  /\ \A c \in Calls :
       /\ trade[c].step \in {"none", "read", "reset", "approve", "permit", "sign", "refresh",
                             "check", "quote", "execute", "report"} \union LostSteps
       /\ trade[c].input \in Inputs
       /\ {trade[c].quote, trade[c].minimum, trade[c].until} \subseteq Nat
  /\ token \in Nat /\ permit \in [amount : Nat, until : Nat]
  /\ rate \in [Assets -> Rates] /\ time \in 0..MaxClock /\ edits \in 0..MaxMoves

Init ==
  /\ input \in Inputs
  /\ phase = "idle" /\ ready = "unknown"
  /\ trade = [c \in Calls |-> NoTrade(input)]
  /\ token \in Zero(Amounts)
  /\ permit = [amount |-> 0, until |-> 0]
  /\ rate \in [Assets -> Rates]
  /\ time = 0 /\ edits = 0

-----------------------------------------------------------------------------
\* Fault: the slippage is converted to basis points twice.
MinimumOfPercent(quote, slippage) == (quote * (10000 - 100 * slippage)) \div 10000

\* minimumAmountOut.
MinimumOut(quote, slippage) == (quote * (10000 - slippage)) \div 10000

\* quoteExactInput: what the pool of the asset gives now.
Quote(in) == in.amount * rate[in.asset]

Ready(amount) ==
  IF token >= amount /\ permit.amount >= amount /\ permit.until > time + Deadline
  THEN "ready" ELSE "missing"

Busy == phase \in {"authorizing", "swapping"}

Goes(c, step) == trade' = [trade EXCEPT ![c].step = step]

Starts(c, step) ==
  /\ trade[c].step = "none" /\ ~Busy
  /\ trade' = [trade EXCEPT ![c] = [NoTrade(input) EXCEPT !.step = step]]

\* The button is "authorize" until the query says that the amount is authorized.
ClickAuthorize(c) ==
  /\ input.asset = "test-usdt" /\ ready = "missing"
  /\ Starts(c, "read")
  /\ phase' = "authorizing"
  /\ UNCHANGED <<input, ready, world, time, edits>>

\* A swap of Test USDT asks for the authorization before it shows as busy.
ClickSwap(c) ==
  /\ input.asset = "test-usdt" => ready = "ready"
  /\ Starts(c, IF input.asset = "test-usdt" THEN "check" ELSE "quote")
  /\ phase' = IF input.asset = "test-usdt" THEN phase ELSE "swapping"
  /\ UNCHANGED <<input, ready, world, time, edits>>

ReadAllowance(c) ==
  /\ trade[c].step = "read"
  /\ Goes(c, IF token >= trade[c].input.amount THEN "permit"
             ELSE IF token > 0 THEN "reset" ELSE "approve")
  /\ phase' = IF token >= trade[c].input.amount THEN phase ELSE "authorizing"
  /\ UNCHANGED <<input, ready, world, time, edits>>

ResetAllowance(c) ==
  /\ trade[c].step = "reset"
  /\ token' = 0
  /\ Goes(c, "approve")
  /\ phase' = "authorizing"
  /\ UNCHANGED <<input, ready, permit, rate, time, edits>>

\* Test USDT is only approved for the amount entered.
ApproveToken(c) ==
  /\ trade[c].step = "approve"
  /\ token' = trade[c].input.amount
  /\ Goes(c, "permit")
  /\ UNCHANGED <<input, phase, ready, permit, rate, time, edits>>

ReadPermit(c) ==
  /\ trade[c].step = "permit"
  /\ IF permit.amount < trade[c].input.amount \/ permit.until <= time + Deadline
     THEN /\ trade' = [trade EXCEPT ![c].step = "sign", ![c].until = time + PermitLife]
          /\ phase' = "authorizing"
     ELSE Goes(c, "refresh") /\ UNCHANGED phase
  /\ UNCHANGED <<input, ready, world, time, edits>>

ApprovePermit(c) ==
  /\ trade[c].step = "sign"
  /\ permit' = [amount |-> trade[c].input.amount, until |-> trade[c].until]
  /\ Goes(c, "refresh")
  /\ UNCHANGED <<input, phase, ready, token, rate, time, edits>>

\* The query is repeated for the inputs of now, not those of the click; one that
\* fails leaves the last answer.
Refetched == ready' \in {ready, Ready(input.amount)}

Refreshed(c) ==
  /\ trade[c].step = "refresh"
  /\ Refetched
  /\ Goes(c, "none")
  /\ phase' = "idle"
  /\ UNCHANGED <<input, world, time, edits>>

CheckReady(c) ==
  /\ trade[c].step = "check"
  /\ Refetched
  /\ ready' = "ready"
  /\ Goes(c, "quote")
  /\ phase' = "swapping"
  /\ UNCHANGED <<input, world, time, edits>>

\* The transaction for a quote, with its minimum and deadline.
Plan(in, quote) ==
  [step |-> "execute", input |-> in, quote |-> quote,
   minimum |-> MinimumOut(quote, in.slippage), until |-> time + Deadline]

FreshQuote(c) ==
  /\ trade[c].step = "quote"
  /\ trade' = [trade EXCEPT ![c] = Plan(trade[c].input, Quote(trade[c].input))]
  /\ phase' = "swapping"
  /\ UNCHANGED <<input, ready, world, time, edits>>

\* Universal router, Permit2, token and pool: all or nothing.
Swap(c) ==
  LET amount == trade[c].input.amount
  IN  /\ time <= trade[c].until
      /\ Quote(trade[c].input) >= trade[c].minimum
      /\ IF trade[c].input.asset = "sepolia-eth" THEN UNCHANGED <<token, permit>>
         ELSE /\ token >= amount /\ permit.amount >= amount /\ time <= permit.until
              /\ token' = token - amount
              /\ permit' = [permit EXCEPT !.amount = @ - amount]
      /\ UNCHANGED rate

Execute(c) ==
  /\ trade[c].step = "execute"
  /\ Swap(c)
  /\ Goes(c, "report")
  /\ UNCHANGED <<input, phase, ready, time, edits>>

\* Both queries are repeated.
Report(c) ==
  /\ trade[c].step = "report"
  /\ IF trade[c].input.asset = "test-usdt" THEN Refetched ELSE UNCHANGED ready
  /\ Goes(c, "none")
  /\ phase' = "success"
  /\ UNCHANGED <<input, world, time, edits>>

\* Fault: an error of the first check is not caught.
FailsQuietly(c) == IF trade[c].step = "read" THEN phase ELSE "error"

PhaseAfterError(c) == "error"

\* A refusal, a failed call, a revert, or an authorization found missing.
Fails(c) ==
  /\ trade[c].step \in {"read", "reset", "approve", "permit", "sign", "check", "quote", "execute"}
  /\ Goes(c, "none")
  /\ phase' = PhaseAfterError(c)
  /\ UNCHANGED <<input, ready, world, time, edits>>

\* The wait for the receipt of a transaction fails, the transaction does not.
LoseReceipt(c) ==
  /\ \/ trade[c].step = "reset" /\ Goes(c, "resetLost")
     \/ trade[c].step = "approve" /\ Goes(c, "approveLost")
     \/ trade[c].step = "sign" /\ Goes(c, "signLost")
     \/ trade[c].step = "execute" /\ Goes(c, "executeLost")
  /\ phase' = "error"
  /\ UNCHANGED <<input, ready, world, time, edits>>

AuthorizeLost(c) ==
  /\ \/ trade[c].step = "resetLost" /\ token' = 0 /\ UNCHANGED permit
     \/ trade[c].step = "approveLost" /\ token' = trade[c].input.amount /\ UNCHANGED permit
     \/ /\ trade[c].step = "signLost"
        /\ permit' = [amount |-> trade[c].input.amount, until |-> trade[c].until]
        /\ UNCHANGED token
  /\ Goes(c, "none")
  /\ UNCHANGED <<input, phase, ready, rate, time, edits>>

ExecuteLost(c) ==
  /\ trade[c].step = "executeLost"
  /\ Swap(c)
  /\ Goes(c, "none")
  /\ UNCHANGED <<input, phase, ready, time, edits>>

-----------------------------------------------------------------------------
\* The query runs again for a new amount, on focus or when it is stale.
Refresh ==
  /\ ready # Ready(input.amount)
  /\ ready' = Ready(input.amount)
  /\ UNCHANGED <<input, phase, trade, world, time, edits>>

\* Each input's onChange.
Edit(in) ==
  /\ in # input
  /\ input' = in
  /\ ready' = IF in.amount = input.amount THEN ready ELSE "unknown"
  /\ phase' = "idle"
  /\ UNCHANGED <<trade, world>>

Move ==
  /\ edits < MaxMoves
  /\ edits' = edits + 1
  /\ \/ \E in \in Inputs : Edit(in)
     \/ /\ \/ /\ \E a \in Assets, r \in Rates : rate' = [rate EXCEPT ![a] = r]
              /\ UNCHANGED <<token, permit>>
           \/ token' \in Zero(Amounts) /\ UNCHANGED <<rate, permit>>
        /\ UNCHANGED <<input, phase, ready, trade>>
  /\ UNCHANGED time

Tick ==
  /\ time < MaxClock
  /\ time' = time + 1
  /\ UNCHANGED <<input, phase, ready, trade, world, edits>>

Next ==
  \/ \E c \in Calls :
       \/ ClickAuthorize(c) \/ ReadAllowance(c) \/ ResetAllowance(c) \/ ApproveToken(c)
       \/ ReadPermit(c) \/ ApprovePermit(c) \/ Refreshed(c)
       \/ ClickSwap(c) \/ CheckReady(c) \/ FreshQuote(c) \/ Execute(c) \/ Report(c)
       \/ Fails(c) \/ LoseReceipt(c) \/ AuthorizeLost(c) \/ ExecuteLost(c)
  \/ Refresh \/ Move \/ Tick

Spec == Init /\ [][Next]_vars

-----------------------------------------------------------------------------
\* A swap that is executed, its receipt lost or not, gives what its click accepted of
\* a quote read after the click, to the rounding: whatever the student edits, and
\* however authorizations, the pool and other calls change meanwhile.
SwapIsCovered ==
  \A c \in Calls : Execute(c) \/ ExecuteLost(c) =>
    10000 * (Quote(trade[c].input) + 1) > trade[c].quote * (10000 - trade[c].input.slippage)

SwapsAreCovered == [][SwapIsCovered]_vars

\* A page that shows a call in progress, with its buttons disabled, has one.
BusyHasTrade == Busy => \E c \in Calls : trade[c].step \notin {"none"} \union LostSteps
=============================================================================
