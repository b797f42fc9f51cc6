---------------------------- MODULE StudentPages ----------------------------
(***************************************************************************)
(* What a student does, part by part: the course that is completed         *)
(* (LearningSessions), its checkout, the player, the progress the player   *)
(* reports, the swap page and the account.  The parts share no state and   *)
(* page selects the one that moves: the variables of the instances of      *)
(* another part are None.                                                  *)
(***************************************************************************)
EXTENDS LearningSessions, Checkout

VARIABLE page

CONSTANTS
  lessons, keys, users, names, nonces,
  PlayerDuration, Jump, Chunk, Least, Limit, MaxUpdate,    \* of the player
  ProgressDuration, ProgressAttempts,                      \* of its reports
  SwapAmounts, Slippages, Rates, Deadline, PermitLife,     \* of the swap page
  SwapClock, SwapMoves,
  Life, MaxTime, MaxLinks                                  \* of the account

\* The learning page.
VARIABLES lesson, position, playing, lastSent, lastObserved, report, played, skipped
Player == INSTANCE VideoPlayer WITH
  Videos <- lessons, Duration <- PlayerDuration

\* What it reports to.
VARIABLES issuable, event, lessonRanges, lessonBuyer, courseBuyer, recording
Progress == INSTANCE ProgressRecords WITH
  Videos <- lessons, Duration <- ProgressDuration, Keys <- keys,
  MaxAttempts <- ProgressAttempts,
  segments <- lessonRanges, lessonWallet <- lessonBuyer, courseWallet <- courseBuyer,
  request <- recording

VARIABLES input, phase, ready, trade, token, permit, rate, time, edits
Swaps == INSTANCE SwapPage WITH
  Amounts <- SwapAmounts, MaxClock <- SwapClock, MaxMoves <- SwapMoves

VARIABLES linked, walletUser, primary, displayName, challenge, signatures, spent, visit, hour, links
Account == INSTANCE Accounts WITH
  Users <- users, Names <- names, Nonces <- nonces

ASSUME PartsAssumption ==
  /\ Player!PlayerAssumption
  /\ Progress!ProgressAssumption
  /\ Swaps!SwapAssumption
  /\ Account!AccountsAssumption

playerVars == <<lesson, position, playing, lastSent, lastObserved, report, played, skipped>>
progressVars == <<issuable, event, lessonRanges, lessonBuyer, courseBuyer, recording>>
swapVars == <<input, phase, ready, trade, token, permit, rate, time, edits>>
accountVars ==
  <<linked, walletUser, primary, displayName, challenge, signatures, spent, visit, hour, links>>
partVars == <<playerVars, progressVars, swapVars, accountVars>>
studentVars == <<page, vars, checkoutVars, partVars>>

NoPlayer ==
  /\ lesson = None /\ position = None /\ playing = None /\ lastSent = None
  /\ lastObserved = None /\ report = None /\ played = None /\ skipped = None
NoProgress ==
  /\ issuable = None /\ event = None /\ lessonRanges = None /\ lessonBuyer = None
  /\ courseBuyer = None /\ recording = None
NoSwaps ==
  /\ input = None /\ phase = None /\ ready = None /\ trade = None /\ token = None
  /\ permit = None /\ rate = None /\ time = None /\ edits = None
NoVisits ==
  /\ linked = None /\ walletUser = None /\ primary = None /\ displayName = None
  /\ challenge = None /\ signatures = None /\ spent = None /\ visit = None
  /\ hour = None /\ links = None

StudentInit ==
  /\ page \in {"course", "checkout", "player", "progress", "swap", "account"}
  /\ Init
  /\ CheckoutInit
  /\ IF page = "player" THEN Player!Init ELSE NoPlayer
  /\ IF page = "progress" THEN Progress!Init ELSE NoProgress
  /\ IF page = "swap" THEN Swaps!Init ELSE NoSwaps
  /\ IF page = "account" THEN Account!Init ELSE NoVisits

StudentNext ==
  \/ page = "course" /\ Next /\ UNCHANGED <<page, checkoutVars, partVars>>
  \/ page = "checkout" /\ CheckoutNext /\ UNCHANGED <<page, vars, partVars>>
  \/ /\ page = "player" /\ Player!Next
     /\ UNCHANGED <<page, vars, checkoutVars, progressVars, swapVars, accountVars>>
  \/ /\ page = "progress" /\ Progress!Next
     /\ UNCHANGED <<page, vars, checkoutVars, playerVars, swapVars, accountVars>>
  \/ /\ page = "swap" /\ Swaps!Next
     /\ UNCHANGED <<page, vars, checkoutVars, playerVars, progressVars, accountVars>>
  \/ /\ page = "account" /\ Account!Next
     /\ UNCHANGED <<page, vars, checkoutVars, playerVars, progressVars, swapVars>>

StudentSpec == StudentInit /\ [][StudentNext]_studentVars

-----------------------------------------------------------------------------
(* The properties of the parts, while their part moves.                    *)

\* Each part is well typed.
PartsTypeOK ==
  /\ page = "player" => Player!TypeOK
  /\ page = "progress" => Progress!TypeOK
  /\ page = "swap" => Swaps!TypeOK
  /\ page = "account" => Account!TypeOK

\* A report of unplayed points has one of the two causes that the player names.
OverreportHasCause == page = "player" => Player!OverreportHasCause

\* The ranges of a lesson are those of its events, merged.
SegmentsAreEvents == page = "progress" => Progress!SegmentsAreEvents

\* What the page shows as complete is so in the tables.
CompletedWhenCovered == page = "progress" => Progress!CompletedWhenCovered

\* An executed swap gives what its click accepted of the fresh quote.
SwapsAreCovered == [][page = "swap" => Swaps!SwapIsCovered]_swapVars

\* A swap page that shows a call in progress has one.
BusyHasTrade == page = "swap" => Swaps!BusyHasTrade

\* A display name was signed for, and a challenge gives one name.
NamesAreSigned == page = "account" => Account!NamesAreSigned

\* A call acts with a wallet of its user, who has one primary wallet.
WalletsAreOwned == page = "account" => Account!WalletsAreOwned
=============================================================================
