------------------------------ MODULE Accounts ------------------------------
(***************************************************************************)
(* Users, wallets and display names (auth.guard.ts, users.service.ts).     *)
(* Every call is authenticated first: the wallet it names must be linked   *)
(* to the subject at the identity provider, and its row is then found or   *)
(* created, statement by statement.  A display name needs a challenge that *)
(* a wallet has signed; calls are repeated, delayed and overlap.           *)
(***************************************************************************)
EXTENDS Integers, FiniteSets

CONSTANTS
  Users, Wallets, Names, Nonces, None,
  Requests,          \* calls in progress
  Life,              \* of a challenge, 10 minutes
  MaxTime, MaxLinks  \* bounds: time; wallets moved to another subject

\* Whoever instantiates this module assumes it of the constants.
AccountsAssumption ==
  /\ None \notin Users \union Wallets \union Names \union Nonces
  /\ Life \in Nat \ {0} /\ MaxTime \in Nat /\ MaxLinks \in Nat

VARIABLES
  linked,       \* subject of each wallet at the identity provider
  walletUser,   \* userId of each Wallet row
  primary,      \* wallets whose row is primary
  displayName,
  challenge,    \* ProfileChallenge row of each nonce
  signatures,   \* that wallets have made
  spent,        \* changes of a name with each nonce
  visit,        \* what each call is doing
  hour, links

tables == <<walletUser, primary, displayName, challenge, spent>>
vars == <<linked, tables, signatures, visit, hour, links>>

NoChallenge == [user |-> None, expiresAt |-> 0, used |-> FALSE]
NoVisit == [step |-> "none", user |-> None, wallet |-> None, exists |-> FALSE,
            first |-> FALSE, nonce |-> None, name |-> None]
Signatures ==
  [user : Users, wallet : Wallets, nonce : Nonces, name : Names, signer : Wallets]

TypeOK ==
  /\ linked \in [Wallets -> Users]
  /\ walletUser \in [Wallets -> Users \union {None}]
  /\ primary \subseteq Wallets
  /\ displayName \in [Users -> Names \union {None}]
  /\ challenge \in [Nonces -> [user : Users \union {None}, expiresAt : Nat, used : BOOLEAN]]
  /\ signatures \subseteq Signatures
  /\ spent \in [Nonces -> Nat]
  /\ \A r \in Requests :
       /\ visit[r].step \in {"none", "find", "count", "write", "in", "consume"}
       /\ visit[r].user \in Users \union {None} /\ visit[r].wallet \in Wallets \union {None}
  /\ hour \in 0..MaxTime /\ links \in 0..MaxLinks

Init ==
  /\ linked \in [Wallets -> Users]
  /\ walletUser = [w \in Wallets |-> None]
  /\ primary = {}
  /\ displayName = [u \in Users |-> None]
  /\ challenge = [n \in Nonces |-> NoChallenge]
  /\ signatures = {}
  /\ spent = [n \in Nonces |-> 0]
  /\ visit = [r \in Requests |-> NoVisit]
  /\ hour = 0 /\ links = 0

-----------------------------------------------------------------------------
(* The guard: verify, then getOrCreate.  The user's row is written first.  *)

Stays == UNCHANGED <<linked, tables, signatures, hour, links>>
Leave(r) == visit' = [visit EXCEPT ![r] = NoVisit]

Arrive(r, w) ==
  /\ visit[r].step = "none"
  /\ visit' = [visit EXCEPT ![r] =
       [NoVisit EXCEPT !.step = "find", !.user = linked[w], !.wallet = w]]
  /\ Stays

\* Fault: the owner of an existing wallet is not compared.
AnyOwner(r) == TRUE

OwnerIsUser(r) == walletUser[visit[r].wallet] \in {None, visit[r].user}

FindWallet(r) ==
  /\ visit[r].step = "find"
  /\ IF OwnerIsUser(r)
     THEN visit' = [visit EXCEPT ![r].step = "count",
                                 ![r].exists = walletUser[visit[r].wallet] # None]
     ELSE Leave(r)
  /\ Stays

CountPrimary(r) ==
  /\ visit[r].step = "count"
  /\ visit' = [visit EXCEPT ![r].step = "write",
       ![r].first = {w \in primary : walletUser[w] = visit[r].user} = {}]
  /\ Stays

\* The new row breaks no unique index: of the address, and of one primary
\* wallet per user.
Insertable(r) ==
  /\ walletUser[visit[r].wallet] = None
  /\ visit[r].first => {w \in primary : walletUser[w] = visit[r].user} = {}

WriteWallet(r) ==
  /\ visit[r].step = "write"
  /\ \/ /\ visit[r].exists
        /\ UNCHANGED <<walletUser, primary>>
     \/ /\ ~visit[r].exists /\ Insertable(r)
        /\ walletUser' = [walletUser EXCEPT ![visit[r].wallet] = visit[r].user]
        /\ primary' = IF visit[r].first THEN primary \union {visit[r].wallet} ELSE primary
  /\ visit' = [visit EXCEPT ![r].step = "in"]
  /\ UNCHANGED <<linked, displayName, challenge, spent, signatures, hour, links>>

\* Another call made the row first: this one is refused.
WriteFails(r) ==
  /\ visit[r].step = "write"
  /\ ~visit[r].exists /\ ~Insertable(r)
  /\ Leave(r)
  /\ Stays

-----------------------------------------------------------------------------
(* The profile.                                                            *)

\* The page has the wallet that is connected sign the typed data, or not.
Signed(r, n, name) ==
  \/ UNCHANGED signatures
  \/ \E w \in Wallets : signatures' = signatures \union
       {[user |-> visit[r].user, wallet |-> visit[r].wallet, nonce |-> n,
         name |-> name, signer |-> w]}

\* A challenge is created, and its typed data answered.
CreateChallenge(r, n, name) ==
  /\ visit[r].step = "in"
  /\ challenge[n] = NoChallenge
  /\ challenge' = [challenge EXCEPT ![n] =
       [user |-> visit[r].user, expiresAt |-> hour + Life, used |-> FALSE]]
  /\ Signed(r, n, name)
  /\ Leave(r)
  /\ UNCHANGED <<linked, walletUser, primary, displayName, spent, hour, links>>

Open(n, u) == challenge[n].user = u /\ ~challenge[n].used /\ challenge[n].expiresAt > hour

\* Fault: the name is not part of what is verified.
VerifiesAnyName(r, s, name) ==
  s.user = visit[r].user /\ s.wallet = visit[r].wallet /\ s.signer = visit[r].wallet

\* The typed data is made again, of the principal and the name submitted.
Verifies(r, s, name) ==
  /\ s.user = visit[r].user /\ s.wallet = visit[r].wallet /\ s.signer = visit[r].wallet
  /\ s.name = name

SubmitName(r, s, name) ==
  /\ visit[r].step = "in"
  /\ Open(s.nonce, visit[r].user)
  /\ Verifies(r, s, name)
  /\ visit' = [visit EXCEPT ![r].step = "consume", ![r].nonce = s.nonce, ![r].name = name]
  /\ Stays

\* The challenge is compared again as it is spent.
Consume(r) ==
  LET n == visit[r].nonce
  IN  /\ visit[r].step = "consume"
      /\ Open(n, visit[r].user)
      /\ challenge' = [challenge EXCEPT ![n].used = TRUE]
      /\ displayName' = [displayName EXCEPT ![visit[r].user] = visit[r].name]
      /\ spent' = [spent EXCEPT ![n] = @ + 1]
      /\ Leave(r)
      /\ UNCHANGED <<linked, walletUser, primary, signatures, hour, links>>

\* Another handler ran, the signature is wrong, or the challenge is gone.
Refuse(r) ==
  /\ visit[r].step \in {"in", "consume"}
  /\ Leave(r)
  /\ Stays

-----------------------------------------------------------------------------
\* A wallet is moved to another subject at the identity provider.
Relink(w, u) ==
  /\ links < MaxLinks
  /\ u # linked[w]
  /\ linked' = [linked EXCEPT ![w] = u]
  /\ links' = links + 1
  /\ UNCHANGED <<tables, signatures, visit, hour>>

Pass ==
  /\ hour < MaxTime
  /\ hour' = hour + 1
  /\ UNCHANGED <<linked, tables, signatures, visit, links>>

Visit(r) ==
  \/ \E w \in Wallets : Arrive(r, w)
  \/ FindWallet(r) \/ CountPrimary(r) \/ WriteWallet(r) \/ WriteFails(r)
  \/ \E n \in Nonces, name \in Names : CreateChallenge(r, n, name)
  \/ \E s \in signatures, name \in Names : SubmitName(r, s, name)
  \/ Consume(r) \/ Refuse(r)

Next ==
  \/ \E r \in Requests : Visit(r)
  \/ \E w \in Wallets, u \in Users : Relink(w, u)
  \/ Pass

Spec == Init /\ [][Next]_vars

-----------------------------------------------------------------------------
\* A display name was signed by a wallet of its user, for this name, and a challenge
\* gives one name at most, though it is read in one statement and spent in another.
NamesAreSigned ==
  /\ \A u \in Users : displayName[u] # None =>
       \E s \in signatures :
         /\ s.user = u /\ s.name = displayName[u]
         /\ s.signer = s.wallet /\ walletUser[s.wallet] = u
  /\ \A n \in Nonces : spent[n] <= 1

\* A call acts with a wallet of its user, and a user with wallets has one primary
\* wallet, however logins overlap and wallets move between subjects.
WalletsAreOwned ==
  /\ \A r \in Requests : visit[r].step \in {"in", "consume"} =>
       walletUser[visit[r].wallet] = visit[r].user
  /\ \A u \in Users : LET owned == {w \in Wallets : walletUser[w] = u}
       IN owned # {} => Cardinality(owned \intersect primary) = 1
=============================================================================
