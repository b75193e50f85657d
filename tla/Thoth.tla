-------------------------------- MODULE Thoth --------------------------------
(***************************************************************************)
(* The blueprint ThothNamer (blueprints/thoth-namer): a name service.  A   *)
(* name is registered for whole years against a fee, an NFT is minted for  *)
(* it and kept by the contract; its owner may withdraw the NFT and trade   *)
(* it, its manager may hand over the management.  An expired name can be   *)
(* renewed; after a grace period anybody can register it anew.             *)
(*                                                                         *)
(* One action is one call of a public method; a raise is a guard.          *)
(*                                                                         *)
(* External: create_deposit_token mints a fresh token into the contract    *)
(* and takes one unit of HTR from it; who holds an NFT outside may pass it *)
(* on at any time; deleting a missing dictionary entry does nothing (the   *)
(* tests of blueprints/oasis rely on it).                                  *)
(*                                                                         *)
(* Abstracted: years and days are parameters; a name is a model value of a *)
(* length class; texts, symbols and versions are left out.  What a manager *)
(* attaches to a name (profile data with its limits, the resolving         *)
(* address) and upgrade_contract are not modelled here.                    *)
(***************************************************************************)
EXTENDS Integers, Sequences, SequencesExt, FiniteSets

CONSTANTS
  Addresses,
  Names,           \* the names that validate_name accepts
  None,            \* '' as a primary name
  Contract,        \* the contract as the holder of an NFT
  LengthClass,     \* for each name: 3, 4 or 5, the key of its fee multiplier
  BaseFees,        \* base fees a dev may try
  Lengths,         \* keys of fee multipliers a dev may try
  Multipliers,     \* fee multipliers a dev may try
  Deposits,        \* HTR amounts a transaction may deposit
  Withdrawals,     \* HTR amounts a transaction may withdraw
  GracePeriods,    \* grace periods a dev may try, in days
  Limits,          \* max_managed_names values a dev may try
  SecondsPerYear, SecondsPerDay,
  GraceCap, ManagedCap,   \* MAX_GRACE_PERIOD_DAYS_CAP, MAX_MANAGED_NAMES_CAP
  MaxTokens,       \* bound: number of NFTs minted
  MaxTime,         \* bound: last block time
  MaxExpiration    \* bound: last expiration date

ASSUME ThothAssumption ==
  /\ None \notin Names /\ Contract \notin Addresses
  /\ LengthClass \in [Names -> {3, 4, 5}]
  /\ BaseFees \subseteq Int /\ Multipliers \subseteq Int
  /\ Deposits \subseteq Nat \ {0} /\ Withdrawals \subseteq Nat \ {0}
  /\ GracePeriods \subseteq Int /\ Limits \subseteq Int
  /\ SecondsPerYear \in Nat \ {0} /\ SecondsPerDay \in Nat \ {0}
  /\ GraceCap \in Nat /\ ManagedCap \in Nat
  /\ MaxTokens \in Nat /\ MaxTime \in Nat /\ MaxExpiration \in Nat

VARIABLES
  dev, baseFee, multiplier, gracePeriod, maxManaged,   \* configuration
  registered,       \* registered_names: name -> record
  managerNames,     \* manager -> its list of names, << >> when there is no entry
  primary,          \* manager -> its primary name, None when there is no entry
  totalFee,
  now,
  htr,              \* the platform's HTR balance of the contract
  nft               \* the holder of every NFT minted, in the order of minting

config == <<dev, baseFee, multiplier, gracePeriod, maxManaged>>
vars == <<config, registered, managerNames, primary, totalFee, now, htr, nft>>

-----------------------------------------------------------------------------
Registered == DOMAIN registered

GraceEnd(n) == registered[n].expiration + gracePeriod * SecondsPerDay

\* Mutant: the grace period is forgotten.
IsNameAvailableAtExpiration(n) == n \in Registered => now > registered[n].expiration

IsNameAvailable(n) == n \in Registered => now > GraceEnd(n)

\* The status told by get_name_expiration_info of a registered name.
ExpirationStatus(n) ==
  IF now < registered[n].expiration THEN "active"
  ELSE IF now < GraceEnd(n) THEN "grace_period" ELSE "available"

Fee(n) == baseFee * multiplier[LengthClass[n]]

\* _get_years_of_access: the deposit is a positive multiple of the fee.
PaysFor(amount, n) == amount >= Fee(n) /\ amount % Fee(n) = 0
Years(amount, n) == amount \div Fee(n)

\* _check_limit
WithinLimit(value, cap) == 0 < value /\ value <= cap

-----------------------------------------------------------------------------
(* The lists of managed names, with the primary names, as one value. *)
Lists == [names |-> managerNames, primary |-> primary]

\* _remove_name_from_manager: with the last name the primary goes as well.
Dropped(ls, m, n) ==
  LET rest == RemoveFirst(ls.names[m], n) IN
  IF ls.names[m] = << >> THEN ls
  ELSE [names |-> [ls.names EXCEPT ![m] = rest],
        primary |-> [ls.primary EXCEPT ![m] = IF rest = << >> \/ @ = n THEN None ELSE @]]

\* _add_name_to_manager, which raises when the list is full
HasRoom(ls, m, n) == n \in ToSet(ls.names[m]) \/ Len(ls.names[m]) < maxManaged
Added(ls, m, n) ==
  IF n \in ToSet(ls.names[m]) THEN ls ELSE [ls EXCEPT !.names[m] = Append(@, n)]

PrimaryIfOnly(ls, m, n) ==
  IF Len(ls.names[m]) = 1 THEN [ls EXCEPT !.primary[m] = n] ELSE ls

Keep(ls) == managerNames' = ls.names /\ primary' = ls.primary

-----------------------------------------------------------------------------
Init ==
  /\ dev \in Addresses
  /\ baseFee \in {fee \in BaseFees : fee > 0}
  /\ multiplier = [c \in {3, 4, 5} |-> CASE c = 3 -> 20 [] c = 4 -> 10 [] c = 5 -> 1]
  /\ gracePeriod \in {days \in GracePeriods : WithinLimit(days, GraceCap)}
  /\ maxManaged \in {limit \in Limits : WithinLimit(limit, ManagedCap)}
  /\ registered = [n \in {} |-> None]
  /\ managerNames = [a \in Addresses |-> << >>]
  /\ primary = [a \in Addresses |-> None]
  /\ totalFee = 0
  /\ now = 1
  /\ htr = 0
  /\ nft = << >>

Tick ==
  /\ now < MaxTime
  /\ now' = now + 1
  /\ UNCHANGED <<config, registered, managerNames, primary, totalFee, htr, nft>>

\* External: an NFT outside the contract changes hands.
TransferNft(token, to) ==
  /\ nft[token] # Contract
  /\ nft' = [nft EXCEPT ![token] = to]
  /\ UNCHANGED <<config, registered, managerNames, primary, totalFee, now, htr>>

SetRecord(n, record) ==
  registered' = [m \in Registered \cup {n} |-> IF m = n THEN record ELSE registered[m]]

\* Mutant: a name registered anew stays in its former manager's list.
CreateNameKeepOldList(caller, n, amount) ==
  LET expiration == now + Years(amount, n) * SecondsPerYear IN
  /\ IsNameAvailable(n)
  /\ PaysFor(amount, n)
  /\ HasRoom(Lists, caller, n)
  /\ Len(nft) < MaxTokens /\ expiration <= MaxExpiration
  /\ SetRecord(n, [token |-> Len(nft) + 1, owner |-> caller, deposited |-> TRUE,
                   manager |-> caller, expiration |-> expiration])
  /\ Keep(PrimaryIfOnly(Added(Lists, caller, n), caller, n))
  /\ totalFee' = totalFee + Fee(n) * Years(amount, n)
  /\ nft' = Append(nft, Contract)
  /\ htr' = htr + amount - 1
  /\ UNCHANGED <<config, now>>

\* A name past its grace period leaves its former manager's list first; the
\* NFT minted for it then is no longer that of the name.
CreateName(caller, n, amount) ==
  LET cleared == IF n \in Registered THEN Dropped(Lists, registered[n].manager, n) ELSE Lists
      expiration == now + Years(amount, n) * SecondsPerYear IN
  /\ IsNameAvailable(n)
  /\ PaysFor(amount, n)
  /\ HasRoom(cleared, caller, n)
  /\ Len(nft) < MaxTokens /\ expiration <= MaxExpiration
  /\ SetRecord(n, [token |-> Len(nft) + 1, owner |-> caller, deposited |-> TRUE,
                   manager |-> caller, expiration |-> expiration])
  /\ Keep(PrimaryIfOnly(Added(cleared, caller, n), caller, n))
  /\ totalFee' = totalFee + Fee(n) * Years(amount, n)
  /\ nft' = Append(nft, Contract)
  /\ htr' = htr + amount - 1
  /\ UNCHANGED <<config, now>>

Later(a, b) == IF a > b THEN a ELSE b

NewTerm(n) == Later(registered[n].expiration, now)

\* Anybody may renew, also long after the grace period.
RenewName(n, amount) ==
  LET expiration == NewTerm(n) + Years(amount, n) * SecondsPerYear IN
  /\ PaysFor(amount, n)
  /\ expiration <= MaxExpiration
  /\ SetRecord(n, [registered[n] EXCEPT !.expiration = expiration])
  /\ totalFee' = totalFee + Fee(n) * Years(amount, n)
  /\ htr' = htr + amount
  /\ UNCHANGED <<config, managerNames, primary, now, nft>>

-----------------------------------------------------------------------------
(* Owner and NFT *)

\* Mutant: the recorded owner may pass on a name whose NFT is elsewhere.
ChangeNameOwnerAnywhere(caller, n, new) ==
  /\ registered[n].owner = caller
  /\ SetRecord(n, [registered[n] EXCEPT !.owner = new])
  /\ UNCHANGED <<config, managerNames, primary, totalFee, now, htr, nft>>

ChangeNameOwner(caller, n, new) ==
  /\ registered[n].deposited
  /\ registered[n].owner = caller
  /\ SetRecord(n, [registered[n] EXCEPT !.owner = new])
  /\ UNCHANGED <<config, managerNames, primary, totalFee, now, htr, nft>>

\* Mutant: the record does not say that the NFT is back.
DepositNftUntoggled(caller, n) ==
  /\ nft[registered[n].token] = caller
  /\ ~ registered[n].deposited
  /\ SetRecord(n, [registered[n] EXCEPT !.owner = caller])
  /\ nft' = [nft EXCEPT ![registered[n].token] = Contract]
  /\ UNCHANGED <<config, managerNames, primary, totalFee, now, htr>>

\* Whoever brings the NFT is the owner; the platform sees to it that the
\* caller has it.
DepositNft(caller, n) ==
  /\ nft[registered[n].token] = caller
  /\ ~ registered[n].deposited
  /\ SetRecord(n, [registered[n] EXCEPT !.deposited = TRUE, !.owner = caller])
  /\ nft' = [nft EXCEPT ![registered[n].token] = Contract]
  /\ UNCHANGED <<config, managerNames, primary, totalFee, now, htr>>

WithdrawNft(caller, n) ==
  /\ registered[n].owner = caller
  /\ registered[n].deposited
  /\ SetRecord(n, [registered[n] EXCEPT !.deposited = FALSE])
  /\ nft' = [nft EXCEPT ![registered[n].token] = caller]
  /\ UNCHANGED <<config, managerNames, primary, totalFee, now, htr>>

-----------------------------------------------------------------------------
(* Manager *)

\* By the owner with the NFT in custody, or by the manager at any time.
ChangeManagerAddress(caller, n, new) ==
  LET cleared == Dropped(Lists, registered[n].manager, n) IN
  /\ \/ registered[n].owner = caller /\ registered[n].deposited
     \/ registered[n].manager = caller
  /\ HasRoom(cleared, new, n)
  /\ Keep(Added(cleared, new, n))
  /\ SetRecord(n, [registered[n] EXCEPT !.manager = new])
  /\ UNCHANGED <<config, totalFee, now, htr, nft>>

ChangeManagerPrimaryName(caller, n) ==
  /\ registered[n].manager = caller
  /\ primary' = [primary EXCEPT ![caller] = n]
  /\ UNCHANGED <<config, registered, managerNames, totalFee, now, htr, nft>>

-----------------------------------------------------------------------------
(* The dev *)

ChangeFee(caller, new) ==
  /\ caller = dev /\ new > 0
  /\ baseFee' = new
  /\ UNCHANGED <<dev, multiplier, gracePeriod, maxManaged>>
  /\ UNCHANGED <<registered, managerNames, primary, totalFee, now, htr, nft>>

ChangeFeeMultiplier(caller, length, new) ==
  /\ caller = dev /\ length \in DOMAIN multiplier /\ new > 0
  /\ multiplier' = [multiplier EXCEPT ![length] = new]
  /\ UNCHANGED <<dev, baseFee, gracePeriod, maxManaged>>
  /\ UNCHANGED <<registered, managerNames, primary, totalFee, now, htr, nft>>

ChangeGracePeriod(caller, new) ==
  /\ caller = dev /\ WithinLimit(new, GraceCap)
  /\ gracePeriod' = new
  /\ UNCHANGED <<dev, baseFee, multiplier, maxManaged>>
  /\ UNCHANGED <<registered, managerNames, primary, totalFee, now, htr, nft>>

ChangeMaxManagedNames(caller, new) ==
  /\ caller = dev /\ WithinLimit(new, ManagedCap) /\ new >= maxManaged
  /\ maxManaged' = new
  /\ UNCHANGED <<dev, baseFee, multiplier, gracePeriod>>
  /\ UNCHANGED <<registered, managerNames, primary, totalFee, now, htr, nft>>

ChangeDevAddress(caller, new) ==
  /\ caller = dev
  /\ dev' = new
  /\ UNCHANGED <<baseFee, multiplier, gracePeriod, maxManaged>>
  /\ UNCHANGED <<registered, managerNames, primary, totalFee, now, htr, nft>>

WithdrawFees(caller, amount) ==
  /\ caller = dev
  /\ amount <= htr
  /\ htr' = htr - amount
  /\ UNCHANGED <<config, registered, managerNames, primary, totalFee, now, nft>>

Next ==
  \/ Tick
  \/ \E token \in DOMAIN nft, a \in Addresses : TransferNft(token, a)
  \/ \E a \in Addresses, n \in Names, amount \in Deposits : CreateName(a, n, amount)
  \/ \E n \in Registered, amount \in Deposits : RenewName(n, amount)
  \/ \E a, b \in Addresses, n \in Registered : ChangeNameOwner(a, n, b)
  \/ \E a \in Addresses, n \in Registered : DepositNft(a, n)
  \/ \E a \in Addresses, n \in Registered : WithdrawNft(a, n)
  \/ \E a, b \in Addresses, n \in Registered : ChangeManagerAddress(a, n, b)
  \/ \E a \in Addresses, n \in Registered : ChangeManagerPrimaryName(a, n)
  \/ \E a \in Addresses, fee \in BaseFees : ChangeFee(a, fee)
  \/ \E a \in Addresses, c \in Lengths, m \in Multipliers : ChangeFeeMultiplier(a, c, m)
  \/ \E a \in Addresses, days \in GracePeriods : ChangeGracePeriod(a, days)
  \/ \E a \in Addresses, limit \in Limits : ChangeMaxManagedNames(a, limit)
  \/ \E a, b \in Addresses : ChangeDevAddress(a, b)
  \/ \E a \in Addresses, amount \in Withdrawals : WithdrawFees(a, amount)

Spec == Init /\ [][Next]_vars

-----------------------------------------------------------------------------
TypeOK ==
  /\ dev \in Addresses /\ baseFee \in Nat \ {0}
  /\ multiplier \in [{3, 4, 5} -> Nat \ {0}]
  /\ gracePeriod \in 1 .. GraceCap /\ maxManaged \in 1 .. ManagedCap
  /\ Registered \subseteq Names
  /\ registered \in [Registered ->
       [token : DOMAIN nft, owner : Addresses, deposited : BOOLEAN,
        manager : Addresses, expiration : Nat]]
  /\ managerNames \in [Addresses -> Seq(Names)]
  /\ primary \in [Addresses -> Names \cup {None}]
  /\ totalFee \in Nat /\ now \in Nat /\ htr \in Int
  /\ nft \in Seq(Addresses \cup {Contract})

(* The lists by manager and the records by name say the same, in spite of   *)
(* hand-overs, of names registered anew by another address and of transfers *)
(* to oneself: every list holds exactly the names its manager manages, each *)
(* once and within the limit, and the primary name is one of them.          *)
ListsMatchRecords ==
  \A a \in Addresses :
    /\ ToSet(managerNames[a]) = {n \in Registered : registered[n].manager = a}
    /\ IsInjective(managerNames[a])
    /\ Len(managerNames[a]) <= maxManaged
    /\ primary[a] # None => primary[a] \in ToSet(managerNames[a])

(* What the records say of the NFTs is where the NFTs are, one live NFT per *)
(* name, though they are traded outside and replaced when a name is         *)
(* registered anew; and the fees are there: the balance never falls below   *)
(* zero and never exceeds the fees earned less the cost of the mints.       *)
CustodyMatchesRecords ==
  /\ \A n \in Registered : registered[n].deposited <=> nft[registered[n].token] = Contract
  /\ \A m, n \in Registered : registered[m].token = registered[n].token => m = n
  /\ htr \in 0 .. (totalFee - Len(nft))

(* A paid term is kept: until a name is past its expiration and its grace   *)
(* period nobody else can register it, and renewing it never shortens it,   *)
(* whatever the dev does to fees and limits (create_name, renew_name).      *)
PaidTermIsKept ==
  [][\A n \in Registered :
       \/ registered'[n].token = registered[n].token
          /\ registered'[n].expiration >= registered[n].expiration
       \/ now > GraceEnd(n)]_vars

(* A name changes owner only by its NFT: within the contract by a change of *)
(* owner while the NFT is in custody, or by the deposit of whoever holds it *)
(* (change_name_owner, deposit_nft, withdraw_nft).                          *)
OwnerFollowsNft ==
  [][\A n \in Registered :
       registered'[n].token = registered[n].token /\ registered'[n].owner # registered[n].owner =>
         /\ registered'[n].deposited
         /\ nft[registered[n].token] \in {Contract, registered'[n].owner}]_vars

(* The two views agree: a name shown as available can be registered, as the *)
(* comment of is_name_available defines it, expired and past the grace      *)
(* period (get_name_expiration_info, is_name_available).                    *)
ShownAvailableIsAvailable ==
  \A n \in Registered : ExpirationStatus(n) = "available" => IsNameAvailable(n)

=============================================================================
