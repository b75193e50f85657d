----------------------------- MODULE PollProofs ------------------------------
(***************************************************************************)
(* Polls are right for every number of addresses, tokens, polls and votes: *)
(* the running tallies are a recount of the votes, what voters deposited   *)
(* is covered, and the result of a poll is backed until the poll is over   *)
(* and stands from then on.                                                *)
(*                                                                         *)
(* The inductive invariant IInv adds one fact to the types and the two     *)
(* invariants: what the index finds for a poll is a vote of that poll      *)
(* (IndexFits).  Without it a withdrawal from one poll could be booked on  *)
(* a vote of another, whose token differs and whose weight still counts.   *)
(* Each of the four facts needs the others: the tallies are only written   *)
(* where the option exists, the deposit of a vote is only taken where the  *)
(* index fits.                                                             *)
(***************************************************************************)
EXTENDS Poll, SumTheorems, TLAPS

PollRecord == [token : Tokens, options : 2 .. MAX_OPTIONS, start : Nat, end : Nat]
VoteRecord == [poll : PollIds, voter : Addresses, option : Nat, weight : Nat \ {0},
               deposit : Nat \ {0}, lockedUntil : Nat, withdrawn : Nat]

\* What the index finds is a vote of that poll and that voter.
IndexFits ==
  \A k \in DOMAIN voteIndex : /\ votes[voteIndex[k]].poll = k[1]
                              /\ votes[voteIndex[k]].voter = k[2]

\* What is owed of token t for each vote, and what is owed in fees.
OwedOf(t) == [i \in VoteNumbers |-> IF PollAt(votes[i].poll).token = t
                                    THEN votes[i].deposit - votes[i].withdrawn ELSE 0]
FeesOwed(t) == IF t = HTR THEN creationFeeBalance ELSE 0

WeightOf(S) == [i \in S |-> votes[i].weight]

IInv == TypeOK /\ IndexFits /\ ResultsRecount /\ DepositsAreCovered

-----------------------------------------------------------------------------
(* Reading the lists. *)

\* The types, entry by entry.
LEMMA Entries ==
  ASSUME TypeOK
  PROVE  /\ Len(votes) \in Nat /\ Len(polls) \in Nat
         /\ VoteNumbers = 1 .. Len(votes) /\ IsFiniteSet(VoteNumbers)
         /\ PollIds = 0 .. Len(polls) - 1
         /\ \A i \in VoteNumbers : votes[i] \in VoteRecord
         /\ \A id \in PollIds : PollAt(id) \in PollRecord
<1>1. votes \in Seq(VoteRecord) /\ polls \in Seq(PollRecord)
  BY DEF TypeOK, VoteRecord, PollRecord
<1>2. Len(votes) \in Nat /\ Len(polls) \in Nat /\ VoteNumbers = 1 .. Len(votes)
  BY <1>1 DEF VoteNumbers
<1>3. IsFiniteSet(VoteNumbers) BY <1>2, FS_Interval
<1>4. \A i \in VoteNumbers : votes[i] \in VoteRecord BY <1>1, <1>2
<1>5. ASSUME NEW id \in PollIds PROVE PollAt(id) \in PollRecord
  <2>1. id + 1 \in 1 .. Len(polls) BY <1>2 DEF PollIds
  <2>2. QED BY <1>1, <2>1 DEF PollAt
<1>6. QED BY <1>2, <1>3, <1>4, <1>5 DEF PollIds

\* What the contract's balance is compared with.
LEMMA OwedForm ==
  ASSUME TypeOK, NEW t \in Tokens
  PROVE  /\ Owed(t) = SumFunctionOnSet(OwedOf(t), VoteNumbers) + FeesOwed(t)
         /\ OwedOf(t) \in [VoteNumbers -> Int]
         /\ FeesOwed(t) \in Nat
         /\ SumFunctionOnSet(OwedOf(t), VoteNumbers) \in Int
<1>1. Owed(t) = SumFunctionOnSet(OwedOf(t), VoteNumbers) + FeesOwed(t)
  BY DEF Owed, OwedOf, FeesOwed
<1>2. IsFiniteSet(VoteNumbers) /\ \A i \in VoteNumbers : votes[i] \in VoteRecord
  BY Entries
<1>3. OwedOf(t) \in [VoteNumbers -> Int]
  BY <1>2 DEF OwedOf, VoteRecord
<1>4. FeesOwed(t) \in Nat BY DEF FeesOwed, TypeOK
<1>5. SumFunctionOnSet(OwedOf(t), VoteNumbers) \in Int
  BY <1>2, <1>3, SumCongruence
<1>6. QED BY <1>1, <1>3, <1>4, <1>5

\* What a transaction moves of a token is a natural number.
LEMMA Sums ==
  ASSUME NEW acts \in Transactions, NEW t \in Tokens
  PROVE  SumActions(acts, t) \in Nat
BY PollAssumption DEF SumActions

-----------------------------------------------------------------------------
LEMMA InitInv == Init => IInv
<1> SUFFICES ASSUME Init PROVE IInv
  OBVIOUS
<1>1. /\ owner \in Addresses /\ creationFee \in Nat /\ creationFeeBalance = 0
      /\ polls = << >> /\ votes = << >> /\ now = 0 /\ foreign = FALSE
      /\ DOMAIN voteIndex = {} /\ DOMAIN results = {}
      /\ balance = [t \in Tokens |-> 0]
  BY PollAssumption DEF Init
<1>2. VoteNumbers = {} /\ PollIds = {}
  BY <1>1 DEF VoteNumbers, PollIds
<1>3. TypeOK
  <2>1. polls \in Seq(PollRecord) /\ votes \in Seq(VoteRecord) BY <1>1
  <2>2. balance \in [Tokens -> Int] BY <1>1
  <2>3. \A k \in DOMAIN results : results[k] \in [weight : Nat, votes : Nat] BY <1>1
  <2>4. /\ DOMAIN voteIndex \subseteq PollIds \X Addresses
        /\ \A k \in DOMAIN voteIndex : voteIndex[k] \in DOMAIN votes
    BY <1>1
  <2>5. QED BY <1>1, <2>1, <2>2, <2>3, <2>4 DEF TypeOK, PollRecord, VoteRecord
<1>4. IndexFits BY <1>1 DEF IndexFits
<1>5. ResultsRecount
  <2>1. {k \in PollIds \X (0 .. MAX_OPTIONS - 1) : k[2] < PollAt(k[1]).options} = {}
    BY <1>2
  <2>2. QED BY <1>1, <1>2, <2>1 DEF ResultsRecount
<1>6. DepositsAreCovered
  <2>1. ASSUME NEW t \in Tokens PROVE balance[t] >= Owed(t)
    <3>1. SumFunctionOnSet(OwedOf(t), VoteNumbers) = 0 BY <1>2, SumEmpty
    <3>2. FeesOwed(t) = 0 BY <1>1 DEF FeesOwed
    <3>3. Owed(t) = 0 BY <3>1, <3>2, <1>3, OwedForm
    <3>4. QED BY <1>1, <3>3
  <2>2. QED BY <1>2, <2>1 DEF DepositsAreCovered
<1>7. QED BY <1>3, <1>4, <1>5, <1>6 DEF IInv

\* Steps that leave everything the invariant is about.
LEMMA SameInv ==
  ASSUME IInv, now' \in Nat,
         UNCHANGED <<owner, creationFee, creationFeeBalance, polls, votes, voteIndex,
                     results, balance, foreign>>
  PROVE  IInv'
BY DEF IInv, TypeOK, IndexFits, ResultsRecount, DepositsAreCovered, Owed, VoteNumbers,
       VotesFor, Voted, PollAt, PollIds

-----------------------------------------------------------------------------
(* Creating a poll: the poll at every older id is unchanged, so are all votes, *)
(* and the tallies of the new options are those of no votes. *)
LEMMA CreatePollStep ==
  ASSUME IInv, NEW token \in Tokens, NEW options \in OptionCounts, NEW window \in Windows,
         NEW acts \in Transactions, CreatePoll(token, options, window, acts)
  PROVE  IInv'
<1> DEFINE new == [token |-> token, options |-> options,
                   start |-> window.start, end |-> window.end]
           fee == SumActions(acts, HTR)
<1>1. /\ options \in 2 .. MAX_OPTIONS
      /\ polls' = Append(polls, new)
      /\ creationFeeBalance' = creationFeeBalance + fee
      /\ results' = [k \in DOMAIN results \cup ({Len(polls)} \X (0 .. options - 1)) |->
                       IF k \in DOMAIN results THEN results[k]
                       ELSE [weight |-> 0, votes |-> 0]]
      /\ balance' = [t \in Tokens |-> balance[t] + SumActions(acts, t)]
      /\ UNCHANGED <<owner, creationFee, votes, voteIndex, now, foreign>>
  BY DEF CreatePoll, ValidPoll, Credit
<1>2. TypeOK /\ IndexFits /\ ResultsRecount /\ DepositsAreCovered BY DEF IInv
<1>3. /\ Len(votes) \in Nat /\ Len(polls) \in Nat
      /\ VoteNumbers = 1 .. Len(votes) /\ IsFiniteSet(VoteNumbers)
      /\ PollIds = 0 .. Len(polls) - 1
      /\ \A i \in VoteNumbers : votes[i] \in VoteRecord
      /\ \A id \in PollIds : PollAt(id) \in PollRecord
  BY <1>2, Entries
<1>4. new \in PollRecord BY <1>1, PollAssumption DEF PollRecord
<1>5. /\ PollIds' = PollIds \cup {Len(polls)} /\ Len(polls) \notin PollIds
      /\ polls'[Len(polls) + 1] = new
      /\ \A id \in PollIds : PollAt(id)' = PollAt(id)
      /\ polls' \in Seq(PollRecord)
  <2>1. polls \in Seq(PollRecord) BY <1>2 DEF TypeOK, PollRecord
  <2>2. /\ polls' \in Seq(PollRecord) /\ Len(polls') = Len(polls) + 1
        /\ polls'[Len(polls) + 1] = new
        /\ \A n \in 1 .. Len(polls) : polls'[n] = polls[n]
    BY <1>1, <1>4, <2>1
  <2>3. PollIds' = 0 .. Len(polls) BY <2>2, <1>3 DEF PollIds
  <2>4. PollIds' = PollIds \cup {Len(polls)} /\ Len(polls) \notin PollIds BY <1>3, <2>3
  <2>5. ASSUME NEW id \in PollIds PROVE PollAt(id)' = PollAt(id)
    <3>1. id + 1 \in 1 .. Len(polls) BY <1>3
    <3>2. QED BY <2>2, <3>1 DEF PollAt
  <2>6. QED BY <2>2, <2>4, <2>5 DEF PollAt
<1>6. VoteNumbers' = VoteNumbers /\ \A i \in VoteNumbers : votes[i].poll \in PollIds
  BY <1>1, <1>3 DEF VoteNumbers, VoteRecord
<1>7. fee \in Nat BY PollAssumption, Sums
<1>8. TypeOK'
  <2>1. ASSUME NEW i \in DOMAIN votes' PROVE votes'[i] \in VoteRecord'
    <3>1. votes[i] \in VoteRecord BY <1>1, <1>3 DEF VoteNumbers
    <3>2. QED BY <1>1, <1>5, <3>1 DEF VoteRecord
  <2>2. votes' \in Seq(VoteRecord')
    <3>1. votes' \in Seq(VoteRecord) BY <1>1, <1>2 DEF TypeOK, VoteRecord
    <3>2. QED BY <2>1, <3>1
  <2>3. balance' \in [Tokens -> Int]
    BY <1>1, <1>2, Sums DEF TypeOK
  <2>4. \A k \in DOMAIN results' : results'[k] \in [weight : Nat, votes : Nat]
    BY <1>1, <1>2 DEF TypeOK
  <2>5. /\ DOMAIN voteIndex' \subseteq PollIds' \X Addresses
        /\ \A k \in DOMAIN voteIndex' : voteIndex'[k] \in DOMAIN votes'
    BY <1>1, <1>2, <1>5 DEF TypeOK
  <2>6. creationFeeBalance' \in Nat BY <1>1, <1>2, <1>7 DEF TypeOK
  <2>7. owner' \in Addresses /\ creationFee' \in Nat /\ now' \in Nat /\ foreign' \in BOOLEAN
    BY <1>1, <1>2 DEF TypeOK
  <2>8. QED BY <1>5, <2>2, <2>3, <2>4, <2>5, <2>6, <2>7 DEF TypeOK, PollRecord, VoteRecord
<1>9. IndexFits' BY <1>1, <1>2 DEF IndexFits
<1>10. ResultsRecount'
  <2>1. ASSUME NEW i \in VoteNumbers'
        PROVE  /\ Voted(votes[i].poll, votes[i].voter)'
               /\ voteIndex'[<<votes[i].poll, votes[i].voter>>'] = i
               /\ votes'[i].option < PollAt(votes[i].poll)'.options
    <3>1. i \in VoteNumbers /\ PollAt(votes[i].poll)' = PollAt(votes[i].poll)
      BY <1>1, <1>5, <1>6
    <3>2. QED BY <1>1, <1>2, <3>1 DEF ResultsRecount, Voted
  <2>2. DOMAIN results'
          = {k \in PollIds' \X (0 .. MAX_OPTIONS - 1) : k[2] < PollAt(k[1])'.options}
    <3>1. DOMAIN results
            = {k \in PollIds \X (0 .. MAX_OPTIONS - 1) : k[2] < PollAt(k[1]).options}
      BY <1>2 DEF ResultsRecount
    <3>2. DOMAIN results' = DOMAIN results \cup ({Len(polls)} \X (0 .. options - 1))
      BY <1>1
    <3>3. {k \in PollIds' \X (0 .. MAX_OPTIONS - 1) : k[2] < PollAt(k[1])'.options}
            = {k \in PollIds \X (0 .. MAX_OPTIONS - 1) : k[2] < PollAt(k[1]).options}
              \cup {k \in {Len(polls)} \X (0 .. MAX_OPTIONS - 1) : k[2] < new.options}
      BY <1>5 DEF PollAt
    <3>4. {k \in {Len(polls)} \X (0 .. MAX_OPTIONS - 1) : k[2] < new.options}
            = {Len(polls)} \X (0 .. options - 1)
      BY <1>1 DEF MAX_OPTIONS
    <3>5. QED BY <3>1, <3>2, <3>3, <3>4
  <2>3. ASSUME NEW k \in DOMAIN results'
        PROVE  /\ results'[k].votes = Cardinality(VotesFor(k[1], k[2])')
               /\ results'[k].weight
                    = SumFunctionOnSet(WeightOf(VotesFor(k[1], k[2]))', VotesFor(k[1], k[2])')
    <3>1. VotesFor(k[1], k[2])' = VotesFor(k[1], k[2])
      BY <1>1, <1>6 DEF VotesFor
    <3>2. WeightOf(VotesFor(k[1], k[2]))' = WeightOf(VotesFor(k[1], k[2]))
      BY <1>1, <3>1 DEF WeightOf
    <3>3. CASE k \in DOMAIN results
      BY <1>1, <1>2, <3>1, <3>2, <3>3 DEF ResultsRecount, WeightOf
    <3>4. CASE k \notin DOMAIN results
      <4>1. k[1] = Len(polls) /\ results'[k].votes = 0 /\ results'[k].weight = 0
        BY <1>1, <3>4
      <4>2. VotesFor(k[1], k[2]) = {} BY <1>5, <1>6, <4>1 DEF VotesFor
      <4>3. QED BY <3>1, <4>1, <4>2, SumEmpty, FS_EmptySet
    <3>5. QED BY <3>3, <3>4
  <2>4. QED BY <1>1, <2>1, <2>2, <2>3 DEF ResultsRecount, WeightOf
<1>11. DepositsAreCovered'
  <2>1. ASSUME ~ foreign', NEW t \in Tokens PROVE balance'[t] >= Owed(t)'
    <3>1. OwedOf(t)' = OwedOf(t)
      <4>1. \A i \in VoteNumbers : PollAt(votes[i].poll)' = PollAt(votes[i].poll)
        BY <1>1, <1>5, <1>6 DEF PollAt
      <4>2. QED BY <1>1, <1>6, <4>1 DEF OwedOf
    <3>2. Owed(t) = SumFunctionOnSet(OwedOf(t), VoteNumbers) + FeesOwed(t)
          /\ FeesOwed(t) \in Nat /\ SumFunctionOnSet(OwedOf(t), VoteNumbers) \in Int
      BY <1>2, OwedForm
    <3>3. Owed(t)' = SumFunctionOnSet(OwedOf(t), VoteNumbers) + FeesOwed(t)'
      BY <1>6, <3>1 DEF Owed, OwedOf, FeesOwed
    <3>4. FeesOwed(t)' = FeesOwed(t) + (IF t = HTR THEN SumActions(acts, t) ELSE 0)
      BY <1>1, <1>2, <1>7 DEF FeesOwed, TypeOK
    <3>5. balance[t] >= Owed(t) /\ balance[t] \in Int
      BY <1>1, <1>2, <2>1 DEF DepositsAreCovered, TypeOK
    <3>6. balance'[t] = balance[t] + SumActions(acts, t) /\ SumActions(acts, t) \in Nat
      BY <1>1, Sums
    <3>7. QED BY <3>2, <3>3, <3>4, <3>5, <3>6
  <2>2. \A i \in VoteNumbers' : votes'[i].withdrawn <= votes'[i].deposit
    BY <1>1, <1>2, <1>6 DEF DepositsAreCovered
  <2>3. QED BY <2>1, <2>2 DEF DepositsAreCovered
<1>12. QED BY <1>8, <1>9, <1>10, <1>11 DEF IInv

-----------------------------------------------------------------------------
(* Casting a vote: the index and the list grow together, the tally of the  *)
(* option voted for grows by this vote, and what is owed by its deposit.   *)
LEMMA CastVoteStep ==
  ASSUME IInv, NEW voter \in Addresses, NEW id \in PollIds, NEW option \in Options,
         NEW acts \in Transactions, CastVote(voter, id, option, acts)
  PROVE  IInv'
<1> DEFINE poll == PollAt(id)
           amount == SumActions(acts, poll.token)
           vote == [poll |-> id, voter |-> voter, option |-> option,
                    weight |-> amount, deposit |-> amount,
                    lockedUntil |-> poll.end, withdrawn |-> 0]
           n == Len(votes) + 1
           key == <<id, voter>>
<1>1. /\ 0 <= option /\ option < poll.options /\ ~ Voted(id, voter) /\ amount > 0
      /\ votes' = Append(votes, vote)
      /\ voteIndex' = [k \in DOMAIN voteIndex \cup {key} |->
                         IF k = key THEN n ELSE voteIndex[k]]
      /\ results' = [results EXCEPT ![<<id, option>>] =
                       [weight |-> @.weight + amount, votes |-> @.votes + 1]]
      /\ balance' = [t \in Tokens |-> balance[t] + SumActions(acts, t)]
      /\ UNCHANGED <<owner, creationFee, creationFeeBalance, polls, now, foreign>>
  BY DEF CastVote, Count, Credit
<1>2. TypeOK /\ IndexFits /\ ResultsRecount /\ DepositsAreCovered BY DEF IInv
<1>3. /\ Len(votes) \in Nat /\ Len(polls) \in Nat
      /\ VoteNumbers = 1 .. Len(votes) /\ IsFiniteSet(VoteNumbers)
      /\ PollIds = 0 .. Len(polls) - 1
      /\ \A i \in VoteNumbers : votes[i] \in VoteRecord
      /\ \A p \in PollIds : PollAt(p) \in PollRecord
  BY <1>2, Entries
<1>4. poll \in PollRecord BY <1>3
<1>5. amount \in Nat /\ poll.token \in Tokens /\ option \in Nat
  BY <1>1, <1>4, Sums, PollAssumption DEF PollRecord
<1>6. vote \in VoteRecord
  BY <1>1, <1>4, <1>5 DEF VoteRecord, PollRecord
<1>7. /\ VoteNumbers' = VoteNumbers \cup {n} /\ n \notin VoteNumbers
      /\ votes'[n] = vote
      /\ \A i \in VoteNumbers : votes'[i] = votes[i]
      /\ votes' \in Seq(VoteRecord)
  <2>1. votes \in Seq(VoteRecord) BY <1>2 DEF TypeOK, VoteRecord
  <2>2. /\ votes' \in Seq(VoteRecord) /\ Len(votes') = n
        /\ votes'[n] = vote
        /\ \A i \in 1 .. Len(votes) : votes'[i] = votes[i]
    BY <1>1, <1>6, <2>1
  <2>3. VoteNumbers' = 1 .. n BY <2>2 DEF VoteNumbers
  <2>4. VoteNumbers' = VoteNumbers \cup {n} /\ n \notin VoteNumbers BY <1>3, <2>3
  <2>5. QED BY <1>3, <2>2, <2>4
<1>8. PollIds' = PollIds /\ \A p : polls'[p + 1] = polls[p + 1]
  BY <1>1 DEF PollIds
<1>9. key \notin DOMAIN voteIndex BY <1>1 DEF Voted
<1>10. TypeOK'
  <2>1. balance' \in [Tokens -> Int] BY <1>1, <1>2, Sums DEF TypeOK
  <2>2. \A k \in DOMAIN results' : results'[k] \in [weight : Nat, votes : Nat]
    <3>1. ASSUME NEW k \in DOMAIN results' PROVE results'[k] \in [weight : Nat, votes : Nat]
      <4>1. /\ k \in DOMAIN results /\ results[k] \in [weight : Nat, votes : Nat]
            /\ results'[k] = IF k = <<id, option>>
                             THEN [weight |-> results[k].weight + amount,
                                   votes |-> results[k].votes + 1]
                             ELSE results[k]
        BY <1>1, <1>2 DEF TypeOK
      <4>2. results[k].weight + amount \in Nat /\ results[k].votes + 1 \in Nat
        BY <1>5, <4>1
      <4>3. QED BY <4>1, <4>2
    <3>2. QED BY <3>1
  <2>3. /\ DOMAIN voteIndex' \subseteq PollIds \X Addresses
        /\ \A k \in DOMAIN voteIndex' : voteIndex'[k] \in VoteNumbers'
    <3>1. /\ DOMAIN voteIndex \subseteq PollIds \X Addresses
          /\ \A k \in DOMAIN voteIndex : voteIndex[k] \in VoteNumbers
      BY <1>2 DEF TypeOK, VoteNumbers
    <3>2. key \in PollIds \X Addresses OBVIOUS
    <3>3. /\ DOMAIN voteIndex' = DOMAIN voteIndex \cup {key}
          /\ \A k \in DOMAIN voteIndex' : voteIndex'[k] = n \/ voteIndex'[k] \in VoteNumbers
      BY <1>1, <3>1
    <3>4. QED BY <1>7, <3>1, <3>2, <3>3
  <2>4. QED BY <1>1, <1>2, <1>7, <1>8, <2>1, <2>2, <2>3
        DEF TypeOK, VoteRecord, VoteNumbers
<1>11. IndexFits'
  <2>1. ASSUME NEW k \in DOMAIN voteIndex'
        PROVE  votes'[voteIndex'[k]].poll = k[1] /\ votes'[voteIndex'[k]].voter = k[2]
    <3>1. CASE k = key BY <1>1, <1>7, <3>1
    <3>2. CASE k # key
      <4>1. k \in DOMAIN voteIndex /\ voteIndex'[k] = voteIndex[k] BY <1>1, <3>2
      <4>2. voteIndex[k] \in VoteNumbers BY <1>2, <4>1 DEF TypeOK, VoteNumbers
      <4>3. QED BY <1>2, <1>7, <4>1, <4>2 DEF IndexFits
    <3>3. QED BY <3>1, <3>2
  <2>2. QED BY <2>1 DEF IndexFits
<1>12. ResultsRecount'
  <2>1. ASSUME NEW i \in VoteNumbers'
        PROVE  /\ <<votes'[i].poll, votes'[i].voter>> \in DOMAIN voteIndex'
               /\ voteIndex'[<<votes'[i].poll, votes'[i].voter>>] = i
               /\ votes'[i].option < polls'[votes'[i].poll + 1].options
    <3>1. CASE i = n BY <1>1, <1>7, <1>8, <3>1 DEF PollAt
    <3>2. CASE i \in VoteNumbers
      <4>1. /\ votes'[i] = votes[i]
            /\ <<votes[i].poll, votes[i].voter>> \in DOMAIN voteIndex
            /\ voteIndex[<<votes[i].poll, votes[i].voter>>] = i
            /\ votes[i].option < polls[votes[i].poll + 1].options
        BY <1>2, <1>7, <3>2 DEF ResultsRecount, Voted, PollAt
      <4>2. QED BY <1>1, <1>8, <1>9, <4>1
    <3>3. QED BY <1>7, <3>1, <3>2
  <2>2. <<id, option>> \in DOMAIN results
    <3>1. option \in 0 .. MAX_OPTIONS - 1
      BY <1>1, <1>4, <1>5 DEF PollRecord, MAX_OPTIONS
    <3>2. QED BY <1>1, <1>2, <3>1 DEF ResultsRecount
  <2>3. DOMAIN results' = DOMAIN results BY <1>1
  <2>4. ASSUME NEW k \in DOMAIN results'
        PROVE  /\ results'[k].votes = Cardinality(VotesFor(k[1], k[2])')
               /\ results'[k].weight
                    = SumFunctionOnSet(WeightOf(VotesFor(k[1], k[2]))', VotesFor(k[1], k[2])')
    <3> DEFINE S == VotesFor(k[1], k[2])
               T == VotesFor(k[1], k[2])'
               f == WeightOf(S)
               g == WeightOf(S)'
    <3>1. /\ S \subseteq VoteNumbers /\ IsFiniteSet(S) /\ n \notin S
          /\ f \in [S -> Int] /\ Cardinality(S) \in Nat
      <4>1. S \subseteq VoteNumbers BY DEF VotesFor
      <4>2. IsFiniteSet(S) BY <1>3, <4>1, FS_Subset
      <4>3. f \in [S -> Int] BY <1>3, <4>1 DEF WeightOf, VoteRecord
      <4>4. QED BY <1>7, <4>1, <4>2, <4>3, FS_CardinalityType
    <3>2. /\ S = {i \in VoteNumbers : votes[i].poll = k[1] /\ votes[i].option = k[2]}
          /\ T = {i \in VoteNumbers' : votes'[i].poll = k[1] /\ votes'[i].option = k[2]}
          /\ f = [i \in S |-> votes[i].weight]
          /\ g = [i \in T |-> votes'[i].weight]
      BY DEF VotesFor, WeightOf
    <3>3. /\ k \in DOMAIN results
          /\ results[k].votes = Cardinality(S)
          /\ results[k].weight = SumFunctionOnSet(f, S)
      BY <1>2, <2>3 DEF ResultsRecount, WeightOf
    <3>4. results'[k].votes = Cardinality(T) /\ results'[k].weight = SumFunctionOnSet(g, T)
      <4> HIDE DEF f, g, S, T
      <4>1. CASE k = <<id, option>>
        <5>1. T = S \cup {n} BY <1>7, <3>2, <4>1
        <5>2. Cardinality(S \cup {n}) = Cardinality(S) + 1 BY <3>1, FS_AddElement
        <5>3. ASSUME NEW i \in S PROVE votes'[i] = votes[i] /\ votes[i].weight \in Int
          <6>1. i \in VoteNumbers BY <3>1
          <6>2. votes'[i] = votes[i] /\ votes[i] \in VoteRecord BY <1>3, <1>7, <6>1
          <6>3. QED BY <6>2 DEF VoteRecord
        <5>4. votes'[n].weight = amount BY <1>7
        <5>5. g \in [S \cup {n} -> Int] /\ g[n] = amount /\ \A i \in S : g[i] = f[i]
          BY <1>5, <3>2, <5>1, <5>3, <5>4
        <5>6. SumFunctionOnSet(g, S \cup {n}) = SumFunctionOnSet(f, S) + amount
          BY <3>1, <5>5, SumAdd
        <5>7. /\ results'[k].votes = results[k].votes + 1
              /\ results'[k].weight = results[k].weight + amount
          BY <1>1, <3>3, <4>1
        <5>8. QED BY <3>3, <5>1, <5>2, <5>6, <5>7
      <4>2. CASE k # <<id, option>>
        <5>1. k = <<k[1], k[2]>> BY <1>2, <3>3 DEF ResultsRecount
        <5>2. ~ (vote.poll = k[1] /\ vote.option = k[2]) BY <4>2, <5>1
        <5>3. T = S BY <1>7, <3>2, <5>2
        <5>4. g = f BY <1>7, <3>1, <3>2, <5>3
        <5>5. results'[k] = results[k] BY <1>1, <3>3, <4>2
        <5>6. QED BY <3>3, <5>3, <5>4, <5>5
      <4>3. QED BY <4>1, <4>2
    <3>5. QED BY <3>4 DEF WeightOf, VotesFor
  <2>5. DOMAIN results'
          = {k \in PollIds' \X (0 .. MAX_OPTIONS - 1) : k[2] < polls'[k[1] + 1].options}
    BY <1>2, <1>8, <2>3 DEF ResultsRecount, PollAt
  <2>6. QED BY <2>1, <2>4, <2>5 DEF ResultsRecount, WeightOf, Voted, PollAt
<1>13. DepositsAreCovered'
  <2>1. ASSUME ~ foreign', NEW t \in Tokens PROVE balance'[t] >= Owed(t)'
    <3> DEFINE f == OwedOf(t)
               g == OwedOf(t)'
               more == IF poll.token = t THEN amount ELSE 0
    <3>1. /\ Owed(t) = SumFunctionOnSet(f, VoteNumbers) + FeesOwed(t)
          /\ f \in [VoteNumbers -> Int]
          /\ FeesOwed(t) \in Nat /\ SumFunctionOnSet(f, VoteNumbers) \in Int
      BY <1>2, OwedForm
    <3>2. Owed(t)' = SumFunctionOnSet(g, VoteNumbers') + FeesOwed(t)'
      BY DEF Owed, OwedOf, FeesOwed
    <3>3. /\ g \in [VoteNumbers \cup {n} -> Int]
          /\ g[n] = more /\ \A i \in VoteNumbers : g[i] = f[i]
      <4>1. g = [i \in VoteNumbers' |-> IF polls'[votes'[i].poll + 1].token = t
                                       THEN votes'[i].deposit - votes'[i].withdrawn ELSE 0]
        BY DEF OwedOf, PollAt
      <4>2. f = [i \in VoteNumbers |-> IF polls[votes[i].poll + 1].token = t
                                      THEN votes[i].deposit - votes[i].withdrawn ELSE 0]
        BY DEF OwedOf, PollAt
      <4>3. more = IF polls[votes'[n].poll + 1].token = t
                   THEN votes'[n].deposit - votes'[n].withdrawn ELSE 0
        BY <1>5, <1>7 DEF PollAt
      <4>4. more \in Int BY <1>5
      <4> HIDE DEF f, g, more
      <4>5. QED BY <1>1, <1>7, <3>1, <4>1, <4>2, <4>3, <4>4
    <3>4. SumFunctionOnSet(g, VoteNumbers') = SumFunctionOnSet(f, VoteNumbers) + more
      <4> HIDE DEF f, g, more
      <4>1. SumFunctionOnSet(g, VoteNumbers \cup {n}) = SumFunctionOnSet(f, VoteNumbers) + g[n]
        <5>1. IsFiniteSet(VoteNumbers) /\ n \notin VoteNumbers BY <1>3, <1>7
        <5>2. /\ f \in [VoteNumbers -> Int] /\ g \in [VoteNumbers \cup {n} -> Int]
              /\ \A i \in VoteNumbers : g[i] = f[i]
          BY <3>1, <3>3
        <5> HIDE DEF n
        <5>3. QED BY <5>1, <5>2, SumAdd
      <4>2. QED BY <1>7, <3>3, <4>1
    <3>5. FeesOwed(t)' = FeesOwed(t) BY <1>1 DEF FeesOwed
    <3>6. balance[t] >= Owed(t) /\ balance[t] \in Int
      BY <1>1, <1>2, <2>1 DEF DepositsAreCovered, TypeOK
    <3>7. balance'[t] = balance[t] + SumActions(acts, t) /\ SumActions(acts, t) \in Nat
      BY <1>1, Sums
    <3>8. more \in Nat /\ more <= SumActions(acts, t) BY <1>5, <3>7
    <3>9. QED BY <3>1, <3>2, <3>4, <3>5, <3>6, <3>7, <3>8
  <2>2. \A i \in VoteNumbers' : votes'[i].withdrawn <= votes'[i].deposit
    BY <1>2, <1>5, <1>7 DEF DepositsAreCovered
  <2>3. QED BY <2>1, <2>2 DEF DepositsAreCovered
<1>14. QED BY <1>10, <1>11, <1>12, <1>13 DEF IInv

-----------------------------------------------------------------------------
(* Withdrawing: the vote found by the index belongs to the poll, so that   *)
(* what is owed of the poll's token shrinks by what leaves.                *)
LEMMA WithdrawVoteStep ==
  ASSUME IInv, NEW voter \in Addresses, NEW id \in PollIds, NEW acts \in Transactions,
         WithdrawVote(voter, id, acts)
  PROVE  IInv'
<1> DEFINE token == PollAt(id).token
           amount == SumActions(acts, token)
<1>0. PICK i : i = voteIndex[<<id, voter>>] OBVIOUS
<1>1. /\ Voted(id, voter) /\ 0 < amount /\ amount <= votes[i].deposit - votes[i].withdrawn
      /\ votes' = [votes EXCEPT ![i].withdrawn = @ + amount]
      /\ balance' = [t \in Tokens |-> balance[t] - SumActions(acts, t)]
      /\ foreign' = (foreign \/ ~ (DOMAIN acts \subseteq {token}))
      /\ UNCHANGED <<owner, creationFee, creationFeeBalance, polls, voteIndex, results, now>>
  BY <1>0 DEF WithdrawVote, Left, Debit, Examined
<1>2. TypeOK /\ IndexFits /\ ResultsRecount /\ DepositsAreCovered BY DEF IInv
<1>3. /\ IsFiniteSet(VoteNumbers)
      /\ \A j \in VoteNumbers : votes[j] \in VoteRecord
      /\ PollAt(id) \in PollRecord
      /\ Len(votes) \in Nat /\ VoteNumbers = 1 .. Len(votes)
  BY <1>2, Entries
<1>4. i \in VoteNumbers /\ votes[i].poll = id
  BY <1>0, <1>1, <1>2 DEF TypeOK, IndexFits, Voted, VoteNumbers
<1>5. amount \in Nat /\ token \in Tokens
  <2>1. token \in Tokens BY <1>3 DEF PollRecord
  <2>2. QED BY <2>1, Sums
<1>6. /\ votes[i] \in VoteRecord
      /\ votes[i].deposit \in Int /\ votes[i].withdrawn \in Int
  BY <1>3, <1>4 DEF VoteRecord
<1>7. /\ VoteNumbers' = VoteNumbers
      /\ \A j \in VoteNumbers \ {i} : votes'[j] = votes[j]
      /\ votes'[i] = [votes[i] EXCEPT !.withdrawn = @ + amount]
      /\ votes'[i] \in VoteRecord
      /\ \A j \in VoteNumbers : /\ votes'[j].poll = votes[j].poll
                                /\ votes'[j].voter = votes[j].voter
                                /\ votes'[j].option = votes[j].option
                                /\ votes'[j].weight = votes[j].weight
                                /\ votes'[j].deposit = votes[j].deposit
      /\ votes'[i].withdrawn = votes[i].withdrawn + amount
      /\ votes' \in Seq(VoteRecord)
  <2>1. votes \in Seq(VoteRecord) BY <1>2 DEF TypeOK, VoteRecord
  <2>2. /\ \A j \in VoteNumbers \ {i} : votes'[j] = votes[j]
        /\ votes'[i] = [votes[i] EXCEPT !.withdrawn = @ + amount]
    BY <1>1, <1>4, <2>1 DEF VoteNumbers
  <2>3. DOMAIN votes' = DOMAIN votes BY <1>1
  <2>4. votes'[i] \in VoteRecord BY <1>5, <1>6, <2>2 DEF VoteRecord
  <2>5. \A j \in VoteNumbers : /\ votes'[j].poll = votes[j].poll
                               /\ votes'[j].voter = votes[j].voter
                               /\ votes'[j].option = votes[j].option
                               /\ votes'[j].weight = votes[j].weight
                               /\ votes'[j].deposit = votes[j].deposit
    BY <1>3, <2>2 DEF VoteRecord
  <2>6. votes' \in Seq(VoteRecord)
    BY <1>1, <1>3, <1>4, <2>1, <2>2, <2>4 DEF VoteNumbers
  <2>7. votes'[i].withdrawn = votes[i].withdrawn + amount
    BY <1>6, <2>2 DEF VoteRecord
  <2>8. QED BY <2>2, <2>3, <2>4, <2>5, <2>6, <2>7 DEF VoteNumbers
<1>8. PollIds' = PollIds BY <1>1 DEF PollIds
<1>9. TypeOK'
  <2>1. balance' \in [Tokens -> Int] BY <1>1, <1>2, Sums DEF TypeOK
  <2>2. QED BY <1>1, <1>2, <1>7, <1>8, <2>1 DEF TypeOK, VoteRecord, VoteNumbers
<1>10. IndexFits' 
  BY <1>1, <1>2, <1>7 DEF IndexFits, TypeOK, VoteNumbers
<1>11. ResultsRecount'
  <2>1. ASSUME NEW p, NEW o
        PROVE  /\ VotesFor(p, o)' = VotesFor(p, o)
               /\ WeightOf(VotesFor(p, o))' = WeightOf(VotesFor(p, o))
    <3>1. VotesFor(p, o)' = VotesFor(p, o) BY <1>7 DEF VotesFor
    <3>2. VotesFor(p, o) \subseteq VoteNumbers BY DEF VotesFor
    <3>3. QED BY <1>7, <3>1, <3>2 DEF WeightOf
  <2>2. ASSUME NEW k \in DOMAIN results
        PROVE  /\ results[k].votes = Cardinality(VotesFor(k[1], k[2])')
               /\ results[k].weight
                    = SumFunctionOnSet(WeightOf(VotesFor(k[1], k[2]))', VotesFor(k[1], k[2])')
    BY <1>2, <2>1 DEF ResultsRecount, WeightOf
  <2>3. ASSUME NEW j \in VoteNumbers
        PROVE  /\ <<votes'[j].poll, votes'[j].voter>> \in DOMAIN voteIndex
               /\ voteIndex[<<votes'[j].poll, votes'[j].voter>>] = j
               /\ votes'[j].option < polls[votes'[j].poll + 1].options
    BY <1>2, <1>7 DEF ResultsRecount, Voted, PollAt
  <2>4. DOMAIN results
          = {k \in PollIds \X (0 .. MAX_OPTIONS - 1) : k[2] < polls[k[1] + 1].options}
    BY <1>2 DEF ResultsRecount, PollAt
  <2>5. QED BY <1>1, <1>7, <1>8, <2>2, <2>3, <2>4 DEF ResultsRecount, WeightOf, Voted, PollAt
<1>12. DepositsAreCovered'
  <2>1. ASSUME ~ foreign', NEW t \in Tokens PROVE balance'[t] >= Owed(t)'
    <3> DEFINE f == OwedOf(t)
               g == OwedOf(t)'
               less == IF token = t THEN amount ELSE 0
    <3>1. /\ Owed(t) = SumFunctionOnSet(f, VoteNumbers) + FeesOwed(t)
          /\ f \in [VoteNumbers -> Int]
          /\ FeesOwed(t) \in Nat /\ SumFunctionOnSet(f, VoteNumbers) \in Int
      BY <1>2, OwedForm
    <3>2. Owed(t)' = SumFunctionOnSet(g, VoteNumbers) + FeesOwed(t)
      BY <1>1, <1>7 DEF Owed, OwedOf, FeesOwed
    <3>3. /\ g \in [VoteNumbers -> Int]
          /\ g[i] = f[i] - less /\ \A j \in VoteNumbers \ {i} : g[j] = f[j]
      <4>1. g = [j \in VoteNumbers |-> IF polls[votes'[j].poll + 1].token = t
                                      THEN votes'[j].deposit - votes'[j].withdrawn ELSE 0]
        BY <1>1, <1>7 DEF OwedOf, PollAt
      <4>2. f = [j \in VoteNumbers |-> IF polls[votes[j].poll + 1].token = t
                                      THEN votes[j].deposit - votes[j].withdrawn ELSE 0]
        BY DEF OwedOf, PollAt
      <4>3. less = IF polls[votes[i].poll + 1].token = t THEN amount ELSE 0
        BY <1>4 DEF PollAt
      <4>4. less \in Int BY <1>5
      <4> HIDE DEF f, g, less, amount, token
      <4>5. g[i] = f[i] - less
        <5>1. CASE polls[votes[i].poll + 1].token = t
          <6>1. /\ f[i] = votes[i].deposit - votes[i].withdrawn /\ less = amount
                /\ g[i] = votes'[i].deposit - votes'[i].withdrawn
            BY <1>4, <1>7, <4>1, <4>2, <4>3, <5>1
          <6>2. /\ votes'[i].deposit = votes[i].deposit
                /\ votes'[i].withdrawn = votes[i].withdrawn + amount
            BY <1>4, <1>7
          <6>3. QED BY <1>5, <1>6, <6>1, <6>2, SMT
        <5>2. CASE polls[votes[i].poll + 1].token # t
          BY <1>4, <1>7, <4>1, <4>2, <4>3, <5>2
        <5>3. QED BY <5>1, <5>2
      <4>6. \A j \in VoteNumbers \ {i} : g[j] = f[j] BY <1>7, <4>1, <4>2
      <4>7. g \in [VoteNumbers -> Int]
        <5>1. \A j \in VoteNumbers : g[j] \in Int BY <1>4, <3>1, <4>4, <4>5, <4>6
        <5>2. QED BY <4>1, <5>1
      <4>8. QED BY <4>5, <4>6, <4>7
    <3>4. SumFunctionOnSet(g, VoteNumbers) = SumFunctionOnSet(f, VoteNumbers) - less
      <4>1. f \in [VoteNumbers -> Int] /\ f[i] \in Int /\ less \in Int
            /\ SumFunctionOnSet(f, VoteNumbers) \in Int
        BY <1>4, <1>5, <3>1
      <4> HIDE DEF f, g, less
      <4>2. SumFunctionOnSet(g, VoteNumbers) = SumFunctionOnSet(f, VoteNumbers) - f[i] + g[i]
        BY <1>3, <1>4, <3>3, <4>1, SumUpdate
      <4>3. QED BY <3>3, <4>1, <4>2
    <3>5. SumActions(acts, t) = less BY <1>1, <2>1 DEF SumActions
    <3>6. balance[t] >= Owed(t) /\ balance[t] \in Int
      BY <1>1, <1>2, <2>1 DEF DepositsAreCovered, TypeOK
    <3>7. balance'[t] = balance[t] - less /\ less \in Int
      BY <1>1, <1>5, <3>5
    <3> HIDE DEF less
    <3>8. QED BY <3>1, <3>2, <3>4, <3>6, <3>7
  <2>2. ASSUME NEW j \in VoteNumbers PROVE votes'[j].withdrawn <= votes'[j].deposit
    <3>1. CASE j = i
      <4>1. /\ votes'[i].deposit = votes[i].deposit
            /\ votes'[i].withdrawn = votes[i].withdrawn + amount
            /\ amount <= votes[i].deposit - votes[i].withdrawn
        BY <1>1, <1>4, <1>7
      <4> HIDE DEF amount
      <4>2. QED BY <1>5, <1>6, <3>1, <4>1, SMT
    <3>2. CASE j # i BY <1>2, <1>7, <3>2 DEF DepositsAreCovered
    <3>3. QED BY <3>1, <3>2
  <2>3. QED BY <1>7, <2>1, <2>2 DEF DepositsAreCovered
<1>13. QED BY <1>9, <1>10, <1>11, <1>12 DEF IInv

(* The owner takes creation fees, which are only owed in HTR.              *)
LEMMA WithdrawCreationFeesStep ==
  ASSUME IInv, NEW caller \in Addresses, NEW acts \in Transactions,
         WithdrawCreationFees(caller, acts)
  PROVE  IInv'
<1> DEFINE amount == SumActions(acts, HTR)
<1>1. /\ 0 < amount /\ amount <= creationFeeBalance
      /\ creationFeeBalance' = creationFeeBalance - amount
      /\ balance' = [t \in Tokens |-> balance[t] - SumActions(acts, t)]
      /\ foreign' = (foreign \/ ~ (DOMAIN acts \subseteq {HTR}))
      /\ UNCHANGED <<owner, creationFee, polls, votes, voteIndex, results, now>>
  BY DEF WithdrawCreationFees, Debit, Examined
<1>2. TypeOK /\ IndexFits /\ ResultsRecount /\ DepositsAreCovered BY DEF IInv
<1>3. amount \in Nat BY PollAssumption, Sums
<1>4. TypeOK'
  <2>1. balance' \in [Tokens -> Int] BY <1>1, <1>2, Sums DEF TypeOK
  <2>2. creationFeeBalance' \in Nat BY <1>1, <1>2, <1>3 DEF TypeOK
  <2>3. QED BY <1>1, <1>2, <2>1, <2>2 DEF TypeOK, PollIds
<1>5. IndexFits' BY <1>1, <1>2 DEF IndexFits
<1>6. ResultsRecount'
  BY <1>1, <1>2 DEF ResultsRecount, VoteNumbers, VotesFor, Voted, PollAt, PollIds
<1>7. DepositsAreCovered'
  <2>1. ASSUME ~ foreign', NEW t \in Tokens PROVE balance'[t] >= Owed(t)'
    <3>1. /\ Owed(t) = SumFunctionOnSet(OwedOf(t), VoteNumbers) + FeesOwed(t)
          /\ FeesOwed(t) \in Nat /\ SumFunctionOnSet(OwedOf(t), VoteNumbers) \in Int
      BY <1>2, OwedForm
    <3>2. Owed(t)' = SumFunctionOnSet(OwedOf(t), VoteNumbers) + FeesOwed(t)'
      BY <1>1 DEF Owed, OwedOf, FeesOwed, VoteNumbers, PollAt
    <3>3. SumActions(acts, t) = IF t = HTR THEN amount ELSE 0
      BY <1>1, <2>1 DEF SumActions
    <3>4. FeesOwed(t)' = FeesOwed(t) - SumActions(acts, t)
      BY <1>1, <1>2, <1>3, <3>3 DEF FeesOwed, TypeOK
    <3>5. balance[t] >= Owed(t) /\ balance[t] \in Int
      BY <1>1, <1>2, <2>1 DEF DepositsAreCovered, TypeOK
    <3>6. balance'[t] = balance[t] - SumActions(acts, t) /\ SumActions(acts, t) \in Nat
      BY <1>1, Sums
    <3>7. QED BY <3>1, <3>2, <3>4, <3>5, <3>6
  <2>2. \A j \in VoteNumbers' : votes'[j].withdrawn <= votes'[j].deposit
    BY <1>1, <1>2 DEF DepositsAreCovered, VoteNumbers
  <2>3. QED BY <2>1, <2>2 DEF DepositsAreCovered
<1>8. QED BY <1>4, <1>5, <1>6, <1>7 DEF IInv

-----------------------------------------------------------------------------
(* The invariant holds in every reachable state.                           *)
LEMMA Inductive == Spec => []IInv
<1>1. ASSUME IInv, [Next]_vars PROVE IInv'
  <2>1. CASE Tick
    <3>1. now' \in Nat BY <2>1, <1>1 DEF Tick, IInv, TypeOK
    <3>2. QED BY <1>1, <2>1, <3>1, SameInv DEF Tick
  <2>2. ASSUME NEW t \in Tokens, NEW n \in OptionCounts, NEW w \in Windows,
               NEW acts \in Transactions, CreatePoll(t, n, w, acts)
        PROVE  IInv'
    BY <1>1, <2>2, CreatePollStep
  <2>3. ASSUME NEW a \in Addresses, NEW id \in PollIds, NEW option \in Options,
               NEW acts \in Transactions, CastVote(a, id, option, acts)
        PROVE  IInv'
    BY <1>1, <2>3, CastVoteStep
  <2>4. ASSUME NEW a \in Addresses, NEW id \in PollIds, NEW acts \in Transactions,
               WithdrawVote(a, id, acts)
        PROVE  IInv'
    BY <1>1, <2>4, WithdrawVoteStep
  <2>5. ASSUME NEW a \in Addresses, NEW acts \in Transactions, WithdrawCreationFees(a, acts)
        PROVE  IInv'
    BY <1>1, <2>5, WithdrawCreationFeesStep
  <2>6. CASE UNCHANGED vars
    <3>1. now' \in Nat BY <1>1, <2>6 DEF IInv, TypeOK, vars
    <3>2. QED BY <1>1, <2>6, <3>1, SameInv DEF vars
  <2>7. QED BY <1>1, <2>1, <2>2, <2>3, <2>4, <2>5, <2>6 DEF Next
<1>2. QED BY <1>1, InitInv, PTL DEF Spec

(* Every reachable state is well typed; no fee balance is negative.        *)
THEOREM PollTypes == Spec => []TypeOK
<1>1. IInv => TypeOK BY DEF IInv
<1>2. QED BY <1>1, Inductive, PTL

(* For any number of voters and votes the running tallies of cast_vote are *)
(* what a recount of the votes gives, and nobody votes twice in a poll.    *)
THEOREM PollRecounts == Spec => []ResultsRecount
<1>1. IInv => ResultsRecount BY DEF IInv
<1>2. QED BY <1>1, Inductive, PTL

(* While withdrawals name one token, every deposit and fee is covered.     *)
THEOREM PollCovered == Spec => []DepositsAreCovered
<1>1. IInv => DepositsAreCovered BY DEF IInv
<1>2. QED BY <1>1, Inductive, PTL

(* The result of a poll that is over stands, and the weights that count    *)
(* are untouched until it is over, also at the last instant.               *)
THEOREM PollBacked == Spec => ResultIsBacked
<1> DEFINE Backed(id) ==
      /\ now > PollAt(id).end =>
           \A k \in DOMAIN results : k[1] = id => results'[k] = results[k]
      /\ now <= PollAt(id).end =>
           \A i \in VoteNumbers : votes[i].poll = id => votes'[i] = votes[i]
<1>1. ASSUME IInv, [Next]_vars, NEW id \in PollIds PROVE Backed(id)
  <2>1. TypeOK /\ IndexFits BY <1>1 DEF IInv
  <2>2. /\ VoteNumbers = 1 .. Len(votes) /\ Len(votes) \in Nat
        /\ \A p \in PollIds : PollAt(p).end \in Nat
    BY <2>1, Entries DEF PollRecord
  <2>3. now \in Nat BY <2>1 DEF TypeOK
  <2>4. CASE Tick \/ UNCHANGED vars BY <2>4 DEF Tick, vars
  <2>5. ASSUME NEW t \in Tokens, NEW n \in OptionCounts, NEW w \in Windows,
               NEW acts \in Transactions, CreatePoll(t, n, w, acts)
        PROVE  Backed(id)
    BY <2>5 DEF CreatePoll
  <2>6. ASSUME NEW a \in Addresses, NEW p \in PollIds, NEW option \in Options,
               NEW acts \in Transactions, CastVote(a, p, option, acts)
        PROVE  Backed(id)
    <3>1. now <= PollAt(p).end BY <2>6 DEF CastVote, Open
    <3>2. \A i \in VoteNumbers : votes'[i] = votes[i]
      BY <2>1, <2>2, <2>6 DEF CastVote, TypeOK
    <3>3. \A k \in DOMAIN results : k[1] # p => results'[k] = results[k]
      BY <2>6 DEF CastVote, Count
    <3>4. now > PollAt(id).end => id # p BY <2>2, <2>3, <3>1
    <3>5. QED BY <3>2, <3>3, <3>4
  <2>7. ASSUME NEW a \in Addresses, NEW p \in PollIds, NEW acts \in Transactions,
               WithdrawVote(a, p, acts)
        PROVE  Backed(id)
    <3>1. /\ now > PollAt(p).end /\ results' = results
          /\ <<p, a>> \in DOMAIN voteIndex
          /\ \A i \in VoteNumbers : i # voteIndex[<<p, a>>] => votes'[i] = votes[i]
      BY <2>7 DEF WithdrawVote, Voted, VoteNumbers
    <3>2. votes[voteIndex[<<p, a>>]].poll = p BY <2>1, <3>1 DEF IndexFits
    <3>3. now <= PollAt(id).end => id # p BY <2>2, <2>3, <3>1
    <3>4. QED BY <3>1, <3>2, <3>3
  <2>8. ASSUME NEW a \in Addresses, NEW acts \in Transactions, WithdrawCreationFees(a, acts)
        PROVE  Backed(id)
    BY <2>8 DEF WithdrawCreationFees
  <2>9. QED BY <1>1, <2>4, <2>5, <2>6, <2>7, <2>8 DEF Next
<1>2. IInv /\ [Next]_vars => [\A id \in PollIds : Backed(id)]_vars BY <1>1
<1>3. QED BY <1>2, Inductive, PTL DEF Spec, ResultIsBacked

=============================================================================
