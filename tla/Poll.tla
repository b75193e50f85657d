-------------------------------- MODULE Poll ---------------------------------
(***************************************************************************)
(* The blueprint Polls (blueprints/poll): token-weighted votes.  Anybody   *)
(* creates a poll on a token for an exact fee in HTR; between its start    *)
(* and its end each address votes once, by depositing that token, and the  *)
(* deposit is the weight; after the end each voter takes the deposit back, *)
(* in parts if they like; the owner takes the creation fees.               *)
(*                                                                         *)
(* One action is one call of a public method; a raise is a guard.          *)
(*                                                                         *)
(* External: the platform adds the deposits of a call to the contract's    *)
(* balances, of every token the transaction names, and subtracts its       *)
(* withdrawals; a method that allows deposits only gets no withdrawals and *)
(* the reverse, so _sum_actions never sees a wrong action type.            *)
(*                                                                         *)
(* Abstracted: several actions on one token are their total (_sum_actions  *)
(* adds them up); titles, texts, the creator (only shown) and the          *)
(* weighting, which has one legal value, are left out; the parallel vote   *)
(* lists are one list of records, which the code appends to together.      *)
(***************************************************************************)
EXTENDS Integers, Sequences, FiniteSets, Functions

CONSTANTS
  Addresses,
  Tokens,
  HTR,
  Fees,         \* creation_fee_htr values
  OptionCounts, \* numbers of options a creator may try
  Windows,      \* [start, end] pairs a creator may try
  Options,      \* option indices a voter may try
  Transactions, \* token amounts a transaction may deposit or withdraw
  MaxPolls,     \* bound: number of polls created
  MaxVotes,     \* bound: number of votes cast
  MaxTime       \* bound: last block time

ASSUME PollAssumption ==
  /\ IsFiniteSet(Addresses) /\ IsFiniteSet(Tokens) /\ HTR \in Tokens
  /\ Fees \subseteq Int /\ OptionCounts \subseteq Nat /\ Options \subseteq Int
  /\ Windows \subseteq [start : Nat, end : Nat]
  /\ \A acts \in Transactions :
       DOMAIN acts \subseteq Tokens /\ \A t \in DOMAIN acts : acts[t] \in Nat \ {0}
  /\ MaxPolls \in Nat /\ MaxVotes \in Nat /\ MaxTime \in Nat

VARIABLES
  owner, creationFee, creationFeeBalance,
  polls,          \* poll_token, poll_start, poll_end, poll_option_count by id
  votes,          \* vote_poll_ids, vote_voters, ..., as one list
  voteIndex,      \* vote_index_by_key
  results,        \* poll_result_weight and poll_result_votes by poll and option
  now,
  balance,        \* the platform's token balances
  foreign         \* history: a withdrawal named a token its method ignores

vars == <<owner, creationFee, creationFeeBalance, polls, votes, voteIndex, results,
          now, balance, foreign>>

-----------------------------------------------------------------------------
MAX_OPTIONS == 8

PollIds == 0 .. (Len(polls) - 1)
PollAt(id) == polls[id + 1]   \* poll ids count from 0, sequences from 1

\* _sum_actions
SumActions(acts, token) == IF token \in DOMAIN acts THEN acts[token] ELSE 0

Credit(acts) == balance' = [t \in Tokens |-> balance[t] + SumActions(acts, t)]
Debit(acts) == balance' = [t \in Tokens |-> balance[t] - SumActions(acts, t)]

\* History: a withdrawal reaches beyond the one token the method looks at.
Examined(acts, token) == foreign' = (foreign \/ ~ (DOMAIN acts \subseteq {token}))

-----------------------------------------------------------------------------
Init ==
  /\ owner \in Addresses
  /\ creationFee \in {fee \in Fees : fee >= 0}
  /\ creationFeeBalance = 0
  /\ polls = << >>
  /\ votes = << >>
  /\ voteIndex = [k \in {} |-> 0]
  /\ results = [k \in {} |-> 0]
  /\ now = 0
  /\ balance = [t \in Tokens |-> 0]
  /\ foreign = FALSE

Tick ==
  /\ now < MaxTime
  /\ now' = now + 1
  /\ UNCHANGED <<owner, creationFee, creationFeeBalance, polls, votes, voteIndex, results,
                 balance, foreign>>

\* _validate_poll
ValidPoll(options, window) ==
  /\ options \in 2 .. MAX_OPTIONS
  /\ window.end > window.start

\* The window may lie in the past or the future.
CreatePoll(token, options, window, acts) ==
  /\ Len(polls) < MaxPolls
  /\ ValidPoll(options, window)
  /\ SumActions(acts, HTR) = creationFee
  /\ polls' = Append(polls, [token |-> token, options |-> options,
                             start |-> window.start, end |-> window.end])
  /\ creationFeeBalance' = creationFeeBalance + SumActions(acts, HTR)
  /\ results' = [k \in DOMAIN results \cup ({Len(polls)} \X (0 .. options - 1)) |->
                   IF k \in DOMAIN results THEN results[k] ELSE [weight |-> 0, votes |-> 0]]
  /\ Credit(acts)
  /\ UNCHANGED <<owner, creationFee, votes, voteIndex, now, foreign>>

Voted(id, voter) == <<id, voter>> \in DOMAIN voteIndex

\* Mutant: votes stay possible an instant longer.
OpenAfterEnd(poll) == poll.start <= now /\ now <= poll.end + 1

Open(poll) == poll.start <= now /\ now <= poll.end

\* Mutant: only the first vote for an option counts its weight.
CountOnce(id, option, weight) ==
  results' = [results EXCEPT ![<<id, option>>] =
                [weight |-> IF @.votes = 0 THEN weight ELSE @.weight, votes |-> @.votes + 1]]

Count(id, option, weight) ==
  results' = [results EXCEPT ![<<id, option>>] =
                [weight |-> @.weight + weight, votes |-> @.votes + 1]]

CastVote(voter, id, option, acts) ==
  LET poll == PollAt(id)
      amount == SumActions(acts, poll.token) IN
  /\ Len(votes) < MaxVotes
  /\ Open(poll)
  /\ 0 <= option /\ option < poll.options
  /\ ~ Voted(id, voter)
  /\ amount > 0
  /\ votes' = Append(votes, [poll |-> id, voter |-> voter, option |-> option,
                             weight |-> amount, deposit |-> amount,
                             lockedUntil |-> poll.end, withdrawn |-> 0])
  /\ voteIndex' = [k \in DOMAIN voteIndex \cup {<<id, voter>>} |->
                     IF k = <<id, voter>> THEN Len(votes) + 1 ELSE voteIndex[k]]
  /\ Count(id, option, amount)
  /\ Credit(acts)
  /\ UNCHANGED <<owner, creationFee, creationFeeBalance, polls, now, foreign>>

\* Mutant: what was taken before is not counted.
LeftAlways(vote) == vote.deposit

Left(vote) == vote.deposit - vote.withdrawn

WithdrawVote(voter, id, acts) ==
  LET amount == SumActions(acts, PollAt(id).token)
      i == voteIndex[<<id, voter>>] IN
  /\ now > PollAt(id).end
  /\ Voted(id, voter)
  /\ now > votes[i].lockedUntil
  /\ 0 < amount /\ amount <= Left(votes[i])
  /\ votes' = [votes EXCEPT ![i].withdrawn = @ + amount]
  /\ Debit(acts)
  /\ Examined(acts, PollAt(id).token)
  /\ UNCHANGED <<owner, creationFee, creationFeeBalance, polls, voteIndex, results, now>>

WithdrawCreationFees(caller, acts) ==
  LET amount == SumActions(acts, HTR) IN
  /\ caller = owner
  /\ 0 < amount /\ amount <= creationFeeBalance
  /\ creationFeeBalance' = creationFeeBalance - amount
  /\ Debit(acts)
  /\ Examined(acts, HTR)
  /\ UNCHANGED <<owner, creationFee, polls, votes, voteIndex, results, now>>

Next ==
  \/ Tick
  \/ \E t \in Tokens, n \in OptionCounts, w \in Windows, acts \in Transactions :
       CreatePoll(t, n, w, acts)
  \/ \E a \in Addresses, id \in PollIds, option \in Options, acts \in Transactions :
       CastVote(a, id, option, acts)
  \/ \E a \in Addresses, id \in PollIds, acts \in Transactions : WithdrawVote(a, id, acts)
  \/ \E a \in Addresses, acts \in Transactions : WithdrawCreationFees(a, acts)

Spec == Init /\ [][Next]_vars

-----------------------------------------------------------------------------
TypeOK ==
  /\ owner \in Addresses /\ creationFee \in Nat /\ creationFeeBalance \in Nat
  /\ polls \in Seq([token : Tokens, options : 2 .. MAX_OPTIONS,
                    start : Nat, end : Nat])
  /\ votes \in Seq([poll : PollIds, voter : Addresses, option : Nat, weight : Nat \ {0},
                    deposit : Nat \ {0}, lockedUntil : Nat, withdrawn : Nat])
  /\ DOMAIN voteIndex \subseteq PollIds \X Addresses
  /\ \A k \in DOMAIN voteIndex : voteIndex[k] \in DOMAIN votes
  /\ \A k \in DOMAIN results : results[k] \in [weight : Nat, votes : Nat]
  /\ now \in Nat
  /\ balance \in [Tokens -> Int]
  /\ foreign \in BOOLEAN

VoteNumbers == DOMAIN votes
VotesFor(id, option) == {i \in VoteNumbers : votes[i].poll = id /\ votes[i].option = option}

(* The index and the lists agree: every listed vote is found under its poll *)
(* and voter, so an address has one vote per poll, and no option outside the *)
(* poll is voted for; and the running tallies are what a recount of the list *)
(* gives (cast_vote). *)
ResultsRecount ==
  /\ \A i \in VoteNumbers : /\ Voted(votes[i].poll, votes[i].voter)
                            /\ voteIndex[<<votes[i].poll, votes[i].voter>>] = i
  /\ \A i \in VoteNumbers : votes[i].option < PollAt(votes[i].poll).options
  /\ DOMAIN results = {k \in PollIds \X (0 .. MAX_OPTIONS - 1) : k[2] < PollAt(k[1]).options}
  /\ \A k \in DOMAIN results :
       LET for == VotesFor(k[1], k[2]) IN
       /\ results[k].votes = Cardinality(for)
       /\ results[k].weight = SumFunctionOnSet([i \in for |-> votes[i].weight], for)

(* Every token covers the deposits still owed to its voters, and HTR the    *)
(* creation fees on top, when polls share tokens and when a poll's token is *)
(* HTR itself; it does so as long as withdrawals name only the token their  *)
(* method examines, which the code leaves to the caller (_sum_actions). *)
Owed(t) ==
  SumFunctionOnSet([i \in VoteNumbers |->
                      IF PollAt(votes[i].poll).token = t
                      THEN votes[i].deposit - votes[i].withdrawn ELSE 0], VoteNumbers)
  + (IF t = HTR THEN creationFeeBalance ELSE 0)
DepositsAreCovered ==
  /\ \A i \in VoteNumbers : votes[i].withdrawn <= votes[i].deposit
  /\ ~ foreign => \A t \in Tokens : balance[t] >= Owed(t)

(* Once a poll is over its result stands, and until then no weight that     *)
(* counts is taken back, at the two boundary instants as well (cast_vote    *)
(* admits now = end, withdraw_vote does not). *)
ResultIsBacked ==
  [][\A id \in PollIds :
       /\ now > PollAt(id).end =>
            \A k \in DOMAIN results : k[1] = id => results'[k] = results[k]
       /\ now <= PollAt(id).end =>
            \A i \in VoteNumbers : votes[i].poll = id => votes'[i] = votes[i]]_vars

=============================================================================
