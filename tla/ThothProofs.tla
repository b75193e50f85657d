----------------------------- MODULE ThothProofs -----------------------------
(***************************************************************************)
(* The name service is right for every number of addresses, names, fees    *)
(* and limits: the managers' lists and the records say the same, the       *)
(* records know where the NFTs are, fees are covered, a paid term is kept  *)
(* and a name changes its owner only by its NFT.                           *)
(*                                                                         *)
(* The two state invariants and the types are inductive together.  Each    *)
(* call that hands a name over takes it from one list and puts it on       *)
(* another, which may be the same one: the lemmas Drop and Add say what    *)
(* that does to any table of lists, so that the proofs of create_name and  *)
(* change_manager_address need no case for it.                             *)
(***************************************************************************)
EXTENDS Thoth, SequenceTheorems, TLAPS

ListTables == [names : [Addresses -> Seq(Names)], primary : [Addresses -> Names \cup {None}]]

NameRecord == [token : DOMAIN nft, owner : Addresses, deposited : BOOLEAN,
               manager : Addresses, expiration : Nat]

\* Manager a's list holds the names S, each once, and its primary name is one of them.
Listed(ls, a, S) ==
  /\ ToSet(ls.names[a]) = S
  /\ IsInjective(ls.names[a])
  /\ ls.primary[a] # None => ls.primary[a] \in S

\* Outside of manager m's entries the tables are the same.
SameBut(new, old, m) ==
  /\ new \in ListTables
  /\ \A a \in Addresses \ {m} : /\ new.names[a] = old.names[a]
                                /\ new.primary[a] = old.primary[a]

Managed(a) == {n \in Registered : registered[n].manager = a}

IInv == TypeOK /\ ListsMatchRecords /\ CustodyMatchesRecords

-----------------------------------------------------------------------------
(* The lists.                                                              *)

\* Taking the only occurrence of a name out of a list leaves the others.
LEMMA RemoveOne ==
  ASSUME NEW s \in Seq(Names), IsInjective(s), NEW n
  PROVE  /\ RemoveFirst(s, n) \in Seq(Names)
         /\ IsInjective(RemoveFirst(s, n))
         /\ ToSet(RemoveFirst(s, n)) = ToSet(s) \ {n}
         /\ Len(RemoveFirst(s, n)) <= Len(s)
<1> DEFINE I == {i \in 1 .. Len(s) : s[i] = n}
<1>0. Len(s) \in Nat /\ DOMAIN s = 1 .. Len(s) /\ \A i \in 1 .. Len(s) : s[i] \in Names
  OBVIOUS
<1>1. CASE I = {}
  <2>1. RemoveFirst(s, n) = s BY <1>1 DEF RemoveFirst
  <2>2. n \notin ToSet(s) BY <1>0, <1>1 DEF ToSet
  <2>3. QED BY <1>0, <2>1, <2>2
<1>2. CASE I # {}
  <2>1. PICK i \in I : I = {i}
    BY <1>0, <1>2 DEF IsInjective
  <2>2. Min({i}) = i BY <2>1 DEF Min
  <2>3. SelectInSeq(s, LAMBDA v : v = n) = i
    BY <2>1, <2>2 DEF SelectInSeq
  <2>4. RemoveFirst(s, n) = SubSeq(s, 1, i - 1) \o SubSeq(s, i + 1, Len(s))
    BY <1>2, <2>3 DEF RemoveFirst, RemoveAt
  <2> DEFINE r == SubSeq(s, 1, i - 1) \o SubSeq(s, i + 1, Len(s))
  <2>5. /\ r \in Seq(Names) /\ Len(r) = Len(s) - 1
        /\ \A j \in 1 .. Len(s) - 1 : r[j] = s[IF j < i THEN j ELSE j + 1]
    <3> DEFINE u == SubSeq(s, 1, i - 1)
               v == SubSeq(s, i + 1, Len(s))
    <3>1. i \in 1 .. Len(s) /\ i \in Int /\ i - 1 \in Int /\ i + 1 \in Int /\ Len(s) \in Int
      BY <1>0, <2>1
    <3>2. /\ u \in Seq(Names) /\ Len(u) = i - 1
          /\ \A j \in 1 .. i - 1 : u[j] = s[j]
      <4>1. \A j \in 1 .. i - 1 : s[j] \in Names BY <1>0, <3>1
      <4>2. /\ u \in Seq(Names)
            /\ Len(u) = IF 1 <= i - 1 THEN (i - 1) - 1 + 1 ELSE 0
            /\ \A j \in 1 .. (i - 1) - 1 + 1 : u[j] = s[1 + j - 1]
        BY <3>1, <4>1, SubSeqProperties
      <4> HIDE DEF u
      <4>3. QED BY <3>1, <4>2
    <3>3. /\ v \in Seq(Names) /\ Len(v) = Len(s) - i
          /\ \A j \in 1 .. Len(s) - i : v[j] = s[i + j]
      <4>1. \A j \in i + 1 .. Len(s) : s[j] \in Names BY <1>0, <3>1
      <4>2. /\ v \in Seq(Names)
            /\ Len(v) = IF i + 1 <= Len(s) THEN Len(s) - (i + 1) + 1 ELSE 0
            /\ \A j \in 1 .. Len(s) - (i + 1) + 1 : v[j] = s[(i + 1) + j - 1]
        BY <3>1, <4>1, SubSeqProperties
      <4> HIDE DEF v
      <4>3. QED BY <3>1, <4>2
    <3> HIDE DEF u, v
    <3>4. /\ u \o v \in Seq(Names) /\ Len(u \o v) = Len(s) - 1
          /\ \A j \in 1 .. Len(s) - 1 : (u \o v)[j] = IF j < i THEN u[j] ELSE v[j - (i - 1)]
      <4>1. /\ u \o v \in Seq(Names) /\ Len(u \o v) = Len(u) + Len(v)
            /\ \A j \in 1 .. Len(u) + Len(v) : (u \o v)[j] =
                 IF j <= Len(u) THEN u[j] ELSE v[j - Len(u)]
        BY <3>2, <3>3, ConcatProperties
      <4>2. Len(u) + Len(v) = Len(s) - 1 BY <3>1, <3>2, <3>3
      <4>3. QED BY <3>1, <3>2, <4>1, <4>2
    <3>5. ASSUME NEW j \in 1 .. Len(s) - 1
          PROVE (u \o v)[j] = s[IF j < i THEN j ELSE j + 1]
      <4>1. CASE j < i BY <1>0, <3>1, <3>2, <3>4, <4>1
      <4>2. CASE j >= i
        <5>1. j - (i - 1) \in 1 .. Len(s) - i /\ i + (j - (i - 1)) = j + 1 /\ ~ (j < i)
          BY <1>0, <3>1, <4>2
        <5>2. QED BY <3>3, <3>4, <5>1
      <4>3. j < i \/ j >= i BY <1>0, <3>1, SMT
      <4>4. QED BY <4>1, <4>2, <4>3
    <3>6. QED BY <3>4, <3>5 DEF u, v
  <2> HIDE DEF r
  <2>6. DOMAIN r = 1 .. Len(s) - 1 BY <2>5
  <2>7. IsInjective(r)
    <3>1. ASSUME NEW a \in DOMAIN r, NEW b \in DOMAIN r, r[a] = r[b] PROVE a = b
      <4>1. a \in 1 .. Len(s) - 1 /\ b \in 1 .. Len(s) - 1 BY <2>6
      <4>2. s[IF a < i THEN a ELSE a + 1] = s[IF b < i THEN b ELSE b + 1]
        BY <2>5, <3>1, <4>1
      <4>3. (IF a < i THEN a ELSE a + 1) = (IF b < i THEN b ELSE b + 1)
        BY <1>0, <2>1, <4>1, <4>2 DEF IsInjective
      <4>4. QED BY <2>1, <4>1, <4>3
    <3>2. QED BY <3>1 DEF IsInjective
  <2>8. ToSet(r) = ToSet(s) \ {n}
    <3>1. ASSUME NEW x \in ToSet(r) PROVE x \in ToSet(s) \ {n}
      <4>1. PICK j \in 1 .. Len(s) - 1 : x = r[j] BY <2>6 DEF ToSet
      <4>2. PICK k \in 1 .. Len(s) : k # i /\ x = s[k]
        <5>1. CASE j < i
          <6>1. x = s[j] /\ j \in 1 .. Len(s) /\ j # i BY <1>0, <2>1, <2>5, <4>1, <5>1
          <6>2. QED BY <6>1
        <5>2. CASE ~ (j < i)
          <6>1. x = s[j + 1] /\ j + 1 \in 1 .. Len(s) /\ j + 1 # i
            BY <1>0, <2>1, <2>5, <4>1, <5>2
          <6>2. QED BY <6>1
        <5>3. QED BY <5>1, <5>2
      <4>3. QED BY <1>0, <2>1, <4>2 DEF ToSet
    <3>2. ASSUME NEW x \in ToSet(s) \ {n} PROVE x \in ToSet(r)
      <4>1. PICK k \in 1 .. Len(s) : x = s[k] BY <1>0 DEF ToSet
      <4>2. k # i BY <2>1, <4>1
      <4>3. PICK j \in 1 .. Len(s) - 1 : x = r[j]
        <5>1. CASE k < i
          <6>1. k \in 1 .. Len(s) - 1 BY <1>0, <2>1, <5>1
          <6>2. QED BY <2>5, <4>1, <5>1, <6>1
        <5>2. CASE k > i
          <6>1. k - 1 \in 1 .. Len(s) - 1 /\ ~ (k - 1 < i) /\ (k - 1) + 1 = k
            BY <1>0, <2>1, <5>2
          <6>2. r[k - 1] = s[k] BY <2>5, <6>1
          <6>3. QED BY <4>1, <6>1, <6>2
        <5>3. QED BY <1>0, <2>1, <4>2, <5>1, <5>2
      <4>4. QED BY <2>6, <4>3 DEF ToSet
    <3>3. QED BY <3>1, <3>2
  <2>9. RemoveFirst(s, n) = r BY <2>4 DEF r
  <2>10. Len(r) <= Len(s) BY <1>0, <2>5
  <2>11. QED BY <2>5, <2>7, <2>8, <2>9, <2>10
<1>3. QED BY <1>1, <1>2

\* _remove_name_from_manager
LEMMA Drop ==
  ASSUME NEW ls \in ListTables, NEW m \in Addresses, NEW n \in Names, NEW S, Listed(ls, m, S)
  PROVE  /\ SameBut(Dropped(ls, m, n), ls, m)
         /\ Listed(Dropped(ls, m, n), m, S \ {n})
         /\ Len(Dropped(ls, m, n).names[m]) <= Len(ls.names[m])
<1> DEFINE rest == RemoveFirst(ls.names[m], n)
<1>1. /\ ls.names \in [Addresses -> Seq(Names)] /\ ls.names[m] \in Seq(Names)
      /\ ls.primary \in [Addresses -> Names \cup {None}]
      /\ ls = [names |-> ls.names, primary |-> ls.primary]
      /\ Len(ls.names[m]) \in Nat
  BY DEF ListTables
<1>2. CASE ls.names[m] = << >>
  <2>1. Dropped(ls, m, n) = ls BY <1>2 DEF Dropped
  <2>2. S = {} BY <1>2 DEF Listed, ToSet
  <2>3. QED BY <1>1, <2>1, <2>2 DEF Listed, SameBut
<1>3. CASE ls.names[m] # << >>
  <2>1. /\ rest \in Seq(Names) /\ IsInjective(rest)
        /\ ToSet(rest) = S \ {n} /\ Len(rest) <= Len(ls.names[m])
    BY <1>1, RemoveOne DEF Listed
  <2> HIDE DEF rest
  <2>2. Dropped(ls, m, n) =
          [names |-> [ls.names EXCEPT ![m] = rest],
           primary |-> [ls.primary EXCEPT ![m] = IF rest = << >> \/ @ = n THEN None ELSE @]]
    BY <1>3 DEF Dropped, rest
  <2>3. PICK d : d = Dropped(ls, m, n) OBVIOUS
  <2>4. /\ d \in ListTables
        /\ d.names[m] = rest
        /\ d.primary[m] = IF rest = << >> \/ ls.primary[m] = n THEN None ELSE ls.primary[m]
        /\ \A a \in Addresses \ {m} : /\ d.names[a] = ls.names[a]
                                      /\ d.primary[a] = ls.primary[a]
    BY <1>1, <2>1, <2>2, <2>3 DEF ListTables
  <2>5. d.primary[m] # None => d.primary[m] \in S \ {n}
    BY <2>4 DEF Listed
  <2>6. QED BY <2>1, <2>3, <2>4, <2>5 DEF Listed, SameBut
<1>4. QED BY <1>2, <1>3

\* _add_name_to_manager
LEMMA Add ==
  ASSUME NEW ls \in ListTables, NEW m \in Addresses, NEW n \in Names, NEW S, Listed(ls, m, S),
         maxManaged \in Nat, Len(ls.names[m]) <= maxManaged, HasRoom(ls, m, n)
  PROVE  /\ SameBut(Added(ls, m, n), ls, m)
         /\ Listed(Added(ls, m, n), m, S \cup {n})
         /\ Len(Added(ls, m, n).names[m]) <= maxManaged
<1>1. /\ ls.names \in [Addresses -> Seq(Names)] /\ ls.names[m] \in Seq(Names)
      /\ ls.primary \in [Addresses -> Names \cup {None}]
      /\ ls = [names |-> ls.names, primary |-> ls.primary]
      /\ Len(ls.names[m]) \in Nat
  BY DEF ListTables
<1>2. CASE n \in ToSet(ls.names[m])
  <2>1. Added(ls, m, n) = ls BY <1>2 DEF Added
  <2>2. S \cup {n} = S BY <1>2 DEF Listed
  <2>3. QED BY <2>1, <2>2 DEF SameBut
<1>3. CASE n \notin ToSet(ls.names[m])
  <2>1. PICK d : d = Added(ls, m, n) OBVIOUS
  <2>2. d = [ls EXCEPT !.names[m] = Append(@, n)] BY <1>3, <2>1 DEF Added
  <2>3. d = [names |-> [ls.names EXCEPT ![m] = Append(ls.names[m], n)],
             primary |-> ls.primary]
    BY <1>1, <2>2
  <2>4. PICK l : l = Append(ls.names[m], n) OBVIOUS
  <2>5. /\ l \in Seq(Names) /\ Len(l) = Len(ls.names[m]) + 1
        /\ DOMAIN l = 1 .. Len(ls.names[m]) + 1
        /\ \A i \in 1 .. Len(ls.names[m]) : l[i] = ls.names[m][i]
        /\ l[Len(ls.names[m]) + 1] = n
    BY <1>1, <2>4
  <2>6. /\ DOMAIN ls.names[m] = 1 .. Len(ls.names[m])
        /\ \A i \in 1 .. Len(ls.names[m]) : ls.names[m][i] # n
    BY <1>1, <1>3 DEF ToSet
  <2>7. /\ d \in ListTables /\ d.names[m] = l /\ d.primary = ls.primary
        /\ \A a \in Addresses \ {m} : d.names[a] = ls.names[a]
    BY <1>1, <2>3, <2>4, <2>5 DEF ListTables
  <2>8. ToSet(l) = ToSet(ls.names[m]) \cup {n}
    <3>1. /\ ToSet(ls.names[m]) = {ls.names[m][i] : i \in 1 .. Len(ls.names[m])}
          /\ ToSet(l) = {l[i] : i \in 1 .. Len(ls.names[m]) + 1}
      BY <2>5, <2>6 DEF ToSet
    <3>2. PICK k \in Nat : k = Len(ls.names[m]) BY <1>1
    <3>3. QED BY <2>5, <3>1, <3>2
  <2>9. IsInjective(l)
    <3>1. ASSUME NEW a \in DOMAIN l, NEW b \in DOMAIN l, l[a] = l[b] PROVE a = b
      <4>1. CASE a \in 1 .. Len(ls.names[m]) /\ b \in 1 .. Len(ls.names[m])
        BY <2>5, <2>6, <3>1, <4>1 DEF Listed, IsInjective
      <4>2. CASE ~ (a \in 1 .. Len(ls.names[m]) /\ b \in 1 .. Len(ls.names[m]))
        BY <1>1, <2>5, <2>6, <3>1, <4>2
      <4>3. QED BY <4>1, <4>2
    <3>2. QED BY <3>1 DEF IsInjective
  <2>10. Len(l) <= maxManaged BY <1>1, <1>3, <2>5 DEF HasRoom
  <2>11. QED BY <2>1, <2>7, <2>8, <2>9, <2>10 DEF Listed, SameBut
<1>4. QED BY <1>2, <1>3

\* A manager's first name becomes its primary name.
LEMMA Only ==
  ASSUME NEW ls \in ListTables, NEW m \in Addresses, NEW n \in Names, NEW S,
         Listed(ls, m, S), n \in S
  PROVE  /\ SameBut(PrimaryIfOnly(ls, m, n), ls, m)
         /\ Listed(PrimaryIfOnly(ls, m, n), m, S)
         /\ PrimaryIfOnly(ls, m, n).names[m] = ls.names[m]
<1>1. /\ ls.names \in [Addresses -> Seq(Names)]
      /\ ls.primary \in [Addresses -> Names \cup {None}]
      /\ ls = [names |-> ls.names, primary |-> ls.primary]
  BY DEF ListTables
<1>2. PICK d : d = PrimaryIfOnly(ls, m, n) OBVIOUS
<1>3. CASE d = ls BY <1>2, <1>3 DEF SameBut
<1>4. CASE d = [ls EXCEPT !.primary[m] = n]
  <2>1. d = [names |-> ls.names, primary |-> [ls.primary EXCEPT ![m] = n]] BY <1>1, <1>4
  <2>2. /\ d \in ListTables /\ d.names = ls.names /\ d.primary[m] = n
        /\ \A a \in Addresses \ {m} : d.primary[a] = ls.primary[a]
    BY <1>1, <2>1 DEF ListTables
  <2>3. QED BY <1>2, <2>2 DEF Listed, SameBut
<1>5. QED BY <1>2, <1>3, <1>4 DEF PrimaryIfOnly

-----------------------------------------------------------------------------
(* The state.                                                              *)

\* The types of the lists, and the lists as the lemmas above see them.
LEMMA ListForm ==
  ASSUME IInv
  PROVE  /\ Lists \in ListTables
         /\ \A a \in Addresses : Listed(Lists, a, Managed(a)) /\ Len(Lists.names[a]) <= maxManaged
BY DEF IInv, TypeOK, ListsMatchRecords, Lists, ListTables, Listed, Managed

\* The records, one by one.
LEMMA Records ==
  ASSUME TypeOK, NEW n \in Registered
  PROVE  /\ n \in Names /\ registered[n] \in NameRecord
         /\ registered[n].token \in DOMAIN nft
         /\ registered[n].manager \in Addresses /\ registered[n].owner \in Addresses
         /\ registered[n].expiration \in Nat
BY DEF TypeOK, NameRecord

\* Whoever's lists changed with the records as the lemmas say: they match again.
LEMMA ListsKept ==
  ASSUME TypeOK', NEW ls, managerNames' = ls.names, primary' = ls.primary,
         \A a \in Addresses : /\ Listed(ls, a, Managed(a)')
                              /\ Len(ls.names[a]) <= maxManaged'
  PROVE  ListsMatchRecords'
BY DEF ListsMatchRecords, Listed, Managed

LEMMA InitInv == Init => IInv
<1> SUFFICES ASSUME Init PROVE IInv
  OBVIOUS
<1>1. TypeOK
  <2>1. baseFee \in Nat \ {0} /\ gracePeriod \in 1 .. GraceCap /\ maxManaged \in 1 .. ManagedCap
    BY ThothAssumption DEF Init, WithinLimit
  <2>2. multiplier \in [{3, 4, 5} -> Nat \ {0}] BY DEF Init
  <2>3. Registered = {} /\ nft \in Seq(Addresses \cup {Contract}) BY DEF Init, Registered
  <2>4. registered \in [Registered -> NameRecord] BY DEF Init, Registered
  <2>5. managerNames \in [Addresses -> Seq(Names)] /\ primary \in [Addresses -> Names \cup {None}]
    BY DEF Init
  <2>6. QED BY <2>1, <2>2, <2>3, <2>4, <2>5 DEF Init, TypeOK, NameRecord
<1>2. ListsMatchRecords
  <2>1. maxManaged \in Nat BY <1>1 DEF TypeOK
  <2>2. QED BY <2>1 DEF Init, ListsMatchRecords, Registered, ToSet, IsInjective
<1>3. CustodyMatchesRecords BY DEF Init, CustodyMatchesRecords, Registered
<1>4. QED BY <1>1, <1>2, <1>3 DEF IInv

\* A positive multiple is what its quotient says.
LEMMA Multiple ==
  ASSUME NEW f \in Nat \ {0}, NEW a \in Nat, a >= f, a % f = 0
  PROVE  a \div f \in Nat \ {0} /\ f * (a \div f) = a
<1>1. a = f * (a \div f) + (a % f) /\ a \div f \in Int BY SMT
<1>2. f * (a \div f) = a BY <1>1
<1>3. a \div f > 0 BY <1>1, <1>2, SMT
<1>4. QED BY <1>1, <1>2, <1>3

\* What a payment buys: whole years, all of it a fee.
LEMMA Paid ==
  ASSUME TypeOK, NEW n \in Names, NEW amount \in Deposits, PaysFor(amount, n)
  PROVE  /\ Years(amount, n) * SecondsPerYear \in Nat
         /\ Fee(n) * Years(amount, n) = amount
         /\ amount \in Nat \ {0}
<1>1. /\ baseFee \in Nat \ {0} /\ multiplier[LengthClass[n]] \in Nat \ {0}
      /\ amount \in Nat \ {0} /\ SecondsPerYear \in Nat
  BY ThothAssumption DEF TypeOK
<1>2. Fee(n) \in Nat \ {0}
  <2>1. ASSUME NEW x \in Nat \ {0}, NEW y \in Nat \ {0} PROVE x * y \in Nat \ {0} BY SMT
  <2>2. QED BY <1>1, <2>1 DEF Fee
<1>3. Years(amount, n) \in Nat \ {0} /\ Fee(n) * Years(amount, n) = amount
  BY <1>1, <1>2, Multiple DEF PaysFor, Years
<1>4. Years(amount, n) * SecondsPerYear \in Nat
  <2>1. ASSUME NEW x \in Nat, NEW y \in Nat PROVE x * y \in Nat BY SMT
  <2>2. QED BY <1>1, <1>3, <2>1
<1>5. QED BY <1>1, <1>3, <1>4

\* A record changes: its token and its manager stay.
LEMMA RecordStep ==
  ASSUME IInv, NEW n \in Registered, NEW record, record \in NameRecord,
         record.token = registered[n].token, record.manager = registered[n].manager,
         SetRecord(n, record), UNCHANGED <<config, managerNames, primary>>,
         nft' \in Seq(Addresses \cup {Contract}), DOMAIN nft' = DOMAIN nft,
         \A t \in DOMAIN nft \ {record.token} : nft'[t] = nft[t],
         record.deposited <=> nft'[record.token] = Contract,
         totalFee' \in Nat, now' \in Nat, htr' \in 0 .. (totalFee' - Len(nft'))
  PROVE  IInv'
<1>1. /\ TypeOK /\ ListsMatchRecords /\ CustodyMatchesRecords BY DEF IInv
<1>2. /\ Registered' = Registered /\ registered'[n] = record
      /\ \A m \in Registered \ {n} : registered'[m] = registered[m]
      /\ registered' \in [Registered -> NameRecord]
  <2>1. registered' = [m \in Registered |-> IF m = n THEN record ELSE registered[m]]
    <3>1. Registered \cup {n} = Registered OBVIOUS
    <3>2. QED BY <3>1 DEF SetRecord
  <2>2. \A m \in Registered : registered[m] \in NameRecord BY <1>1, Records
  <2>3. QED BY <2>1, <2>2 DEF Registered
<1>3. /\ dev' = dev /\ baseFee' = baseFee /\ multiplier' = multiplier
      /\ gracePeriod' = gracePeriod /\ maxManaged' = maxManaged
      /\ managerNames' = managerNames /\ primary' = primary
  BY DEF config
<1>4. TypeOK'
  <2>1. htr' \in Int /\ NameRecord' = NameRecord BY <1>1 DEF TypeOK, NameRecord
  <2>2. QED BY <1>1, <1>2, <1>3, <2>1 DEF TypeOK, NameRecord
<1>5. ListsMatchRecords'
  <2>1. \A m \in Registered : registered'[m].manager = registered[m].manager BY <1>2
  <2>2. QED BY <1>1, <1>2, <1>3, <2>1 DEF ListsMatchRecords
<1>6. CustodyMatchesRecords'
  <2>1. \A m \in Registered : registered'[m].token = registered[m].token BY <1>2
  <2>2. \A l, m \in Registered : registered'[l].token = registered'[m].token => l = m
    BY <1>1, <2>1 DEF CustodyMatchesRecords
  <2>3. ASSUME NEW m \in Registered
        PROVE registered'[m].deposited <=> nft'[registered'[m].token] = Contract
    <3>1. CASE m = n BY <1>2, <3>1
    <3>2. CASE m # n
      <4>1. registered[m].token \in DOMAIN nft \ {record.token}
        BY <1>1, <3>2, Records DEF CustodyMatchesRecords
      <4>2. QED BY <1>1, <1>2, <3>2, <4>1 DEF CustodyMatchesRecords
    <3>3. QED BY <3>1, <3>2
  <2>4. QED BY <1>2, <2>2, <2>3 DEF CustodyMatchesRecords
<1>7. QED BY <1>4, <1>5, <1>6 DEF IInv

\* Everything but the clock, the fees, the dev's settings and outside NFTs stays.
LEMMA OutsideStep ==
  ASSUME IInv, UNCHANGED <<registered, managerNames, primary, totalFee>>,
         dev' \in Addresses, baseFee' \in Nat \ {0}, multiplier' \in [{3, 4, 5} -> Nat \ {0}],
         gracePeriod' \in 1 .. GraceCap, maxManaged' \in 1 .. ManagedCap,
         maxManaged' >= maxManaged,
         nft' \in Seq(Addresses \cup {Contract}), Len(nft') = Len(nft),
         \A t \in DOMAIN nft : nft'[t] = Contract <=> nft[t] = Contract,
         now' \in Nat, htr' \in 0 .. htr
  PROVE  IInv'
<1>1. TypeOK /\ ListsMatchRecords /\ CustodyMatchesRecords BY DEF IInv
<1>2. /\ Registered' = Registered /\ DOMAIN nft' = DOMAIN nft
      /\ nft \in Seq(Addresses \cup {Contract})
  BY <1>1 DEF Registered, TypeOK
<1>3. TypeOK'
  <2>1. /\ htr \in Int /\ totalFee \in Nat /\ Registered \subseteq Names
        /\ registered \in [Registered -> NameRecord]
        /\ managerNames \in [Addresses -> Seq(Names)]
        /\ primary \in [Addresses -> Names \cup {None}]
    BY <1>1 DEF TypeOK, NameRecord
  <2>2. htr' \in Int /\ NameRecord' = NameRecord BY <1>2, <2>1 DEF NameRecord
  <2>3. registered' \in [Registered' -> NameRecord'] BY <1>2, <2>1, <2>2
  <2>4. QED BY <1>2, <2>1, <2>2, <2>3 DEF TypeOK, NameRecord
<1>4. ListsMatchRecords'
  <2>1. ASSUME NEW a \in Addresses PROVE Len(managerNames[a]) <= maxManaged'
    <3>1. Len(managerNames[a]) \in Nat BY <1>1 DEF TypeOK
    <3>2. Len(managerNames[a]) <= maxManaged BY <1>1 DEF ListsMatchRecords
    <3>3. maxManaged \in 1 .. ManagedCap BY <1>1 DEF TypeOK
    <3>4. QED BY <3>1, <3>2, <3>3, SMT
  <2>2. QED BY <1>1, <1>2, <2>1 DEF ListsMatchRecords
<1>5. CustodyMatchesRecords'
  <2>1. htr' \in 0 .. (totalFee - Len(nft))
    <3>1. htr \in 0 .. (totalFee - Len(nft)) BY <1>1 DEF CustodyMatchesRecords
    <3>2. totalFee \in Nat /\ Len(nft) \in Nat BY <1>1 DEF TypeOK
    <3>3. QED BY <3>1, <3>2, SMT
  <2>2. \A n \in Registered : registered[n].token \in DOMAIN nft BY <1>1, Records
  <2>3. QED BY <1>1, <1>2, <2>1, <2>2 DEF CustodyMatchesRecords
<1>6. QED BY <1>3, <1>4, <1>5 DEF IInv

\* The lists after a hand-over: the old manager's loses the name, then the new one's
\* has it.
LEMMA HandOver ==
  ASSUME IInv, NEW n \in Names, NEW m \in Addresses, NEW cleared,
         cleared = IF n \in Registered THEN Dropped(Lists, registered[n].manager, n) ELSE Lists,
         HasRoom(cleared, m, n)
  PROVE  LET ls == Added(cleared, m, n) IN
         /\ ls \in ListTables
         /\ \A a \in Addresses :
              /\ Listed(ls, a, (Managed(a) \ {n}) \cup (IF a = m THEN {n} ELSE {}))
              /\ Len(ls.names[a]) <= maxManaged
<1> DEFINE ls == Added(cleared, m, n)
           old == registered[n].manager
           M(a) == Managed(a) \ {n}
<1>1. TypeOK /\ maxManaged \in Nat BY DEF IInv, TypeOK
<1>2. /\ Lists \in ListTables
      /\ \A a \in Addresses : /\ Listed(Lists, a, Managed(a))
                              /\ Len(Lists.names[a]) <= maxManaged
                              /\ Len(Lists.names[a]) \in Nat
  <2>1. Lists \in ListTables BY ListForm
  <2>2. \A a \in Addresses : Len(Lists.names[a]) \in Nat BY <2>1 DEF ListTables
  <2>3. QED BY <2>1, <2>2, ListForm
<1>3. /\ cleared \in ListTables
      /\ \A a \in Addresses : Listed(cleared, a, M(a)) /\ Len(cleared.names[a]) <= maxManaged
  <2>1. CASE n \notin Registered
    <3>1. \A a \in Addresses : M(a) = Managed(a) BY <2>1 DEF Managed
    <3>2. QED BY <1>2, <2>1, <3>1
  <2>2. CASE n \in Registered
    <3>1. old \in Addresses /\ cleared = Dropped(Lists, old, n) BY <1>1, <2>2, Records
    <3>2. /\ SameBut(cleared, Lists, old) /\ Listed(cleared, old, M(old))
          /\ Len(cleared.names[old]) <= Len(Lists.names[old])
      BY <1>2, <3>1, Drop
    <3>3. cleared \in ListTables /\ Len(cleared.names[old]) \in Nat
      BY <3>1, <3>2 DEF SameBut, ListTables
    <3>4. Len(cleared.names[old]) <= maxManaged BY <1>1, <1>2, <3>1, <3>2, <3>3
    <3>5. ASSUME NEW a \in Addresses \ {old}
          PROVE  Listed(cleared, a, M(a)) /\ Len(cleared.names[a]) <= maxManaged
      <4>1. M(a) = Managed(a) BY DEF Managed
      <4>2. QED BY <1>2, <3>2, <4>1 DEF Listed, SameBut
    <3>6. QED BY <3>2, <3>3, <3>4, <3>5
  <2>3. QED BY <2>1, <2>2
<1>4. /\ SameBut(ls, cleared, m) /\ Listed(ls, m, M(m) \cup {n})
      /\ Len(ls.names[m]) <= maxManaged
  BY <1>1, <1>3, Add
<1>5. ASSUME NEW a \in Addresses \ {m}
      PROVE  Listed(ls, a, M(a)) /\ Len(ls.names[a]) <= maxManaged
  BY <1>3, <1>4 DEF Listed, SameBut
<1>6. ls \in ListTables BY <1>4 DEF SameBut
<1> HIDE DEF ls
<1>7. ASSUME NEW a \in Addresses
      PROVE  /\ Listed(ls, a, (Managed(a) \ {n}) \cup (IF a = m THEN {n} ELSE {}))
             /\ Len(ls.names[a]) <= maxManaged
  <2>1. CASE a = m BY <1>4, <2>1
  <2>2. CASE a # m
    <3>1. (Managed(a) \ {n}) \cup (IF a = m THEN {n} ELSE {}) = M(a) BY <2>2
    <3>2. QED BY <1>5, <2>2, <3>1
  <2>3. QED BY <2>1, <2>2
<1>8. QED BY <1>6, <1>7 DEF ls

\* Who manages what after the record of n was written.
LEMMA ManagedAfter ==
  ASSUME NEW n, NEW record, SetRecord(n, record), NEW a
  PROVE  /\ Registered' = Registered \cup {n}
         /\ registered'[n] = record
         /\ \A m \in Registered \ {n} : registered'[m] = registered[m]
         /\ Managed(a)' = (Managed(a) \ {n}) \cup (IF a = record.manager THEN {n} ELSE {})
<1>1. /\ Registered' = Registered \cup {n}
      /\ registered'[n] = record
      /\ \A m \in Registered \ {n} : registered'[m] = registered[m]
  BY DEF SetRecord, Registered
<1>2. Managed(a)' = {m \in Registered' : registered'[m].manager = a} BY DEF Managed
<1>3. Managed(a) = {m \in Registered : registered[m].manager = a} BY DEF Managed
<1>4. QED BY <1>1, <1>2, <1>3

-----------------------------------------------------------------------------
LEMMA CreateNameStep ==
  ASSUME IInv, NEW caller \in Addresses, NEW n \in Names, NEW amount \in Deposits,
         CreateName(caller, n, amount)
  PROVE  IInv'
<1> DEFINE expiration == now + Years(amount, n) * SecondsPerYear
           record == [token |-> Len(nft) + 1, owner |-> caller, deposited |-> TRUE,
                      manager |-> caller, expiration |-> expiration]
<1>1. PICK cleared :
        cleared = IF n \in Registered THEN Dropped(Lists, registered[n].manager, n) ELSE Lists
  OBVIOUS
<1>2. /\ PaysFor(amount, n) /\ HasRoom(cleared, caller, n)
      /\ SetRecord(n, record)
      /\ Keep(PrimaryIfOnly(Added(cleared, caller, n), caller, n))
      /\ totalFee' = totalFee + Fee(n) * Years(amount, n)
      /\ nft' = Append(nft, Contract)
      /\ htr' = htr + amount - 1
      /\ dev' = dev /\ baseFee' = baseFee /\ multiplier' = multiplier
      /\ gracePeriod' = gracePeriod /\ maxManaged' = maxManaged /\ now' = now
  BY <1>1 DEF CreateName, config
<1>3. TypeOK /\ CustodyMatchesRecords BY DEF IInv
<1>4. PICK added, ls : added = Added(cleared, caller, n) /\ ls = PrimaryIfOnly(added, caller, n)
  OBVIOUS
<1>5. /\ added \in ListTables
      /\ \A a \in Addresses :
           /\ Listed(added, a, (Managed(a) \ {n}) \cup (IF a = caller THEN {n} ELSE {}))
           /\ Len(added.names[a]) <= maxManaged
  BY <1>1, <1>2, <1>4, HandOver
<1>6. \A a \in Addresses :
        Managed(a)' = (Managed(a) \ {n}) \cup (IF a = caller THEN {n} ELSE {})
  BY <1>2, ManagedAfter
<1>7. /\ SameBut(ls, added, caller) /\ Listed(ls, caller, Managed(caller)')
      /\ ls.names[caller] = added.names[caller]
  BY <1>4, <1>5, <1>6, Only
<1>8. /\ ls \in ListTables /\ managerNames' = ls.names /\ primary' = ls.primary
      /\ \A a \in Addresses : Listed(ls, a, Managed(a)') /\ Len(ls.names[a]) <= maxManaged'
  <2>1. ls \in ListTables /\ managerNames' = ls.names /\ primary' = ls.primary
    BY <1>2, <1>4, <1>7 DEF SameBut, Keep
  <2>2. ASSUME NEW a \in Addresses
        PROVE  Listed(ls, a, Managed(a)') /\ Len(ls.names[a]) <= maxManaged
    <3>1. CASE a = caller BY <1>5, <1>7, <3>1
    <3>2. CASE a # caller BY <1>5, <1>6, <1>7, <3>2 DEF Listed, SameBut
    <3>3. QED BY <3>1, <3>2
  <2>3. QED BY <1>2, <2>1, <2>2
<1>9. /\ Years(amount, n) * SecondsPerYear \in Nat
      /\ Fee(n) * Years(amount, n) = amount /\ amount \in Nat \ {0}
  BY <1>2, <1>3, Paid
<1>10. /\ nft \in Seq(Addresses \cup {Contract}) /\ Len(nft) \in Nat
       /\ DOMAIN nft = 1 .. Len(nft)
       /\ nft' \in Seq(Addresses \cup {Contract}) /\ Len(nft') = Len(nft) + 1
       /\ DOMAIN nft' = 1 .. Len(nft) + 1
       /\ nft'[Len(nft) + 1] = Contract
       /\ \A t \in DOMAIN nft : nft'[t] = nft[t]
  BY <1>2, <1>3 DEF TypeOK
<1>11. /\ Registered' = Registered \cup {n}
       /\ registered'[n] = record
       /\ \A m \in Registered \ {n} : registered'[m] = registered[m]
       /\ DOMAIN registered' = Registered'
  BY <1>2, ManagedAfter DEF Registered
<1>12. record \in NameRecord'
  <2>1. expiration \in Nat BY <1>3, <1>9 DEF TypeOK
  <2>2. QED BY <1>10, <2>1 DEF NameRecord
<1> HIDE DEF record
<1>13. TypeOK'
  <2>1. registered' \in [Registered' -> NameRecord']
    <3>1. \A m \in Registered' : registered'[m] \in NameRecord'
      <4>1. \A m \in Registered : registered[m] \in NameRecord BY <1>3, Records
      <4>2. \A r \in NameRecord : r \in NameRecord' BY <1>10 DEF NameRecord
      <4>3. QED BY <1>11, <1>12, <4>1, <4>2
    <3>2. registered' = [m \in Registered' |-> registered'[m]]
      BY <1>2, <1>11 DEF SetRecord
    <3>3. QED BY <3>1, <3>2
  <2>2. Registered' \subseteq Names BY <1>3, <1>11 DEF TypeOK
  <2>3. totalFee' \in Nat /\ htr' \in Int BY <1>2, <1>3, <1>9 DEF TypeOK
  <2>4. /\ managerNames' \in [Addresses -> Seq(Names)]
        /\ primary' \in [Addresses -> Names \cup {None}]
    BY <1>8 DEF ListTables
  <2>5. QED BY <1>2, <1>3, <1>10, <2>1, <2>2, <2>3, <2>4 DEF TypeOK, NameRecord
<1>14. ListsMatchRecords' BY <1>8, <1>13, ListsKept
<1>15. CustodyMatchesRecords'
  <2>1. record.token = Len(nft) + 1 /\ record.deposited BY DEF record
  <2>2. \A m \in Registered \ {n} : /\ registered'[m] = registered[m]
                                    /\ registered[m].token \in 1 .. Len(nft)
    BY <1>3, <1>10, <1>11, Records
  <2>3. ASSUME NEW m \in Registered'
        PROVE  registered'[m].deposited <=> nft'[registered'[m].token] = Contract
    <3>1. CASE m = n BY <1>10, <1>11, <2>1, <3>1
    <3>2. CASE m # n
      BY <1>3, <1>10, <1>11, <2>2, <3>2 DEF CustodyMatchesRecords
    <3>3. QED BY <3>1, <3>2
  <2>4. ASSUME NEW l \in Registered', NEW m \in Registered',
               registered'[l].token = registered'[m].token
        PROVE  l = m
    <3>1. CASE l # n /\ m # n
      BY <1>3, <1>11, <2>2, <2>4, <3>1 DEF CustodyMatchesRecords
    <3>2. CASE l = n \/ m = n BY <1>10, <1>11, <2>1, <2>2, <2>4, <3>2
    <3>3. QED BY <3>1, <3>2
  <2>5. htr' \in 0 .. (totalFee' - Len(nft'))
    <3>1. htr \in 0 .. (totalFee - Len(nft)) /\ totalFee \in Nat
      BY <1>3 DEF CustodyMatchesRecords, TypeOK
    <3>2. totalFee' = totalFee + amount BY <1>2, <1>9
    <3>3. QED BY <1>2, <1>9, <1>10, <3>1, <3>2
  <2>6. QED BY <2>3, <2>4, <2>5 DEF CustodyMatchesRecords
<1>16. QED BY <1>13, <1>14, <1>15 DEF IInv

LEMMA RenewNameStep ==
  ASSUME IInv, NEW n \in Registered, NEW amount \in Deposits, RenewName(n, amount)
  PROVE  IInv'
<1> DEFINE expiration == NewTerm(n) + Years(amount, n) * SecondsPerYear
           record == [registered[n] EXCEPT !.expiration = expiration]
<1>1. TypeOK /\ CustodyMatchesRecords BY DEF IInv
<1>2. /\ PaysFor(amount, n) /\ SetRecord(n, record)
      /\ totalFee' = totalFee + Fee(n) * Years(amount, n)
      /\ htr' = htr + amount
      /\ UNCHANGED <<config, managerNames, primary>> /\ now' = now /\ nft' = nft
  BY DEF RenewName
<1>3. n \in Names /\ registered[n] \in NameRecord BY <1>1, Records
<1>4. /\ Years(amount, n) * SecondsPerYear \in Nat
      /\ Fee(n) * Years(amount, n) = amount /\ amount \in Nat \ {0}
  BY <1>1, <1>2, <1>3, Paid
<1>5. expiration \in Nat
  BY <1>1, <1>3, <1>4 DEF NewTerm, Later, NameRecord, TypeOK
<1> HIDE DEF expiration
<1>6. /\ record \in NameRecord /\ record.token = registered[n].token
      /\ record.manager = registered[n].manager /\ record.deposited = registered[n].deposited
  BY <1>3, <1>5 DEF NameRecord
<1>7. nft \in Seq(Addresses \cup {Contract}) /\ Len(nft) \in Nat /\ now \in Nat
  BY <1>1 DEF TypeOK
<1>8. totalFee' \in Nat /\ htr' \in 0 .. (totalFee' - Len(nft'))
  <2>1. htr \in 0 .. (totalFee - Len(nft)) /\ totalFee \in Nat
    BY <1>1 DEF CustodyMatchesRecords, TypeOK
  <2>2. totalFee' = totalFee + amount BY <1>2, <1>4
  <2>3. QED BY <1>2, <1>4, <1>7, <2>1, <2>2
<1>9. record.deposited <=> nft'[record.token] = Contract
  BY <1>1, <1>2, <1>6 DEF CustodyMatchesRecords
<1> HIDE DEF record
<1>10. QED BY <1>2, <1>6, <1>7, <1>8, <1>9, RecordStep

LEMMA ChangeNameOwnerStep ==
  ASSUME IInv, NEW caller \in Addresses, NEW n \in Registered, NEW new \in Addresses,
         ChangeNameOwner(caller, n, new)
  PROVE  IInv'
<1> DEFINE record == [registered[n] EXCEPT !.owner = new]
<1>1. TypeOK /\ CustodyMatchesRecords BY DEF IInv
<1>2. /\ SetRecord(n, record)
      /\ UNCHANGED <<config, managerNames, primary>>
      /\ totalFee' = totalFee /\ now' = now /\ htr' = htr /\ nft' = nft
  BY DEF ChangeNameOwner
<1>3. n \in Names /\ registered[n] \in NameRecord BY <1>1, Records
<1>4. /\ record \in NameRecord /\ record.token = registered[n].token
      /\ record.manager = registered[n].manager /\ record.deposited = registered[n].deposited
  BY <1>3 DEF NameRecord
<1>5. /\ nft \in Seq(Addresses \cup {Contract}) /\ now \in Nat /\ totalFee \in Nat
      /\ htr \in 0 .. (totalFee - Len(nft))
  BY <1>1 DEF TypeOK, CustodyMatchesRecords
<1>6. record.deposited <=> nft'[record.token] = Contract
  BY <1>1, <1>2, <1>4 DEF CustodyMatchesRecords
<1> HIDE DEF record
<1>7. QED BY <1>2, <1>4, <1>5, <1>6, RecordStep

\* The NFT of one name moves into or out of the contract, with its record.
LEMMA CustodyStep ==
  ASSUME IInv, NEW n \in Registered, NEW caller \in Addresses, NEW holder, NEW record,
         \/ holder = Contract /\ record = [registered[n] EXCEPT !.deposited = TRUE,
                                                                !.owner = caller]
         \/ holder = caller /\ record = [registered[n] EXCEPT !.deposited = FALSE],
         SetRecord(n, record),
         nft' = [nft EXCEPT ![registered[n].token] = holder],
         UNCHANGED <<config, managerNames, primary, totalFee, now, htr>>
  PROVE  IInv'
<1>1. TypeOK /\ CustodyMatchesRecords BY DEF IInv
<1>2. registered[n] \in NameRecord /\ registered[n].token \in DOMAIN nft BY <1>1, Records
<1>3. /\ record \in NameRecord /\ record.token = registered[n].token
      /\ record.manager = registered[n].manager
      /\ record.deposited <=> holder = Contract
  BY <1>2, ThothAssumption DEF NameRecord
<1>4. nft \in Seq(Addresses \cup {Contract}) /\ holder \in Addresses \cup {Contract}
  BY <1>1 DEF TypeOK
<1>5. /\ nft' \in Seq(Addresses \cup {Contract}) /\ DOMAIN nft' = DOMAIN nft
      /\ Len(nft') = Len(nft)
      /\ nft'[record.token] = holder
      /\ \A t \in DOMAIN nft \ {record.token} : nft'[t] = nft[t]
  BY <1>2, <1>3, <1>4
<1>6. totalFee' \in Nat /\ now' \in Nat /\ htr' \in 0 .. (totalFee' - Len(nft'))
  BY <1>1, <1>5 DEF TypeOK, CustodyMatchesRecords
<1>7. QED BY <1>3, <1>5, <1>6, RecordStep

LEMMA ChangeManagerAddressStep ==
  ASSUME IInv, NEW caller \in Addresses, NEW n \in Registered, NEW new \in Addresses,
         ChangeManagerAddress(caller, n, new)
  PROVE  IInv'
<1> DEFINE record == [registered[n] EXCEPT !.manager = new]
<1>1. TypeOK /\ CustodyMatchesRecords BY DEF IInv
<1>2. n \in Names /\ registered[n] \in NameRecord BY <1>1, Records
<1>3. PICK cleared :
        cleared = IF n \in Registered THEN Dropped(Lists, registered[n].manager, n) ELSE Lists
  OBVIOUS
<1>4. /\ HasRoom(cleared, new, n) /\ Keep(Added(cleared, new, n))
      /\ SetRecord(n, record)
      /\ dev' = dev /\ baseFee' = baseFee /\ multiplier' = multiplier
      /\ gracePeriod' = gracePeriod /\ maxManaged' = maxManaged
      /\ totalFee' = totalFee /\ now' = now /\ htr' = htr /\ nft' = nft
  BY <1>3 DEF ChangeManagerAddress, config
<1>5. /\ record \in NameRecord /\ record.token = registered[n].token
      /\ record.manager = new /\ record.deposited = registered[n].deposited
  BY <1>2 DEF NameRecord
<1> HIDE DEF record
<1>6. PICK ls : ls = Added(cleared, new, n) OBVIOUS
<1>7. /\ ls \in ListTables
      /\ \A a \in Addresses :
           /\ Listed(ls, a, (Managed(a) \ {n}) \cup (IF a = new THEN {n} ELSE {}))
           /\ Len(ls.names[a]) <= maxManaged
  BY <1>2, <1>3, <1>4, <1>6, HandOver
<1>8. \A a \in Addresses :
        Managed(a)' = (Managed(a) \ {n}) \cup (IF a = new THEN {n} ELSE {})
  BY <1>4, <1>5, ManagedAfter
<1>9. /\ managerNames' = ls.names /\ primary' = ls.primary
      /\ \A a \in Addresses : Listed(ls, a, Managed(a)') /\ Len(ls.names[a]) <= maxManaged'
  BY <1>4, <1>6, <1>7, <1>8 DEF Keep
<1>10. /\ Registered' = Registered /\ registered'[n] = record
       /\ \A m \in Registered \ {n} : registered'[m] = registered[m]
  BY <1>4, ManagedAfter
<1>11. TypeOK'
  <2>1. registered' \in [Registered -> NameRecord]
    <3>1. \A m \in Registered : registered'[m] \in NameRecord
      BY <1>1, <1>5, <1>10, Records
    <3>2. registered' = [m \in Registered |-> registered'[m]]
      BY <1>4, <1>10 DEF SetRecord
    <3>3. QED BY <3>1, <3>2
  <2>2. NameRecord' = NameRecord BY <1>4 DEF NameRecord
  <2>3. /\ managerNames' \in [Addresses -> Seq(Names)]
        /\ primary' \in [Addresses -> Names \cup {None}]
    BY <1>7, <1>9 DEF ListTables
  <2>4. QED BY <1>1, <1>4, <1>10, <2>1, <2>2, <2>3 DEF TypeOK, NameRecord
<1>12. ListsMatchRecords' BY <1>9, <1>11, ListsKept
<1>13. CustodyMatchesRecords'
  <2>1. \A m \in Registered : /\ registered'[m].token = registered[m].token
                              /\ registered'[m].deposited = registered[m].deposited
    BY <1>5, <1>10
  <2>2. QED BY <1>1, <1>4, <1>10, <2>1 DEF CustodyMatchesRecords
<1>14. QED BY <1>11, <1>12, <1>13 DEF IInv

LEMMA ChangeManagerPrimaryNameStep ==
  ASSUME IInv, NEW caller \in Addresses, NEW n \in Registered,
         ChangeManagerPrimaryName(caller, n)
  PROVE  IInv'
<1>1. TypeOK /\ ListsMatchRecords /\ CustodyMatchesRecords BY DEF IInv
<1>2. /\ registered[n].manager = caller /\ primary' = [primary EXCEPT ![caller] = n]
      /\ UNCHANGED <<registered, managerNames, totalFee, now, htr, nft>>
      /\ dev' = dev /\ baseFee' = baseFee /\ multiplier' = multiplier
      /\ gracePeriod' = gracePeriod /\ maxManaged' = maxManaged
      /\ Registered' = Registered
  BY DEF ChangeManagerPrimaryName, config, Registered
<1>3. TypeOK'
  <2>1. primary' \in [Addresses -> Names \cup {None}] BY <1>1, <1>2 DEF TypeOK
  <2>2. QED BY <1>1, <1>2, <2>1 DEF TypeOK
<1>4. ListsMatchRecords'
  <2>1. n \in ToSet(managerNames[caller]) BY <1>1, <1>2 DEF ListsMatchRecords
  <2>2. \A a \in Addresses : primary'[a] = IF a = caller THEN n ELSE primary[a]
    BY <1>1, <1>2 DEF TypeOK
  <2>3. QED BY <1>1, <1>2, <2>1, <2>2 DEF ListsMatchRecords
<1>5. CustodyMatchesRecords' BY <1>1, <1>2 DEF CustodyMatchesRecords
<1>6. QED BY <1>3, <1>4, <1>5 DEF IInv

-----------------------------------------------------------------------------
\* The steps that touch no record and no list.
LEMMA DevStep ==
  ASSUME IInv,
         \/ Tick
         \/ \E token \in DOMAIN nft, a \in Addresses : TransferNft(token, a)
         \/ \E a \in Addresses, fee \in BaseFees : ChangeFee(a, fee)
         \/ \E a \in Addresses, c \in Lengths, m \in Multipliers : ChangeFeeMultiplier(a, c, m)
         \/ \E a \in Addresses, days \in GracePeriods : ChangeGracePeriod(a, days)
         \/ \E a \in Addresses, limit \in Limits : ChangeMaxManagedNames(a, limit)
         \/ \E a, b \in Addresses : ChangeDevAddress(a, b)
         \/ \E a \in Addresses, amount \in Withdrawals : WithdrawFees(a, amount)
         \/ UNCHANGED vars
  PROVE  IInv'
<1>1. TypeOK /\ CustodyMatchesRecords BY DEF IInv
<1>2. /\ dev \in Addresses /\ baseFee \in Nat \ {0} /\ multiplier \in [{3, 4, 5} -> Nat \ {0}]
      /\ gracePeriod \in 1 .. GraceCap /\ maxManaged \in 1 .. ManagedCap
      /\ maxManaged >= maxManaged
      /\ nft \in Seq(Addresses \cup {Contract}) /\ now \in Nat
      /\ htr \in Nat /\ htr \in 0 .. htr
  <2>1. htr \in Nat BY <1>1 DEF CustodyMatchesRecords, TypeOK
  <2>2. QED BY <1>1, <2>1 DEF TypeOK
<1>3. CASE Tick
  BY <1>2, <1>3, OutsideStep DEF Tick, config
<1>4. ASSUME NEW token \in DOMAIN nft, NEW a \in Addresses, TransferNft(token, a) PROVE IInv'
  <2>1. /\ nft' \in Seq(Addresses \cup {Contract}) /\ Len(nft') = Len(nft)
        /\ \A t \in DOMAIN nft : nft'[t] = Contract <=> nft[t] = Contract
    <3>1. /\ nft[token] # Contract /\ a # Contract /\ a \in Addresses \cup {Contract}
          /\ nft' = [nft EXCEPT ![token] = a]
      BY <1>4, ThothAssumption DEF TransferNft
    <3>2. QED BY <1>2, <1>4, <3>1
  <2>2. QED BY <1>2, <1>4, <2>1, OutsideStep DEF TransferNft, config
<1>5. ASSUME NEW a \in Addresses, NEW fee \in BaseFees, ChangeFee(a, fee) PROVE IInv'
  <2>1. baseFee' \in Nat \ {0} BY <1>5, ThothAssumption DEF ChangeFee
  <2>2. QED BY <1>2, <1>5, <2>1, OutsideStep DEF ChangeFee
<1>6. ASSUME NEW a \in Addresses, NEW c \in Lengths, NEW m \in Multipliers,
             ChangeFeeMultiplier(a, c, m)
      PROVE  IInv'
  <2>1. m \in Nat \ {0} BY <1>6, ThothAssumption DEF ChangeFeeMultiplier
  <2>2. multiplier' \in [{3, 4, 5} -> Nat \ {0}] BY <1>2, <1>6, <2>1 DEF ChangeFeeMultiplier
  <2>3. QED BY <1>2, <1>6, <2>2, OutsideStep DEF ChangeFeeMultiplier
<1>7. ASSUME NEW a \in Addresses, NEW days \in GracePeriods, ChangeGracePeriod(a, days)
      PROVE  IInv'
  <2>1. gracePeriod' \in 1 .. GraceCap
    BY <1>7, ThothAssumption DEF ChangeGracePeriod, WithinLimit
  <2>2. QED BY <1>2, <1>7, <2>1, OutsideStep DEF ChangeGracePeriod
<1>8. ASSUME NEW a \in Addresses, NEW limit \in Limits, ChangeMaxManagedNames(a, limit)
      PROVE  IInv'
  <2>1. maxManaged' \in 1 .. ManagedCap /\ maxManaged' >= maxManaged
    BY <1>8, ThothAssumption DEF ChangeMaxManagedNames, WithinLimit
  <2>2. QED BY <1>2, <1>8, <2>1, OutsideStep DEF ChangeMaxManagedNames
<1>9. ASSUME NEW a \in Addresses, NEW b \in Addresses, ChangeDevAddress(a, b) PROVE IInv'
  BY <1>2, <1>9, OutsideStep DEF ChangeDevAddress
<1>10. ASSUME NEW a \in Addresses, NEW amount \in Withdrawals, WithdrawFees(a, amount)
       PROVE  IInv'
  <2>1. htr' \in 0 .. htr BY <1>2, <1>10, ThothAssumption DEF WithdrawFees
  <2>2. QED BY <1>2, <1>10, <2>1, OutsideStep DEF WithdrawFees, config
<1>11. CASE UNCHANGED vars
  BY <1>2, <1>11, OutsideStep DEF vars, config
<1>12. QED BY <1>3, <1>4, <1>5, <1>6, <1>7, <1>8, <1>9, <1>10, <1>11

(* The invariant holds in every reachable state.                           *)
LEMMA Inductive == Spec => []IInv
<1>1. ASSUME IInv, [Next]_vars PROVE IInv'
  <2>1. ASSUME NEW a \in Addresses, NEW n \in Names, NEW amount \in Deposits,
               CreateName(a, n, amount)
        PROVE  IInv'
    BY <1>1, <2>1, CreateNameStep
  <2>2. ASSUME NEW n \in Registered, NEW amount \in Deposits, RenewName(n, amount)
        PROVE  IInv'
    BY <1>1, <2>2, RenewNameStep
  <2>3. ASSUME NEW a \in Addresses, NEW b \in Addresses, NEW n \in Registered,
               ChangeNameOwner(a, n, b)
        PROVE  IInv'
    BY <1>1, <2>3, ChangeNameOwnerStep
  <2>4. ASSUME NEW a \in Addresses, NEW n \in Registered, DepositNft(a, n) PROVE IInv'
    BY <1>1, <2>4, CustodyStep DEF DepositNft
  <2>5. ASSUME NEW a \in Addresses, NEW n \in Registered, WithdrawNft(a, n) PROVE IInv'
    BY <1>1, <2>5, CustodyStep DEF WithdrawNft
  <2>6. ASSUME NEW a \in Addresses, NEW b \in Addresses, NEW n \in Registered,
               ChangeManagerAddress(a, n, b)
        PROVE  IInv'
    BY <1>1, <2>6, ChangeManagerAddressStep
  <2>7. ASSUME NEW a \in Addresses, NEW n \in Registered, ChangeManagerPrimaryName(a, n)
        PROVE  IInv'
    BY <1>1, <2>7, ChangeManagerPrimaryNameStep
  <2>8. QED BY <1>1, <2>1, <2>2, <2>3, <2>4, <2>5, <2>6, <2>7, DevStep DEF Next
<1>2. QED BY <1>1, InitInv, PTL DEF Spec

(* Every reachable state is well typed.                                    *)
THEOREM ThothTypes == Spec => []TypeOK
<1>1. IInv => TypeOK BY DEF IInv
<1>2. QED BY <1>1, Inductive, PTL

(* The managers' lists and the records say the same, for any number of     *)
(* hand-overs, of names registered anew and of limits.                     *)
THEOREM ListsAlwaysMatch == Spec => []ListsMatchRecords
<1>1. IInv => ListsMatchRecords BY DEF IInv
<1>2. QED BY <1>1, Inductive, PTL

(* The records know where the NFTs are, no NFT names two names, and the    *)
(* fees are there.                                                         *)
THEOREM CustodyAlwaysMatches == Spec => []CustodyMatchesRecords
<1>1. IInv => CustodyMatchesRecords BY DEF IInv
<1>2. QED BY <1>1, Inductive, PTL

(* A paid term is kept: what a record promises is not taken back before    *)
(* the end of the grace period, whatever the dev and the others do.        *)
THEOREM TermsAreKept == Spec => PaidTermIsKept
<1> DEFINE Kept(n) == \/ registered'[n].token = registered[n].token
                         /\ registered'[n].expiration >= registered[n].expiration
                      \/ now > GraceEnd(n)
<1>1. ASSUME IInv, [Next]_vars, NEW n \in Registered PROVE Kept(n)
  <2>1. TypeOK /\ registered[n].expiration \in Nat BY <1>1, Records DEF IInv
  <2>2. ASSUME registered'[n].token = registered[n].token,
               registered'[n].expiration = registered[n].expiration
        PROVE  Kept(n)
    BY <2>1, <2>2
  <2>3. ASSUME NEW a \in Addresses, NEW m \in Names, NEW amount \in Deposits,
               CreateName(a, m, amount)
        PROVE  Kept(n)
    <3>1. CASE m = n BY <2>3, <3>1 DEF CreateName, IsNameAvailable
    <3>2. CASE m # n
      <4>1. registered'[n] = registered[n] BY <2>3, <3>2 DEF CreateName, SetRecord, Registered
      <4>2. QED BY <2>2, <4>1
    <3>3. QED BY <3>1, <3>2
  <2>4. ASSUME NEW m \in Registered, NEW amount \in Deposits, RenewName(m, amount)
        PROVE  Kept(n)
    <3> DEFINE expiration == NewTerm(m) + Years(amount, m) * SecondsPerYear
    <3>1. /\ PaysFor(amount, m)
          /\ SetRecord(m, [registered[m] EXCEPT !.expiration = expiration])
      BY <2>4 DEF RenewName
    <3>2. m \in Names /\ registered[m] \in NameRecord BY <2>1, Records
    <3>3. Years(amount, m) * SecondsPerYear \in Nat BY <2>1, <3>1, <3>2, Paid
    <3>4. expiration >= registered[m].expiration
      BY <2>1, <3>2, <3>3 DEF NewTerm, Later, NameRecord, TypeOK
    <3> HIDE DEF expiration
    <3>5. CASE m = n
      <4>1. registered'[n] = [registered[n] EXCEPT !.expiration = expiration]
        BY <3>1, <3>5, ManagedAfter
      <4>2. /\ registered'[n].token = registered[n].token
            /\ registered'[n].expiration = expiration
        BY <3>2, <3>5, <4>1 DEF NameRecord
      <4>3. QED BY <3>4, <3>5, <4>2
    <3>6. CASE m # n
      <4>1. registered'[n] = registered[n] BY <3>1, <3>6, ManagedAfter
      <4>2. QED BY <2>2, <4>1
    <3>7. QED BY <3>5, <3>6
  <2>5. ASSUME NEW m \in Registered, NEW record, SetRecord(m, record),
               record.token = registered[m].token,
               record.expiration = registered[m].expiration
        PROVE  Kept(n)
    <3>1. /\ registered'[n].token = registered[n].token
          /\ registered'[n].expiration = registered[n].expiration
      BY <2>5, ManagedAfter
    <3>2. QED BY <2>2, <3>1
  <2>6. \A m \in Registered : registered[m] \in NameRecord BY <2>1, Records
  <2>7. ASSUME NEW a \in Addresses, NEW b \in Addresses, NEW m \in Registered,
               ChangeNameOwner(a, m, b) \/ ChangeManagerAddress(a, m, b)
               \/ DepositNft(a, m) \/ WithdrawNft(a, m)
        PROVE  Kept(n)
    <3>1. PICK record :
            /\ SetRecord(m, record)
            /\ \/ record = [registered[m] EXCEPT !.owner = b]
               \/ record = [registered[m] EXCEPT !.manager = b]
               \/ record = [registered[m] EXCEPT !.deposited = TRUE, !.owner = a]
               \/ record = [registered[m] EXCEPT !.deposited = FALSE]
      BY <2>7 DEF ChangeNameOwner, ChangeManagerAddress, DepositNft, WithdrawNft
    <3>2. /\ record.token = registered[m].token
          /\ record.expiration = registered[m].expiration
      BY <2>6, <3>1 DEF NameRecord
    <3>3. QED BY <2>5, <3>1, <3>2
  <2>8. CASE registered' = registered BY <2>2, <2>8
  <2> HIDE DEF Kept
  <2>9. QED
    <3>1. \/ registered' = registered
          \/ \E a \in Addresses, m \in Names, amount \in Deposits : CreateName(a, m, amount)
          \/ \E m \in Registered, amount \in Deposits : RenewName(m, amount)
          \/ \E a, b \in Addresses, m \in Registered :
               \/ ChangeNameOwner(a, m, b) \/ ChangeManagerAddress(a, m, b)
               \/ DepositNft(a, m) \/ WithdrawNft(a, m)
      BY <1>1 DEF Next, vars, Tick, TransferNft, ChangeManagerPrimaryName, ChangeFee,
           ChangeFeeMultiplier, ChangeGracePeriod, ChangeMaxManagedNames, ChangeDevAddress,
           WithdrawFees
    <3>2. QED BY <2>3, <2>4, <2>7, <2>8, <3>1
<1>2. IInv /\ [Next]_vars => [\A n \in Registered : Kept(n)]_vars BY <1>1
<1>3. QED BY <1>2, Inductive, PTL DEF Spec, PaidTermIsKept

(* A name changes its owner only by its NFT.                               *)
THEOREM OwnersFollowNfts == Spec => OwnerFollowsNft
<1> DEFINE Follows(n) ==
      registered'[n].token = registered[n].token /\ registered'[n].owner # registered[n].owner =>
        /\ registered'[n].deposited
        /\ nft[registered[n].token] \in {Contract, registered'[n].owner}
<1>1. ASSUME IInv, [Next]_vars, NEW n \in Registered PROVE Follows(n)
  <2>1. /\ TypeOK /\ registered[n] \in NameRecord
        /\ registered[n].deposited <=> nft[registered[n].token] = Contract
    BY <1>1, Records DEF IInv, CustodyMatchesRecords
  <2>2. CASE registered'[n] = registered[n] BY <2>2
  <2>3. ASSUME NEW a \in Addresses, NEW amount \in Deposits, CreateName(a, n, amount)
        PROVE  Follows(n)
    <3>1. registered'[n].token = Len(nft) + 1 BY <2>3, ManagedAfter DEF CreateName
    <3>2. registered[n].token \in 1 .. Len(nft) /\ Len(nft) \in Nat
      BY <2>1 DEF NameRecord, TypeOK
    <3>3. QED BY <3>1, <3>2
  <2>4. ASSUME NEW record, SetRecord(n, record), record.owner = registered[n].owner
        PROVE  Follows(n)
    <3>1. registered'[n] = record BY <2>4, ManagedAfter
    <3>2. QED BY <2>4, <3>1
  <2>5. ASSUME NEW a \in Addresses, NEW b \in Addresses, ChangeNameOwner(a, n, b)
        PROVE  Follows(n)
    <3>1. /\ registered'[n] = [registered[n] EXCEPT !.owner = b] /\ registered[n].deposited
      BY <2>5, ManagedAfter DEF ChangeNameOwner
    <3>2. QED BY <2>1, <3>1 DEF NameRecord
  <2>6. ASSUME NEW a \in Addresses, DepositNft(a, n) PROVE Follows(n)
    <3>1. /\ registered'[n] = [registered[n] EXCEPT !.deposited = TRUE, !.owner = a]
          /\ nft[registered[n].token] = a
      BY <2>6, ManagedAfter DEF DepositNft
    <3>2. QED BY <2>1, <3>1 DEF NameRecord
  <2>7. ASSUME \/ \E a, b \in Addresses : ChangeManagerAddress(a, n, b)
               \/ \E a \in Addresses : WithdrawNft(a, n)
               \/ \E amount \in Deposits : RenewName(n, amount)
        PROVE  Follows(n)
    <3>1. PICK record, x :
            /\ SetRecord(n, record)
            /\ \/ record = [registered[n] EXCEPT !.manager = x]
               \/ record = [registered[n] EXCEPT !.deposited = FALSE]
               \/ record = [registered[n] EXCEPT !.expiration = x]
      BY <2>7 DEF ChangeManagerAddress, WithdrawNft, RenewName
    <3>2. record.owner = registered[n].owner BY <2>1, <3>1 DEF NameRecord
    <3>3. QED BY <2>4, <3>1, <3>2
  <2>8. ASSUME NEW m, m # n, NEW record, SetRecord(m, record) PROVE Follows(n)
    <3>1. registered'[n] = registered[n] BY <2>8, ManagedAfter
    <3>2. QED BY <2>2, <3>1
  <2> HIDE DEF Follows
  <2>9. QED
    <3>1. \/ registered' = registered
          \/ \E m, record : m # n /\ SetRecord(m, record)
          \/ \E a \in Addresses, amount \in Deposits : CreateName(a, n, amount)
          \/ \E amount \in Deposits : RenewName(n, amount)
          \/ \E a, b \in Addresses :
               \/ ChangeNameOwner(a, n, b) \/ ChangeManagerAddress(a, n, b)
               \/ DepositNft(a, n) \/ WithdrawNft(a, n)
      BY <1>1 DEF Next, vars, Tick, TransferNft, ChangeManagerPrimaryName, ChangeFee,
           ChangeFeeMultiplier, ChangeGracePeriod, ChangeMaxManagedNames, ChangeDevAddress,
           WithdrawFees, CreateName, RenewName, ChangeNameOwner, ChangeManagerAddress,
           DepositNft, WithdrawNft
    <3>2. QED BY <2>2, <2>3, <2>5, <2>6, <2>7, <2>8, <3>1
<1>2. IInv /\ [Next]_vars => [\A n \in Registered : Follows(n)]_vars BY <1>1
<1>3. QED BY <1>2, Inductive, PTL DEF Spec, OwnerFollowsNft

=============================================================================
