------------------------------ MODULE MCDozer --------------------------------
(* Small instances of Dozer for TLC. *)
EXTENDS Dozer, TLC

CONSTANTS o1, a1

\* One pool: all that moves its money, and time.
OnePool == {<<0, 1, 1>>}
PoolDeposits == {<<300, 4000>>}
PoolNext == LiquidityNext \/ SwapNext \/ OwnerNext \/ Tick
PoolSpec == Init /\ [][PoolNext]_vars

\* Three pools on three tokens, two of them on the same pair.
P == <<0, 1, 0>>
Q == <<0, 1, 1>>
R == <<1, 2, 1>>
ThreePools == {P, Q, R}
FourKeys == ThreePools \cup {<<0, 2, 6>>, <<0, 2, 0>>}
RouteDeposits == {<<40, 50>>}
TestPaths == {<<P>>, <<P, R>>, <<R, Q>>, <<P, Q, R>>, <<P, Q, P>>, <<Q, R, P, Q>>}

\* Three calls later than Init: the creator has made the three pools.
RouteInit ==
  /\ pools = [k \in ThreePools |-> NewPool(k, Creator, 40, 50, DefaultWindow, 1)]
  /\ burnt = [k \in ThreePools |-> Isqrt(40 * 50) * MinimumLiquidity]
  /\ seen = [k \in ThreePools |-> FirstSeen(k, pools[k])]
  /\ admin = FirstAdmin
  /\ held = [t \in Tokens |-> CASE t = 0 -> 80 [] t = 1 -> 140 [] OTHER -> 50]
  /\ donated = [t \in Tokens |-> 0]
  /\ now = 1 /\ method = "create" /\ calls = 0

RouteNext ==
  \/ SwapNext
  \/ ListingNext
  \/ \E u, v \in Addresses : ChangeOwner(u, v)
  \/ \E u \in Addresses, k \in Keys, d \in FirstDeposits : CreatePool(u, k, d[1], d[2])

RouteSpec == RouteInit /\ [][RouteNext]_vars

=============================================================================
