------------------------------ MODULE NegRiskMC ------------------------------
(* The neg-risk engine for TLC: the account on one event of three tokens with six looks at  *)
(* its books, and the execution of one basket.  They share no state, so each behaviour runs *)
(* the one or the other.                                                                    *)
EXTENDS NegRiskAccount, BasketExecution, TLC
CONSTANTS a, b, o

Look(qa, qb, qo, age) == (a :> [quote |-> qa, age |-> age]) @@ (b :> [quote |-> qb, age |-> 0])
                         @@ (o :> [quote |-> qo, age |-> 0])
MCBooks ==
    { Look(<<1, 2>>, <<1, 2>>, <<2, 3>>, 0),      \* the asks leave a long basket
      Look(<<1, 2>>, <<1, 2>>, <<2, 3>>, 2),      \* the same, with one book too old for the others
      Look(<<0, 2>>, <<1, 2>>, <<2, 3>>, 0),      \* no bid for one token
      Look(<<1, 2>>, <<2, 3>>, <<3, 4>>, 0),      \* nothing to arbitrate, the maker buys
      Look(<<4, 5>>, <<3, 4>>, <<6, 7>>, 0),      \* the bids leave a short basket, the maker sells
      Look(<<2, 0>>, <<0, 3>>, <<3, 5>>, 0) }     \* two sides empty

NoBasket  == ExecInit /\ basket = CHOOSE k \in Orders : TRUE
NoAccount == acct = Blank /\ shown = [closed |-> FALSE, winner |-> NoWinner]
EitherNext ==
    \/ NoBasket /\ AcctNext /\ UNCHANGED execVars
    \/ NoAccount /\ ExecNext /\ UNCHANGED acctVars
EitherInit == AcctInit /\ ExecInit
EitherSpec == EitherInit /\ [][EitherNext]_<<acctVars, execVars>>
=============================================================================
