------------------------------- MODULE Reviews -------------------------------
(***************************************************************************)
(* The distribution of review scores on a product's page                   *)
(* (src/frontend/components/ProductReviews): the percentage of each number *)
(* of stars, rounded so that the percentages add up.                       *)
(*                                                                         *)
(* Reviews come one at a time.  Scores are in tenths of a star, as the     *)
(* reviews table has them; only finite ones are stored.                    *)
(***************************************************************************)
EXTENDS Integers, FiniteSets, Functions

CONSTANTS
  Scores,       \* scores in tenths
  MaxReviews    \* bound on the reviews of a product

VARIABLES
  productReviews,   \* how many reviews there are of each score
  normalizedPercents
reviewVars == <<productReviews, normalizedPercents>>

Stars == 1 .. 5
Rounded(score) == (score + 5) \div 10       \* Math.round, to whole stars
clamp(n) == IF n < 1 THEN 1 ELSE IF n > 5 THEN 5 ELSE n
Total(count) == SumFunction(count)

Distribution(reviews) ==
  [s \in Stars |-> SumFunctionOnSet(reviews, {x \in Scores : clamp(Rounded(x)) = s})]

(* The order of the stars, by falling remainder, in which equal ones stay  *)
(* in place: how many are ahead of one.                                    *)
Ahead(remainder, s, t) ==
  \/ remainder[s] > remainder[t]
  \/ remainder[s] = remainder[t] /\ s < t
Place(remainder, t) == Cardinality({s \in Stars : Ahead(remainder, s, t)})

(* A mutant: every star but those that divide evenly is rounded up.        *)
Percents_RoundUp(distribution, total) ==
  [s \in Stars |-> (100 * distribution[s] + total - 1) \div total]

(* Rounded down, and the points that are missing go to the first of the    *)
(* order, once round.                                                      *)
Percents(distribution, total) ==
  LET floored   == [s \in Stars |-> (100 * distribution[s]) \div total]
      remainder == [s \in Stars |-> (100 * distribution[s]) % total]
      missing   == 100 - Total(floored)
  IN [s \in Stars |-> floored[s] + IF Place(remainder, s) < missing THEN 1 ELSE 0]

Init ==
  /\ productReviews = [x \in Scores |-> 0]
  /\ normalizedPercents = [s \in Stars |-> 0]

Review(x) ==
  LET reviews == [productReviews EXCEPT ![x] = @ + 1] IN
  /\ Total(productReviews) < MaxReviews
  /\ productReviews' = reviews
  /\ normalizedPercents' = Percents(Distribution(reviews), Total(reviews))

Next == \E x \in Scores : Review(x)

Spec == Init /\ [][Next]_reviewVars

-----------------------------------------------------------------------------
(* The percentages on display add up to 100, each is the exact one rounded *)
(* down or up, and more reviews never get the lower percentage.            *)
PercentsAddUp ==
  LET total == Total(productReviews)
      count == Distribution(productReviews)
      shown == normalizedPercents
  IN total > 0 =>
       /\ Total(shown) = 100
       /\ \A s \in Stars :
            shown[s] * total - 100 * count[s] \in -(total - 1) .. total - 1
       /\ \A s, t \in Stars : count[s] > count[t] => shown[s] >= shown[t]

-----------------------------------------------------------------------------
(* The inductive invariant of the proofs.                                  *)
Sound == IsFiniteSet(Scores) /\ Scores \subseteq Int

IInv ==
  /\ productReviews \in [Scores -> Nat]
  /\ Total(productReviews) > 0 =>
       normalizedPercents = Percents(Distribution(productReviews), Total(productReviews))
=============================================================================
