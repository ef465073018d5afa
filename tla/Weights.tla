------------------------------ MODULE Weights ------------------------------
(***************************************************************************)
(* pkg/converters/utils/lbweight.go and the blue/green balance of          *)
(* annotations/backend.go: the weights of groups of servers become weights *)
(* of servers.  The code divides float32 values and truncates the result,  *)
(* so the arithmetic is the one of float32: a positive number is m * 2^e   *)
(* with m a natural number of 24 bits, and every operation rounds to the   *)
(* nearest, ties to even.  Integers stay below 2^31.                       *)
(***************************************************************************)
EXTENDS Integers, Sequences, FiniteSets, SequencesExt

Float(m, e) == [m |-> m, e |-> e]
Zero == Float(0, 0)
Bits == 2^24

\* To the nearest, the even one of two.  up and more tell what was cut off m: the
\* bit after its last one, and whether there was something else.
RoundedUp(m, e, up, more) == Float(IF up /\ (more \/ m % 2 = 1) THEN m + 1 ELSE m, e)

\* n * 2^e without its last k bits.
Cut(n, k, e, half, rest) ==
    RoundedUp(n \div 2^k, e + k, IF k = 0 THEN half ELSE (n % 2^k) >= 2^(k - 1),
              rest \/ (k > 0 /\ (half \/ (n % 2^k) % 2^(k - 1) # 0)))

\* n * 2^e rounded.  half and rest tell what was already cut off n.
Rounded(n, e, half, rest) ==
    Cut(n, IF n < Bits THEN 0 ELSE CHOOSE k \in 1..7 : n \div 2^k \in (2^23)..(Bits - 1),
        e, half, rest)

\* The same number with all its bits.
Normal(x) ==
    LET k == CHOOSE k \in 0..23 : x.m < 2^(24 - k) /\ x.m >= 2^(23 - k)
    IN  IF x.m = 0 THEN Zero
        ELSE IF x.m = Bits THEN Float(Bits \div 2, x.e + 1) ELSE Float(x.m * 2^k, x.e - k)

float32(n) == Normal(Float(n, 0))

\* x * float32(k), for a k of at most 13 bits: in two parts if it has 8 or more.
Times(x, k) ==
    LET inParts(low) == Rounded((x.m \div 128) * k + low \div 128, x.e + 7,
                                low % 128 >= 64, low % 64 # 0)
    IN  Normal(IF k < 128 THEN Rounded(x.m * k, x.e, FALSE, FALSE) ELSE inParts((x.m % 128) * k))

\* The quotient, seven bits at a time; four bits more than a float32 has.
Over(x, y) ==
    LET more(a) == [q |-> a.q * 128 + (a.r * 128) \div y.m, r |-> (a.r * 128) % y.m]
        rounded(a) == Rounded(a.q, x.e - y.e - 28, FALSE, a.r # 0)
    IN  IF x.m = 0 THEN Zero
        ELSE Normal(rounded(more(more(more(more([q |-> x.m \div y.m, r |-> x.m % y.m]))))))

\* int(x): x is not negative and below 2^31.
int(x) == IF x.e >= 0 THEN x.m * 2^x.e ELSE IF x.e < -24 THEN 0 ELSE x.m \div 2^(-x.e)

AboveOne(x) == int(x) >= 2 \/ (int(x) = 1 /\ x # float32(1))

-----------------------------------------------------------------------------
RECURSIVE gcd(_, _)
gcd(a, b) == IF b = 0 THEN a ELSE gcd(b, a % b)

lcm(a, b) == a * (b \div gcd(a, b))

\* A WeightCluster is the weight of a group and the number of its servers.
lcmCount(clusters) ==
    FoldLeft(LAMBDA n, cl : IF cl.length = 0 THEN n
                            ELSE IF n > 0 THEN lcm(n, cl.length) ELSE cl.length,
             0, clusters)

\* The weights of the groups that count, over a common number of servers.
clusterWeights(clusters) ==
    LET count == lcmCount(clusters)
        used == SelectSeq(clusters, LAMBDA cl : cl.length > 0 /\ cl.weight > 0)
    IN  [n \in DOMAIN used |-> (used[n].weight * count) \div used[n].length]

\* Mutation: the weights are not limited to 256.
LimitedNot(cl, weight, factor) == int(weight)

\* The limit of 256, for the largest weight and for the others in proportion.
Limited(cl, weight, factor) ==
    LET atLeastOne(w) == IF w = 0 /\ cl.weight > 0 THEN 1 ELSE w
    IN  IF AboveOne(factor) THEN atLeastOne(int(Over(weight, factor))) ELSE int(weight)

\* The last loop of RebalanceWeight.  The weight of a group without servers is a
\* division by zero that nobody reads.
serverWeights(clusters, common, factorMin, factor) ==
    [n \in DOMAIN clusters |->
       IF clusters[n].length = 0 THEN 0
       ELSE Limited(clusters[n],
                    Over(Times(factorMin, clusters[n].weight * lcmCount(clusters)),
                         float32(clusters[n].length * common)), factor)]

\* most is the largest of the weights of the groups.
withMinimum(clusters, common, factorMin, most) ==
    serverWeights(clusters, common, factorMin, Over(Times(factorMin, most), float32(256 * common)))

\* common is the greatest common divisor of the weights of the groups.
withWeights(clusters, initialWeight, weights, common) ==
    withMinimum(clusters, common,
                Over(float32(initialWeight * common), float32(Min(Range(weights)))),
                Max(Range(weights)))

\* RebalanceWeight: the weight of a server of each group.
RebalanceWeight(clusters, initialWeight) ==
    LET rebalanced(weights) ==
            IF weights = <<>> THEN [n \in DOMAIN clusters |-> clusters[n].weight]
            ELSE withWeights(clusters, initialWeight, weights, FoldLeft(gcd, 0, weights))
    IN  rebalanced(clusterWeights(clusters))

-----------------------------------------------------------------------------
(* The blue/green balance: groups of pods that have a label.  A server is  *)
(* the group its pod belongs to, or None, and its weight.                  *)

Clamped(w) == IF w < 0 THEN 0 ELSE IF w > 256 THEN 256 ELSE w

\* buildBackendBlueGreenBalance.  balance is the sequence of the weights of the
\* groups 1, 2..., servers is a sequence of groups, 0 is a pod without a label
\* or an endpoint without a pod; draining ones keep the weight 0.
buildBackendBlueGreenBalance(balance, mode, initialWeight, servers, draining) ==
    LET size(g) == Cardinality({n \in DOMAIN servers : servers[n] = g /\ n \notin draining})
        clusters == [g \in DOMAIN balance |->
                       [weight |-> Clamped(balance[g]), length |-> size(g)]]
        applied(weights) ==
            [n \in DOMAIN servers |->
               IF n \in draining \/ servers[n] = 0 THEN 0 ELSE weights[servers[n]]]
    IN  applied(IF mode = "pod" THEN [g \in DOMAIN balance |-> clusters[g].weight]
                ELSE RebalanceWeight(clusters, initialWeight))
=============================================================================
