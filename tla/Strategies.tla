----------------------------- MODULE Strategies -----------------------------
(***************************************************************************)
(* The four computations of lab-2/internal/reader/strategy.go, as          *)
(* operators on an integer of the input file, str, and the program's       *)
(* parameter, a, and what their descriptions in process.go promise.        *)
(*                                                                         *)
(* Sums and squares wrap around as those of Go's int do, whose range is    *)
(* scaled down to -MaxInt - 1 .. MaxInt: past the last prime or Fibonacci  *)
(* number of an int, and for the squares of large numbers, they do what    *)
(* they do.  What the loops compute is told without RECURSIVE operators.   *)
(***************************************************************************)
EXTENDS Integers

CONSTANT MaxInt     \* math.MaxInt

ASSUME MaxIntAssumption == MaxInt \in Nat

Ints == -MaxInt - 1 .. MaxInt

Wrap(k) == ((k + MaxInt + 1) % (2 * (MaxInt + 1))) - (MaxInt + 1)

\* Where a loop that counts upwards stops: the first of these.
First(S) == CHOOSE k \in S : \A n \in S : k <= n

------------------------------------------------------------------------------
(* The code *)

\* Mutant of IsPrime: the root of a square is not tried.
IsPrimeOffByOne(k) ==
    /\ k >= 2
    /\ \E stop \in 2 .. k :
          /\ Wrap(stop * stop) >= k
          /\ \A d \in 2 .. stop - 1 : Wrap(d * d) < k /\ k % d # 0

\* The loop ends at stop; without one it would get to k, which divides k.
IsPrime(k) ==
    /\ k >= 2
    /\ \E stop \in 2 .. k :
          /\ Wrap(stop * stop) > k
          /\ \A d \in 2 .. stop - 1 : Wrap(d * d) <= k /\ k % d # 0

\* The loop from str + 1 upwards, which goes on from the least int.
Strategy1(str, a) ==
    LET Found == {p \in str + 1 .. MaxInt : IsPrime(p)}
    IN  CASE str <= a -> -1
          [] str > a /\ Found # {} -> First(Found)
          [] OTHER -> 2

Strategy2(str, a) == IF str % a = 0 THEN 1 ELSE 0

\* A round of the loop of Strategy3 on f0 and f1, unless it has been left.
FibRound(str, f) == IF f[2] > str THEN f ELSE <<f[2], Wrap(f[1] + f[2])>>

FibLoop(str, rounds) ==
    LET f[n \in Nat] == IF n = 0 THEN <<0, 1>> ELSE FibRound(str, f[n - 1])
    IN  f[rounds]

\* The loop is followed for MaxInt rounds, past the first sum that overflows;
\* 0, which no call returns, stands for one that goes on for longer.
Strategy3(str, a) ==
    LET f1 == FibLoop(str, MaxInt)[2]
    IN  CASE str <= a -> -1
          [] str > a /\ f1 > str -> f1
          [] OTHER -> 0

\* The integer part of the root of rem is a root of it.
IsLeg(x, c2) == \E y \in 0 .. MaxInt : y * y = Wrap(c2 - x * x)

\* The least x at which the loop stops decides; <<>> stands for a loop that
\* does not end.
PythagoreanLegs(hyp) ==
    LET c2 == Wrap(hyp * hyp)
        Stops == {x \in 1 .. MaxInt : Wrap(2 * x * x) >= c2 \/ IsLeg(x, c2)}
        x0 == First(Stops)
    IN  CASE Stops = {} -> <<>>
          [] Stops # {} /\ Wrap(2 * x0 * x0) >= c2 -> <<0, 0>>
          [] OTHER -> <<x0, CHOOSE y \in 0 .. MaxInt : y * y = Wrap(c2 - x0 * x0)>>

Strategy4(str, a) == PythagoreanLegs(str)

------------------------------------------------------------------------------
(* What the descriptions promise *)

Primes == {k \in 2 .. MaxInt : \A d \in 2 .. k - 1 : \A q \in 2 .. k : q * d # k}

\* The least prime above a number that exceeds a.
NextPrime(str, a) ==
    LET p == Strategy1(str, a)
    IN  str > a => p > str /\ p \in Primes /\ \A q \in Primes : q > str => p <= q

\* An int holds one, and the square that ends its trial division.
HasNextPrime(str) == \E p \in Primes, r \in 0 .. str + 1 : p > str /\ p < r * r /\ r * r <= MaxInt

Multiple(str, a) == Strategy2(str, a) = 1 <=> \E q \in Ints : q * a = str

\* The Fibonacci numbers an int can hold: k with a square at 5k^2 + 4 or 5k^2 - 4.
IsSquare(k) == \E r \in 0 .. 3 * MaxInt : r * r = k

Fibonaccis == {k \in 0 .. MaxInt : IsSquare(5 * k * k + 4) \/ IsSquare(5 * k * k - 4)}

\* "next Fibonacci number": the least one above a number that exceeds a.
NextFibonacci(str, a) ==
    LET f == Strategy3(str, a)
    IN  str > a => f > str /\ f \in Fibonaccis /\ \A g \in Fibonaccis : g > str => f <= g

HasNextFibonacci(str) == \E f \in Fibonaccis : f > str

Triples(str) ==
    LET Legs == 1 .. IF str < 0 THEN -str ELSE str
    IN  {t \in Legs \X Legs : t[1] * t[1] + t[2] * t[2] = str * str}

\* The legs of a right triangle with this hypotenuse, exactly when there are any.
PythagoreanTriple(str, a) ==
    IF Triples(str) = {} THEN Strategy4(str, a) = <<0, 0>> ELSE Strategy4(str, a) \in Triples(str)

\* An int holds the square of the hypotenuse and, when there are no legs, the
\* number that ends the search for them.
HoldsSquares(str) ==
    /\ str * str <= MaxInt
    /\ Triples(str) # {} \/ \E x \in 1 .. MaxInt : str * str <= 2 * x * x /\ 2 * x * x <= MaxInt
==============================================================================
