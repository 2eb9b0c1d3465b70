----------------------------- MODULE Algorithms -----------------------------
(***************************************************************************)
(* The algorithms of the modules without variables.  A behaviour is one    *)
(* call: input is what one of them is called with, and never changes.      *)
(***************************************************************************)
EXTENDS Strategies, BlurService, Config

CONSTANTS
    Tokens,         \* the integers of the input file
    Params,         \* the values of the flag -a, which main checks to be > 0
    Images,         \* the decoded images
    SomeKernels,    \* the kernels; <<>> is none
    Types,          \* the types of configurations
    Environments,   \* the environments
    Words, MaxWords \* the words of a name, and how many it may have

ASSUME TokensAssumption == Tokens \subseteq Ints
ASSUME ParamsAssumption == Params \subseteq 1 .. MaxInt
ASSUME ImagesAssumption == \A img \in Images : IsImage(img)
ASSUME KernelsAssumption == \A k \in SomeKernels : k = <<>> \/ IsKernel(k)
ASSUME WordsAssumption == \A word \in Words : IsWord(word)
ASSUME MaxWordsAssumption == MaxWords \in Nat

VARIABLE input

Called(algorithm) == input.algorithm = algorithm

AlgorithmsInit ==
    \/ input \in [algorithm : {"strategies"}, str : Tokens, a : Params]
    \/ input \in [algorithm : {"blur"}, image : Images, kernel : SomeKernels]
    \/ input \in [algorithm : {"load"}, type : Types, env : Environments]
    \/ input \in [algorithm : {"camelToSnake"}, words : UNION {[1 .. n -> Words] : n \in 1 .. MaxWords}]

AlgorithmsNext == UNCHANGED input

AlgorithmsSpec == AlgorithmsInit /\ [][AlgorithmsNext]_input

------------------------------------------------------------------------------
(* Properties *)

(***************************************************************************)
(* The strategies do what their descriptions in process.go say: the next   *)
(* prime and the next Fibonacci number where an int holds them,            *)
(* divisibility by a, and the legs of a right triangle where an int holds  *)
(* the square of its hypotenuse and what ends the search for them.         *)
(***************************************************************************)
StrategiesKeepPromises ==
    Called("strategies") =>
        /\ HasNextPrime(input.str) => NextPrime(input.str, input.a)
        /\ Multiple(input.str, input.a)
        /\ HasNextFibonacci(input.str) => NextFibonacci(input.str, input.a)
        /\ HoldsSquares(input.str) => PythagoreanTriple(input.str, input.a)

(***************************************************************************)
(* Two passes of rounded one-dimensional convolutions blur an image as the *)
(* two-dimensional convolution would, wherever its bounds begin, however   *)
(* small it is against the kernel.                                         *)
(***************************************************************************)
BlurIsConvolution ==
    Called("blur") => IsBlurOf(Blur(input.image, input.kernel), input.image, input.kernel)

(***************************************************************************)
(* What Load leaves in the fields is what Fields, which walks the type on  *)
(* its own, tells its reader to expect of an environment: each field has   *)
(* the value of the variable listed for it, or of the default.  A variable *)
(* changes no field but those listed for it.                               *)
(***************************************************************************)
FieldsTellWhatLoadReads ==
    Called("load") =>
        /\ FieldsTellLoad(input.type, input.env)
        /\ \A v \in DOMAIN input.env : VariableDecidesItsFields(input.type, input.env, v)

(***************************************************************************)
(* The key of a name is its words, so that fields of one struct share a    *)
(* variable only if their names have the same words.  Acronyms in a row,   *)
(* and a word after a digit, are not told apart.                           *)
(***************************************************************************)
KeysTellTheWords == Called("camelToSnake") => SnakeTellsWords(input.words)
==============================================================================
