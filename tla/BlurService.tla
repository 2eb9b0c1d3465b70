---------------------------- MODULE BlurService ----------------------------
(***************************************************************************)
(* The convolution of lab-1/internal/service/blur.go.  The Gaussian kernel *)
(* is symmetric, has an odd length of at least five, and is normalised; it *)
(* is a sequence of integer weights here that is divided by its sum, so    *)
(* that the arithmetic is exact, without the rounding errors of float64.   *)
(*                                                                         *)
(* The four channels of a pixel are treated alike and apart: an image has  *)
(* one.  It is a record with the corner of its bounds, its size, and its   *)
(* pixels as a function of their coordinates; what lies outside of the     *)
(* bounds is 0, as for an image of Go.                                     *)
(***************************************************************************)
EXTENDS Integers, Sequences, Functions

Total(f) == SumFunction(f)

At(img, x, y) == IF <<x, y>> \in DOMAIN img.pix THEN img.pix[<<x, y>>] ELSE 0

Pixels(img) == (0 .. img.width - 1) \X (0 .. img.height - 1)

------------------------------------------------------------------------------
(* The code *)

\* gaussianKernel, but for the values of exp: 1 + Ceil(3 sigma) weights to each
\* side of the middle.
Kernels(Weight, Radii) ==
    {k \in UNION {[1 .. 2 * r + 1 -> Weight] : r \in Radii} :
        /\ \A n \in DOMAIN k : k[n] = k[Len(k) + 1 - n]
        /\ \A n \in 1 .. Len(k) \div 2 : k[n] <= k[n + 1]
        /\ k[Len(k) \div 2 + 1] > 0}

clamp(v, min, max) == IF v < min THEN min ELSE IF v > max THEN max ELSE v

\* uint8(v + 0.5), for the v that is this sum over the sum of the kernel.
Rounded(sum, kernel) == (2 * sum + Total(kernel)) \div (2 * Total(kernel))

\* Mutant of convolveX: the corner of the bounds is forgotten.
convolveXAtZero(src, kernel, x, y) ==
    LET radius == Len(kernel) \div 2
        kx(k) == clamp(x + k - 1 - radius, 0, src.width - 1)
    IN  Rounded(Total([k \in DOMAIN kernel |-> At(src, kx(k), y) * kernel[k]]), kernel)

convolveX(src, kernel, x, y) ==
    LET radius == Len(kernel) \div 2
        kx(k) == clamp(x + k - 1 - radius, 0, src.width - 1)
    IN  Rounded(Total([k \in DOMAIN kernel |->
                        At(src, src.minX + kx(k), src.minY + y) * kernel[k]]), kernel)

\* Its source is horizontal, whose corner is at 0; the bounds are those of src.
convolveY(horizontal, src, kernel, x, y) ==
    LET radius == Len(kernel) \div 2
        ky(k) == clamp(y + k - 1 - radius, 0, src.height - 1)
    IN  Rounded(Total([k \in DOMAIN kernel |-> At(horizontal, x, ky(k)) * kernel[k]]), kernel)

blur2D(src, kernel) ==
    LET horizontal == [src EXCEPT !.minX = 0, !.minY = 0,
                                  !.pix = [p \in Pixels(src) |-> convolveX(src, kernel, p[1], p[2])]]
    IN  [horizontal EXCEPT !.pix =
            [p \in Pixels(src) |-> convolveY(horizontal, src, kernel, p[1], p[2])]]

\* A copy whose corner is at 0.
colorImage(src) ==
    [src EXCEPT !.minX = 0, !.minY = 0,
                !.pix = [p \in Pixels(src) |-> At(src, src.minX + p[1], src.minY + p[2])]]

\* The kernel is that of sigma; <<>> stands for a sigma that is not positive.
\* The images are never nil: of a nil one Blur would take the field img.Img.
Blur(img, kernel) == IF kernel = <<>> THEN colorImage(img) ELSE blur2D(img, kernel)

------------------------------------------------------------------------------
(* What a Gaussian blur is *)

\* What decoded images and kernels are like.
IsImage(img) ==
    /\ img \in [minX : Int, minY : Int, width : Nat \ {0}, height : Nat \ {0}, pix : {img.pix}]
    /\ DOMAIN img.pix = (img.minX .. img.minX + img.width - 1)
                         \X (img.minY .. img.minY + img.height - 1)
    /\ \A p \in DOMAIN img.pix : img.pix[p] \in Nat

IsKernel(kernel) ==
    /\ kernel \in Seq(Nat) /\ Len(kernel) % 2 = 1
    /\ kernel[Len(kernel) \div 2 + 1] > 0

\* The pixel of src that is nearest to the one at that distance from p.
Nearest(src, p, dx, dy) ==
    LET Square(n) == n * n
        Far(q) == Square(q[1] - p[1] - dx) + Square(q[2] - p[2] - dy)
        q == CHOOSE q \in Pixels(src) : \A o \in Pixels(src) : Far(q) <= Far(o)
    IN  src.pix[<<src.minX + q[1], src.minY + q[2]>>]

\* The weighted mean over a square, times the square of Total(kernel).
MeanAround(src, kernel, p) ==
    LET radius == Len(kernel) \div 2
    IN  Total([d \in (DOMAIN kernel) \X (DOMAIN kernel) |->
                kernel[d[1]] * kernel[d[2]]
                  * Nearest(src, p, d[1] - 1 - radius, d[2] - 1 - radius)])

Neighbours(src, kernel, p) ==
    LET radius == Len(kernel) \div 2
    IN  {src.pix[<<src.minX + q[1], src.minY + q[2]>>] :
            q \in {q \in Pixels(src) : /\ q[1] - p[1] \in -radius .. radius
                                       /\ q[2] - p[2] \in -radius .. radius}}

\* The two passes round twice, and yet every pixel of the result is within one
\* of the mean over the square around it, and no darker or lighter than all of
\* its neighbours, wherever the bounds of the image begin.
IsBlurOf(result, src, weights) ==
    LET kernel == IF weights = <<>> THEN <<1>> ELSE weights IN
    /\ result.width = src.width /\ result.height = src.height
    /\ DOMAIN result.pix = Pixels(src)
    /\ \A p \in Pixels(src) :
          LET total == Total(kernel) * Total(kernel)
              off == result.pix[p] * total - MeanAround(src, kernel, p)
          IN  /\ off \in -total .. total
              /\ \E low, high \in Neighbours(src, kernel, p) : low <= result.pix[p] /\ result.pix[p] <= high
==============================================================================
