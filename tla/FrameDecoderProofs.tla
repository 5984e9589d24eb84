------------------------- MODULE FrameDecoderProofs -------------------------
(***************************************************************************)
(* Frames of any length, with any number of segments of any size, from any *)
(* camera: the parser stays inside them and takes the whole ones only, a   *)
(* frame is decoded with its own tables, the codes made of them can be     *)
(* read, and both engines stay inside the planes of the frame buffers      *)
(* while the frames are like the first one, for every size that the        *)
(* padding suffices for.                                                   *)
(***************************************************************************)
EXTENDS FrameDecoder, WellFoundedInduction, TLAPS

-----------------------------------------------------------------------------
(* The layout of the frame buffers, for every size of picture. *)

(* Padding by one bit never loses a byte: x or x + m. *)
LEMMA PaddedTwoWays ==
    ASSUME NEW x \in Nat, NEW m \in Nat \ {0}
    PROVE  Padded(x, m) \in {x, x + m} /\ Padded(x, m) \in Nat /\ Padded(x, m) >= x
  BY DEF Padded, ClearBit

LEMMA ProductMonotone ==
    ASSUME NEW a \in Nat, NEW b \in Nat, NEW c \in Nat, NEW d \in Nat, a <= c, b <= d
    PROVE  a * b <= c * d
  <1>1. a * b <= c * b
    <2>1. PICK k \in Nat : c = a + k
      BY c - a \in Nat, c = a + (c - a)
    <2>2. c * b = a * b + k * b
      BY <2>1
    <2>3. k * b \in Nat
      OBVIOUS
    <2> QED BY <2>2, <2>3
  <1>2. c * b <= c * d
    <2>1. PICK k \in Nat : d = b + k
      BY d - b \in Nat, d = b + (d - b)
    <2>2. c * d = c * b + c * k
      BY <2>1
    <2>3. c * k \in Nat
      OBVIOUS
    <2> QED BY <2>2, <2>3
  <1> QED BY <1>1, <1>2

LEMMA HalfBounds ==
    ASSUME NEW x \in Nat
    PROVE  x \div 2 \in Nat /\ 2 * (x \div 2) <= x
  OBVIOUS

LEMMA LumaPlane ==
    ASSUME NEW w \in Nat, NEW h \in Nat
    PROVE  u_offset(w, h) \in Nat /\ w * h <= u_offset(w, h)
  <1>1. w_aligned(w) \in Nat /\ w_aligned(w) >= w
    BY PaddedTwoWays DEF w_aligned
  <1>2. h_aligned(h) \in Nat /\ h_aligned(h) >= h
    BY PaddedTwoWays DEF h_aligned
  <1>3. w * h <= w_aligned(w) * h_aligned(h)
    BY <1>1, <1>2, ProductMonotone
  <1>4. w_aligned(w) * h_aligned(h) \in Nat
    BY <1>1, <1>2
  <1>5. /\ u_offset(w, h) \in Nat
        /\ u_offset(w, h) >= w_aligned(w) * h_aligned(h)
    BY <1>4, PaddedTwoWays, GeometryAssumption DEF u_offset
  <1>6. w * h \in Nat
    OBVIOUS
  <1> HIDE DEF u_offset
  <1> QED BY <1>3, <1>4, <1>5, <1>6

LEMMA ChromaPlane ==
    ASSUME NEW w \in Nat, NEW h \in Nat, NEW f \in PixelFormats
    PROVE  /\ u_size(w, h, f) \in Nat
           /\ u_offset(w, h) \div subsampling_divisor(f) <= u_size(w, h, f)
           /\ ScannedChroma(w, h, f, f) <= u_size(w, h, f)
  <1> DEFINE u == u_offset(w, h)
             q == u \div subsampling_divisor(f)
  <1>1. u \in Nat /\ w * h <= u
    BY LumaPlane
  <1>2. q \in Nat /\ ScannedChroma(w, h, f, f) \in Nat /\ ScannedChroma(w, h, f, f) <= q
    <2> HIDE DEF u
    <2>1. CASE f = <<1, 1>>
      BY <2>1, <1>1 DEF ScannedChroma, chroma_pitches_divisor, subsampling_divisor
    <2>2. CASE f = <<2, 1>>
      <3> DEFINE a == w \div 2
      <3>1. a \in Nat /\ 2 * a <= w
        BY HalfBounds
      <3>2. ScannedChroma(w, h, f, f) = a * h
        BY <2>2 DEF ScannedChroma, chroma_pitches_divisor
      <3> HIDE DEF a
      <3>3. 2 * a * h <= w * h
        BY <3>1, ProductMonotone
      <3>4. PICK n \in Nat : n = a * h
        BY <3>1
      <3>5. 2 * n <= u
        BY <3>1, <3>3, <3>4, <1>1
      <3>6. n <= u \div 2
        BY <3>5, <1>1
      <3> QED BY <3>2, <3>4, <3>6, <2>2, <1>1 DEF subsampling_divisor
    <2>3. CASE f = <<2, 2>>
      <3> DEFINE a == w \div 2
                 b == h \div 2
      <3>1. a \in Nat /\ 2 * a <= w /\ b \in Nat /\ 2 * b <= h
        BY HalfBounds
      <3>2. ScannedChroma(w, h, f, f) = a * b
        BY <2>3 DEF ScannedChroma, chroma_pitches_divisor
      <3> HIDE DEF a, b
      <3>3. (2 * a) * (2 * b) <= w * h
        BY <3>1, ProductMonotone
      <3>4. PICK n \in Nat : n = a * b
        BY <3>1
      <3>5. (2 * a) * (2 * b) = 4 * n
        BY <3>1, <3>4
      <3>6. 4 * n <= u
        BY <3>3, <3>5, <1>1
      <3>7. n <= u \div 4
        BY <3>6, <1>1
      <3> QED BY <3>2, <3>4, <3>7, <2>3, <1>1 DEF subsampling_divisor
    <2> QED BY <2>1, <2>2, <2>3 DEF PixelFormats
  <1>3. u_size(w, h, f) = Padded(q, PAGE_SIZE)
    BY DEF u_size
  <1> HIDE DEF q
  <1>4. u_size(w, h, f) \in Nat /\ u_size(w, h, f) >= q
    BY <1>2, <1>3, PaddedTwoWays, GeometryAssumption
  <1>5. q <= u_size(w, h, f)
    BY <1>4
  <1> QED BY <1>2, <1>4, <1>5 DEF q

(* Whatever the size of the picture, every byte that the display engine reads of a
   plane is inside that plane's part of the buffer (display.c:664-677, 713-719). *)
THEOREM ScanoutFits ==
    ASSUME NEW w \in Nat, NEW h \in Nat, NEW f \in PixelFormats
    PROVE  ScanoutInside(w, h, f, f)
  <1>1. ScannedLuma(w, h) <= u_offset(w, h) /\ u_offset(w, h) \in Nat
    BY LumaPlane DEF ScannedLuma
  <1>2. u_size(w, h, f) \in Nat /\ ScannedChroma(w, h, f, f) <= u_size(w, h, f)
    BY ChromaPlane
  <1>3. v_offset(w, h, f) + u_size(w, h, f) \in Nat
    BY <1>1, <1>2 DEF v_offset
  <1>4. buffer_size(w, h, f) >= v_offset(w, h, f) + u_size(w, h, f)
    BY <1>3, PaddedTwoWays, GeometryAssumption DEF buffer_size
  <1>5. buffer_size(w, h, f) \in Nat
    BY <1>3, PaddedTwoWays, GeometryAssumption DEF buffer_size
  <1> QED BY <1>1, <1>2, <1>3, <1>4, <1>5 DEF ScanoutInside

(* Rounding up to the multiple that the video engine writes stays below the padded
   size where there is nothing to round or the cleared bit was not set. *)
LEMMA StrideFits ==
    ASSUME NEW x \in Nat, x % 32 = 0 \/ (x \div 32) % 2 = 1
    PROVE  line_stride(x) \in Nat /\ line_stride(x) <= w_aligned(x)
  <1>1. CASE x % 32 = 0
    <2>1. line_stride(x) = x
      BY <1>1 DEF line_stride, RoundUp
    <2>2. w_aligned(x) >= x
      BY PaddedTwoWays DEF w_aligned
    <2>3. w_aligned(x) \in Nat
      BY PaddedTwoWays DEF w_aligned
    <2> QED BY <2>1, <2>2, <2>3
  <1>2. CASE (x \div 32) % 2 = 1
    <2>1. w_aligned(x) = x + 32
      BY <1>2 DEF w_aligned, Padded, ClearBit
    <2>2. line_stride(x) \in Nat /\ line_stride(x) <= x + 31
      BY DEF line_stride, RoundUp
    <2> QED BY <2>1, <2>2
  <1> QED BY <1>1, <1>2

LEMMA RowsFit ==
    ASSUME NEW h \in Nat \ {0}, NEW v \in {1, 2},
           h % 16 = 0 \/ (h \div 32) % 2 = 1
    PROVE  /\ (8 * v) * ((h - 1) \div (8 * v) + 1) \in Nat
           /\ (8 * v) * ((h - 1) \div (8 * v) + 1) <= h_aligned(h)
  <1> DEFINE rows == (8 * v) * ((h - 1) \div (8 * v) + 1)
  <1>1. rows \in Nat /\ rows <= h + 15
    <2>1. CASE v = 1
      BY <2>1
    <2>2. CASE v = 2
      BY <2>2
    <2> QED BY <2>1, <2>2
  <1>2. CASE h % 16 = 0
    <2>1. rows = h
      <3>1. CASE v = 1
        BY <1>2, <3>1
      <3>2. CASE v = 2
        BY <1>2, <3>2
      <3> QED BY <3>1, <3>2
    <2>2. h_aligned(h) >= h /\ h_aligned(h) \in Nat
      BY PaddedTwoWays DEF h_aligned
    <2> HIDE DEF rows
    <2>3. rows <= h_aligned(h)
      BY <2>1, <2>2
    <2> QED BY <1>1, <2>3 DEF rows
  <1>3. CASE (h \div 32) % 2 = 1
    <2>1. h_aligned(h) = h + 32
      BY <1>3 DEF h_aligned, Padded, ClearBit
    <2> HIDE DEF rows
    <2>2. rows <= h_aligned(h)
      BY <1>1, <2>1
    <2> QED BY <1>1, <2>2 DEF rows
  <1> QED BY <1>2, <1>3

LEMMA StrideGrows ==
    ASSUME NEW x \in Nat, NEW w \in Nat, x <= w
    PROVE  line_stride(x) \in Nat /\ line_stride(w) \in Nat /\ line_stride(x) <= line_stride(w)
  BY DEF line_stride, RoundUp

LEMMA RowsGrow ==
    ASSUME NEW y \in Nat \ {0}, NEW h \in Nat \ {0}, y <= h, NEW v \in {1, 2}
    PROVE  /\ (y - 1) \div (8 * v) \in Nat
           /\ (8 * v) * ((y - 1) \div (8 * v) + 1) \in Nat
           /\ (8 * v) * ((y - 1) \div (8 * v) + 1) <= (8 * v) * ((h - 1) \div (8 * v) + 1)
  <1>1. CASE v = 1
    BY <1>1
  <1>2. CASE v = 2
    BY <1>2
  <1> QED BY <1>1, <1>2

(* The luma of a picture no larger than the layout's. *)
LEMMA LumaFits ==
    ASSUME NEW w \in Nat \ {0}, NEW h \in Nat \ {0}, PaddingSuffices(w, h),
           NEW x \in Nat \ {0}, NEW y \in Nat \ {0}, x <= w, y <= h,
           NEW f \in PixelFormats \cup {<<1, 2>>}
    PROVE  WrittenLuma(x, y, f, f) <= u_offset(w, h)
  <1> DEFINE n == (y - 1) \div (8 * f[2]) + 1
             rows == (8 * f[2]) * n
             all == (8 * f[2]) * ((h - 1) \div (8 * f[2]) + 1)
  <1>1. f[2] \in {1, 2}
    BY DEF PixelFormats
  <1>2. line_stride(x) \in Nat /\ line_stride(x) <= w_aligned(w)
    <2>1. line_stride(w) \in Nat /\ line_stride(w) <= w_aligned(w)
      BY StrideFits DEF PaddingSuffices
    <2>2. line_stride(x) \in Nat /\ line_stride(x) <= line_stride(w)
      BY StrideGrows
    <2>3. w_aligned(w) \in Nat
      BY PaddedTwoWays DEF w_aligned
    <2> QED BY <2>1, <2>2, <2>3
  <1>3. n \in Nat /\ rows \in Nat /\ rows <= h_aligned(h)
    <2>1. (y - 1) \div (8 * f[2]) \in Nat /\ rows \in Nat /\ rows <= all
      BY <1>1, RowsGrow
    <2>2. all \in Nat /\ all <= h_aligned(h)
      BY <1>1, RowsFit DEF PaddingSuffices
    <2>3. h_aligned(h) \in Nat
      BY PaddedTwoWays DEF h_aligned
    <2>4. n \in Nat
      BY <2>1
    <2> HIDE DEF n, rows, all
    <2> QED BY <2>1, <2>2, <2>3, <2>4
  <1>4. w_aligned(w) \in Nat /\ h_aligned(h) \in Nat
    BY PaddedTwoWays DEF w_aligned, h_aligned
  <1>5. /\ line_stride(x) * rows <= w_aligned(w) * h_aligned(h)
        /\ line_stride(x) * rows \in Nat /\ w_aligned(w) * h_aligned(h) \in Nat
    <2> HIDE DEF rows
    <2> QED BY <1>2, <1>3, <1>4, ProductMonotone
  <1>6. /\ u_offset(w, h) \in Nat
        /\ u_offset(w, h) >= w_aligned(w) * h_aligned(h)
    BY <1>5, PaddedTwoWays, GeometryAssumption DEF u_offset
  <1>7. WrittenLuma(x, y, f, f) = line_stride(x) * rows
    <2>1. WrittenLuma(x, y, f, f) = line_stride(x) * (8 * f[2]) * n
      BY DEF WrittenLuma, SizeRegister
    <2> HIDE DEF n
    <2> QED BY <1>1, <1>2, <1>3, <2>1
  <1> HIDE DEF n, rows, all
  <1> QED BY <1>5, <1>6, <1>7

(* The chroma of a plane is the luma divided by at least the divisor that made the size
   of the chroma plane. *)
LEMMA ChromaDivides ==
    ASSUME NEW a \in Nat, NEW n \in Nat, NEW f \in PixelFormats
    PROVE  /\ (a \div f[1]) * 8 * n \in Nat
           /\ subsampling_divisor(f) * ((a \div f[1]) * 8 * n) <= a * (8 * f[2]) * n
  <1>1. CASE f[1] = 1
    BY <1>1 DEF PixelFormats, subsampling_divisor
  <1>2. CASE f[1] = 2
    <2> DEFINE b == a \div 2
    <2>1. b \in Nat /\ 2 * b <= a
      BY HalfBounds
    <2>2. f[2] \in {1, 2} /\ subsampling_divisor(f) = 2 * f[2]
      BY <1>2 DEF PixelFormats, subsampling_divisor
    <2> HIDE DEF b
    <2>3. PICK c \in Nat : c = (8 * f[2]) * n
      BY <2>2
    <2>4. (2 * b) * c <= a * c
      BY <2>1, <2>3, ProductMonotone
    <2>5. subsampling_divisor(f) * (b * 8 * n) = (2 * b) * c
      <3>1. CASE f[2] = 1
        BY <2>1, <2>2, <2>3, <3>1
      <3>2. CASE f[2] = 2
        BY <2>1, <2>2, <2>3, <3>2
      <3> QED BY <2>2, <3>1, <3>2
    <2>6. a * (8 * f[2]) * n = a * c
      BY <2>2, <2>3
    <2>7. b * 8 * n \in Nat
      BY <2>1
    <2> QED BY <1>2, <2>4, <2>5, <2>6, <2>7 DEF b
  <1> QED BY <1>1, <1>2 DEF PixelFormats

(* A picture whose luma ends before the U plane has its U end before the V plane and its
   V before the end of the buffer, whatever the sizes of picture and layout
   (display.c:667-679; jpeg_dec_main.c:141-146, 214-228). *)
THEOREM ChromaFollowsLuma ==
    ASSUME NEW w \in Nat, NEW h \in Nat, NEW x \in Nat, NEW y \in Nat \ {0},
           NEW f \in PixelFormats, WrittenLuma(x, y, f, f) <= u_offset(w, h)
    PROVE  /\ u_offset(w, h) + WrittenChroma(x, y, f, f) <= v_offset(w, h, f)
           /\ v_offset(w, h, f) + WrittenChroma(x, y, f, f) <= buffer_size(w, h, f)
  <1> DEFINE n == (y - 1) \div (8 * f[2]) + 1
             a == line_stride(x)
             chroma == (a \div f[1]) * 8 * n
             luma == a * (8 * f[2]) * n
             d == subsampling_divisor(f)
             u == u_offset(w, h)
             size == u_size(w, h, f)
  <1>1. a \in Nat
    BY StrideGrows
  <1>2. n \in Nat
    <2>1. f[2] \in {1, 2}
      BY DEF PixelFormats
    <2>2. (y - 1) \div (8 * f[2]) \in Nat
      BY <2>1, RowsGrow
    <2> QED BY <2>2
  <1>3. WrittenChroma(x, y, f, f) = chroma /\ WrittenLuma(x, y, f, f) = luma
    BY DEF WrittenChroma, WrittenLuma, SizeRegister
  <1>4. chroma \in Nat /\ d * chroma <= luma
    <2> HIDE DEF a, n
    <2> QED BY <1>1, <1>2, ChromaDivides
  <1>5. luma \in Nat
    <2>1. f[2] \in {1, 2}
      BY DEF PixelFormats
    <2> HIDE DEF a, n
    <2> QED BY <1>1, <1>2, <2>1
  <1>6. u \in Nat /\ size \in Nat /\ u \div d <= size
    BY LumaPlane, ChromaPlane
  <1>7. d \in {1, 2, 4}
    BY DEF PixelFormats, subsampling_divisor
  <1>8. luma <= u
    BY <1>3
  <1>9. chroma <= size
    <2> HIDE DEF chroma, luma, d, u, size
    <2>1. CASE d = 1
      BY <1>4, <1>5, <1>6, <1>8, <2>1
    <2>2. CASE d = 2
      BY <1>4, <1>5, <1>6, <1>8, <2>2
    <2>3. CASE d = 4
      BY <1>4, <1>5, <1>6, <1>8, <2>3
    <2> QED BY <1>7, <2>1, <2>2, <2>3
  <1>10. v_offset(w, h, f) = u + size
    BY DEF v_offset
  <1>11. buffer_size(w, h, f) \in Nat /\ buffer_size(w, h, f) >= u + size + size
    <2>1. u + size + size \in Nat
      BY <1>6
    <2>2. buffer_size(w, h, f) = Padded(u + size + size, PAGE_SIZE)
      BY <1>10 DEF buffer_size
    <2> HIDE DEF u, size
    <2> QED BY <2>1, <2>2, PaddedTwoWays, GeometryAssumption
  <1> HIDE DEF chroma, u, size
  <1> QED BY <1>3, <1>4, <1>6, <1>9, <1>10, <1>11 DEF u

(* Every picture like the layout's or smaller that the engine decodes with the registers
   of its own subsampling, whole macroblocks in every direction, stays inside its three
   planes, for every layout that the padding suffices for (display.c:664-679;
   jpeg_dec_main.c:141-146, 214-228). *)
THEOREM PictureFits ==
    ASSUME NEW buffers, NEW picture,
           buffers.width \in Nat \ {0}, buffers.height \in Nat \ {0},
           buffers.samp \in PixelFormats \cup {<<1, 2>>},
           PaddingSuffices(buffers.width, buffers.height),
           picture.width \in Nat \ {0}, picture.height \in Nat \ {0},
           picture.samp = buffers.samp,
           picture.width <= buffers.width, picture.height <= buffers.height
    PROVE  VideoInside(buffers, picture, picture.samp)
  <1> DEFINE w == buffers.width
             h == buffers.height
             x == picture.width
             y == picture.height
             f == buffers.samp
  <1> HIDE DEF w, h, x, y, f
  <1>1. /\ w \in Nat \ {0} /\ h \in Nat \ {0} /\ PaddingSuffices(w, h)
        /\ x \in Nat \ {0} /\ y \in Nat \ {0} /\ x <= w /\ y <= h
        /\ f \in PixelFormats \cup {<<1, 2>>} /\ picture.samp = f
    BY DEF w, h, x, y, f
  <1>2. WrittenLuma(x, y, f, f) <= u_offset(w, h)
    BY <1>1, LumaFits
  <1>3. f \in PixelFormats =>
           /\ u_offset(w, h) + WrittenChroma(x, y, f, f) <= v_offset(w, h, f)
           /\ v_offset(w, h, f) + WrittenChroma(x, y, f, f) <= buffer_size(w, h, f)
    BY <1>1, <1>2, ChromaFollowsLuma
  <1> QED BY <1>1, <1>2, <1>3 DEF VideoInside, w, h, x, y, f

-----------------------------------------------------------------------------
(* The parser. *)

LEMMA Constants ==
    /\ Lengths \subseteq Nat
    /\ \A seg \in Segments : seg.fill \in Nat /\ seg.len \in Nat /\ seg.len >= 2
  BY FrameDecoderAssumption

LEMMA LeastNumber ==
    ASSUME NEW T, T \subseteq Nat, T # {}
    PROVE  \E x \in T : \A y \in T : x <= y
<1> DEFINE Less == {ss \in Nat \X Nat : ss[1] < ss[2]}
<1>1. IsWellFoundedOn(Less, Nat)
  BY NatLessThanWellFounded, Zenon DEF OpToRel
<1>2. PICK x \in T : \A y \in T : <<y, x>> \notin Less
  <2> HIDE DEF Less
  <2> QED
    BY <1>1, WFMin, Zenon
<1>3. \A y \in T : ~(y < x)
  BY <1>2
<1> QED
  BY <1>3

LEMMA GreatestNumber ==
    ASSUME NEW n \in Nat, NEW T, T \subseteq 1..n, T # {}
    PROVE  \E x \in T : \A y \in T : y <= x
<1> DEFINE R == {n - y : y \in T}
<1>1. R \subseteq Nat /\ R # {}
  <2>1. PICK y \in T : TRUE
    OBVIOUS
  <2>2. n - y \in R
    BY <2>1
  <2>3. R \subseteq Nat
    OBVIOUS
  <2> HIDE DEF R
  <2> QED
    BY <2>2, <2>3
<1>2. PICK r \in R : \A s \in R : r <= s
  <2> HIDE DEF R
  <2> QED
    BY <1>1, LeastNumber
<1>3. PICK x \in T : r = n - x
  BY <1>2
<1>4. \A y \in T : n - x <= n - y
  BY <1>2, <1>3
<1> QED
  BY <1>4

(* What PointAt makes of the pointers: where a table of that number was found, the
   last such. *)
FoundAt(ids, id) == {k \in DOMAIN ids : ids[k] = id}

LEMMA Pointed ==
    ASSUME NEW pointers, NEW ids, NEW n, NEW m \in Nat, DOMAIN ids \subseteq 1..m,
           NEW id \in DOMAIN pointers
    PROVE  /\ FoundAt(ids, id) = {} => PointAt(pointers, ids, n)[id] = pointers[id]
           /\ FoundAt(ids, id) # {} =>
                 \E k \in FoundAt(ids, id) :
                    /\ PointAt(pointers, ids, n)[id] = <<n, k>>
                    /\ \A l \in FoundAt(ids, id) : l <= k
<1> DEFINE found == FoundAt(ids, id)
           k == CHOOSE k \in found : \A l \in found : l <= k
<1>1. PointAt(pointers, ids, n)[id] = IF found = {} THEN pointers[id] ELSE <<n, k>>
  BY Zenon DEF PointAt, FoundAt
<1>2. found \subseteq 1..m
  BY DEF FoundAt
<1>3. found # {} => k \in found /\ \A l \in found : l <= k
  <2> HIDE DEF found
  <2>1. found # {} => \E x \in found : \A l \in found : l <= x
    BY <1>2, GreatestNumber
  <2> QED
    BY <2>1, Zenon
<1> HIDE DEF k
<1> QED
  BY <1>1, <1>3, Zenon

LEMMA PointerTypes ==
    ASSUME NEW D, NEW pointers \in [D -> (Nat \X Nat) \cup {None}],
           NEW ids, NEW m \in Nat, DOMAIN ids \subseteq 1..m, NEW n \in Nat
    PROVE  PointAt(pointers, ids, n) \in [D -> (Nat \X Nat) \cup {None}]
<1>1. \A id \in D : PointAt(pointers, ids, n)[id] \in (Nat \X Nat) \cup {None}
  <2> SUFFICES ASSUME NEW id \in D
               PROVE  PointAt(pointers, ids, n)[id] \in (Nat \X Nat) \cup {None}
    OBVIOUS
  <2>1. \A k \in FoundAt(ids, id) : <<n, k>> \in Nat \X Nat
    BY DEF FoundAt
  <2>2. id \in DOMAIN pointers /\ pointers[id] \in (Nat \X Nat) \cup {None}
    OBVIOUS
  <2>3. CASE FoundAt(ids, id) = {}
    BY <2>2, <2>3, Pointed
  <2>4. CASE FoundAt(ids, id) # {}
    <3>1. PICK k \in FoundAt(ids, id) : PointAt(pointers, ids, n)[id] = <<n, k>>
      BY <2>2, <2>4, Pointed
    <3> QED
      BY <2>1, <3>1
  <2> QED
    BY <2>3, <2>4
<1>2. PointAt(pointers, ids, n) = [id \in D |-> PointAt(pointers, ids, n)[id]]
  BY DEF PointAt
<1> QED
  BY <1>1, <1>2

(* Behind a segment that was delivered the parser is still inside the frame. *)
LEMMA InsideFrame ==
    ASSUME NEW seg \in Segments, Delivered(seg), len \in Nat, pos \in 2..len
    PROVE  LET end == pos + seg.fill + 1 + seg.len
           IN  /\ end \in 2..len /\ end < len
               /\ len - end \in 0..len /\ len - end > 0
  BY Constants DEF Delivered

(* A segment changes the parser's result only, and leaves the frame alone. *)
Fields == {"width", "height", "samp", "restart_interval", "quant", "huffman", "data_len"}

LEMMA ParseKeeps ==
    ASSUME TypeOK, NEW seg \in Segments, Parse(seg)
    PROVE  /\ pc = "parse" /\ len \in Nat /\ pos \in 2..len
           /\ header' = Append(header, seg) /\ header' \in Seq(Segments)
           /\ Len(header') \in Nat
           /\ UNCHANGED <<len, display, format, engine>>
<1>1. /\ pc = "parse" /\ header' = Append(header, seg)
      /\ UNCHANGED <<len, display, format, engine>>
  BY DEF Parse, CutOff, ProcessDqt, ProcessDht, ProcessSof0, ProcessDri, ProcessSos,
         Unsupported, SkipSegment, Meet
<1>2. len \in Nat /\ pos \in 2..len /\ header \in Seq(Segments)
  BY <1>1, Constants DEF TypeOK
<1> QED
  BY <1>1, <1>2

ParserOK == TypeOK /\ DOMAIN jpeg = Fields

(* What a segment does to the parser's position and result. *)
LEMMA ParseTypes ==
    ASSUME ParserOK, NEW seg \in Segments, Parse(seg)
    PROVE  /\ DOMAIN jpeg' = Fields
           /\ pc' \in {"idle", "parse", "accepted"}
           /\ pc' \in {"parse", "accepted"} => pos' \in 2..len
           /\ jpeg'.data_len \in 0..len
           /\ pc' = "accepted" => jpeg'.data_len > 0
           /\ jpeg'.quant \in [0..3 -> (Nat \X Nat) \cup {None}]
           /\ jpeg'.huffman \in [0..7 -> (Nat \X Nat) \cup {None}]
<1>1. /\ TypeOK /\ DOMAIN jpeg = Fields /\ len \in Nat /\ pos \in 2..len /\ pc = "parse"
      /\ Len(header') \in Nat
      /\ jpeg.data_len \in 0..len
      /\ jpeg.quant \in [0..3 -> (Nat \X Nat) \cup {None}]
      /\ jpeg.huffman \in [0..7 -> (Nat \X Nat) \cup {None}]
  BY ParseKeeps DEF ParserOK, TypeOK
<1> DEFINE end == pos + seg.fill + 1 + seg.len
<1>2. Delivered(seg) => /\ end \in 2..len /\ end < len
                         /\ len - end \in 0..len /\ len - end > 0
  BY <1>1, InsideFrame
<1>3. CASE CutOff(seg) \/ Unsupported(seg)
  BY <1>1, <1>3 DEF CutOff, Unsupported
<1>4. CASE ProcessDqt(seg)
  <2>1. Len(seg.tables) \in Nat /\ DOMAIN seg.tables = 1..Len(seg.tables)
    BY <1>4, FrameDecoderAssumption DEF ProcessDqt, Meet
  <2> DEFINE ids == [k \in Accepted(seg.tables) |-> seg.tables[k].id]
             quant == PointAt(jpeg.quant, ids, Len(header'))
  <2>2. quant \in [0..3 -> (Nat \X Nat) \cup {None}]
    <3>1. DOMAIN ids \subseteq 1..Len(seg.tables)
      BY <2>1 DEF Accepted
    <3> HIDE DEF ids
    <3> QED
      BY <1>1, <2>1, <3>1, PointerTypes
  <2>3. jpeg' = [jpeg EXCEPT !.quant = quant]
    BY <1>4, Zenon DEF ProcessDqt
  <2>4. Delivered(seg) /\ pos' = end /\ pc' \in {"parse", "idle"}
    BY <1>4 DEF ProcessDqt, Continue
  <2> HIDE DEF end, quant
  <2>5. /\ DOMAIN jpeg' = Fields /\ jpeg'.quant = quant
        /\ jpeg'.huffman = jpeg.huffman /\ jpeg'.data_len = jpeg.data_len
    BY <1>1, <2>3 DEF Fields
  <2> QED
    BY <1>1, <1>2, <2>2, <2>4, <2>5
<1>5. CASE ProcessDht(seg)
  <2>1. Len(seg.tables) \in Nat /\ DOMAIN seg.tables = 1..Len(seg.tables)
    BY <1>5, FrameDecoderAssumption DEF ProcessDht, Meet
  <2> DEFINE ids == [k \in DOMAIN seg.tables |-> HuffmanId(seg.tables[k])]
             huffman == PointAt(jpeg.huffman, ids, Len(header'))
  <2>2. huffman \in [0..7 -> (Nat \X Nat) \cup {None}]
    <3>1. DOMAIN ids \subseteq 1..Len(seg.tables)
      BY <2>1
    <3> HIDE DEF ids
    <3> QED
      BY <1>1, <2>1, <3>1, PointerTypes
  <2>3. jpeg' = [jpeg EXCEPT !.huffman = huffman]
    BY <1>5, Zenon DEF ProcessDht
  <2>4. Delivered(seg) /\ pos' = end /\ pc' = "parse"
    BY <1>5 DEF ProcessDht, Continue
  <2> HIDE DEF end, huffman
  <2>5. /\ DOMAIN jpeg' = Fields /\ jpeg'.huffman = huffman
        /\ jpeg'.quant = jpeg.quant /\ jpeg'.data_len = jpeg.data_len
    BY <1>1, <2>3 DEF Fields
  <2> QED
    BY <1>1, <1>2, <2>2, <2>4, <2>5
<1>6. CASE ProcessSof0(seg)
  <2>1. Delivered(seg) /\ pos' = end /\ pc' \in {"parse", "idle"}
    BY <1>6 DEF ProcessSof0, Continue
  <2>2. /\ DOMAIN jpeg' = Fields /\ jpeg'.quant = jpeg.quant
        /\ jpeg'.huffman = jpeg.huffman /\ jpeg'.data_len = jpeg.data_len
    BY <1>1, <1>6 DEF ProcessSof0, Fields
  <2> HIDE DEF end
  <2> QED
    BY <1>1, <1>2, <2>1, <2>2
<1>7. CASE ProcessDri(seg)
  <2>1. Delivered(seg) /\ pos' = end /\ pc' = "parse"
    BY <1>7 DEF ProcessDri, Continue
  <2>2. /\ DOMAIN jpeg' = Fields /\ jpeg'.quant = jpeg.quant
        /\ jpeg'.huffman = jpeg.huffman /\ jpeg'.data_len = jpeg.data_len
    BY <1>1, <1>7 DEF ProcessDri, Fields
  <2> HIDE DEF end
  <2> QED
    BY <1>1, <1>2, <2>1, <2>2
<1>8. CASE ProcessSos(seg)
  <2>1. /\ Delivered(seg) /\ pos' = end /\ pc' = IF seg.ycbcr THEN "accepted" ELSE "idle"
        /\ jpeg' = [jpeg EXCEPT !.data_len = IF seg.ycbcr THEN len - end ELSE 0]
    BY <1>8 DEF ProcessSos
  <2> HIDE DEF end
  <2>2. /\ DOMAIN jpeg' = Fields /\ jpeg'.quant = jpeg.quant
        /\ jpeg'.huffman = jpeg.huffman
        /\ jpeg'.data_len = IF seg.ycbcr THEN len - end ELSE 0
    BY <1>1, <2>1 DEF Fields
  <2>3. len - end \in 0..len /\ len - end > 0
    BY <1>2, <2>1
  <2>4. 0 \in 0..len
    BY <1>1
  <2>5. CASE seg.ycbcr
    BY <1>1, <1>2, <2>1, <2>2, <2>3, <2>5
  <2>6. CASE ~seg.ycbcr
    BY <1>1, <1>2, <2>1, <2>2, <2>4, <2>6
  <2> QED
    BY <2>5, <2>6
<1>9. CASE SkipSegment(seg)
  <2>1. Delivered(seg) /\ pos' = end /\ pc' = "parse" /\ jpeg' = jpeg
    BY <1>9 DEF SkipSegment, Continue
  <2> HIDE DEF end
  <2> QED
    BY <1>1, <1>2, <2>1
<1> QED
  BY <1>3, <1>4, <1>5, <1>6, <1>7, <1>8, <1>9 DEF Parse

LEMMA BlankTypes ==
    /\ DOMAIN Blank = Fields /\ Blank.data_len = 0 /\ Blank.samp = NoSamp
    /\ Blank.quant = [id \in 0..3 |-> None] /\ Blank.huffman = [id \in 0..7 |-> None]
  BY DEF Blank, Fields

LEMMA ParserInit == Init => ParserOK
<1> SUFFICES ASSUME Init PROVE ParserOK
  OBVIOUS
<1>1. header = <<>> /\ <<>> \in Seq(Segments)
  BY DEF Init
<1>2. /\ DOMAIN jpeg = Fields /\ jpeg.data_len \in 0..0
      /\ jpeg.quant \in [0..3 -> (Nat \X Nat) \cup {None}]
      /\ jpeg.huffman \in [0..7 -> (Nat \X Nat) \cup {None}]
  BY BlankTypes DEF Init
<1>3. /\ pc = "idle" /\ len = 0 /\ pos = 2 /\ display_initialized = FALSE
  BY DEF Init
<1> QED
  BY <1>1, <1>2, <1>3 DEF ParserOK, TypeOK

LEMMA ParserStep == ParserOK /\ [Next]_vars => ParserOK'
<1> SUFFICES ASSUME ParserOK, [Next]_vars PROVE ParserOK'
  OBVIOUS
<1> USE DEF ParserOK
<1>1. CASE \E bytes \in Lengths : StartFrame(bytes)
  <2>1. PICK bytes \in Lengths : StartFrame(bytes)
    BY <1>1
  <2>2. /\ jpeg' = Blank /\ len' = bytes /\ pos' = 2 /\ header' = <<>> /\ bytes \in Nat
        /\ pc' = IF bytes < 2 THEN "idle" ELSE "parse"
        /\ UNCHANGED display
    BY <2>1, Constants DEF StartFrame
  <2>3. <<>> \in Seq(Segments)
    OBVIOUS
  <2> QED
    BY <2>2, <2>3, BlankTypes DEF TypeOK, display
<1>2. CASE \E seg \in Segments : Parse(seg)
  <2>1. PICK seg \in Segments : Parse(seg)
    BY <1>2
  <2>2. /\ header' \in Seq(Segments) /\ UNCHANGED <<len, display>>
    BY <2>1, ParseKeeps
  <2> QED
    BY <2>1, <2>2, ParseTypes DEF TypeOK, display
<1>3. CASE DropUnusable \/ InitDisplayFails \/ MissingTables
  BY <1>3 DEF DropUnusable, InitDisplayFails, MissingTables, TypeOK, parser, display
<1>4. CASE InitDisplay
  BY <1>4 DEF InitDisplay, TypeOK, parser
<1>5. CASE DecodeFrame
  BY <1>5 DEF DecodeFrame, TypeOK, parser, display
<1>6. CASE HwClose
  <2>1. /\ jpeg' = Blank /\ len' = 0 /\ pos' = 2 /\ header' = <<>> /\ pc' = "idle"
        /\ display_initialized' = FALSE
    BY <1>6 DEF HwClose
  <2>2. <<>> \in Seq(Segments)
    OBVIOUS
  <2>3. /\ DOMAIN jpeg' = Fields /\ jpeg'.data_len \in 0..0
        /\ jpeg'.quant \in [0..3 -> (Nat \X Nat) \cup {None}]
        /\ jpeg'.huffman \in [0..7 -> (Nat \X Nat) \cup {None}]
    BY <2>1, BlankTypes
  <2> QED
    BY <2>1, <2>2, <2>3 DEF TypeOK
<1>7. CASE UNCHANGED vars
  BY <1>7 DEF vars, parser, display, TypeOK
<1> QED
  BY <1>1, <1>2, <1>3, <1>4, <1>5, <1>6, <1>7 DEF Next

(* The parser never leaves the bytes of the frame, and never takes an empty picture
   for one. *)
THEOREM TypeCorrect == Spec => []TypeOK
<1>1. ParserOK => TypeOK
  BY DEF ParserOK
<1> QED
  BY <1>1, ParserInit, ParserStep, PTL DEF Spec

-----------------------------------------------------------------------------
(* The planes.  A frame that names its subsampling has a size, and so have the layout,
   which a usable frame made, and the picture the engine writes.  The pixel format and
   the engine's register of the format keep the values of other sessions and frames, but
   not for a layout and a picture that have formats of their own. *)
Formats == PixelFormats \cup {<<1, 2>>}

Sized(frame) == frame.width \in Nat \ {0} /\ frame.height \in Nat \ {0}

RegistersAgree ==
    /\ ParserOK
    /\ jpeg.samp \in Nat \X Nat /\ (jpeg.samp # NoSamp => Sized(jpeg))
    /\ layout # None => display_initialized
    /\ display_initialized =>
          /\ Sized(layout) /\ layout.samp \in Formats
          /\ layout.samp \in PixelFormats => pixel_format = layout.samp
    /\ engine # None =>
          /\ display_initialized
          /\ Sized(engine)
          /\ engine.samp \in Formats => format = engine.samp

LEMMA ParseSizes ==
    ASSUME RegistersAgree, NEW seg \in Segments, Parse(seg)
    PROVE  jpeg'.samp \in Nat \X Nat /\ (jpeg'.samp # NoSamp => Sized(jpeg'))
<1>1. DOMAIN jpeg = Fields
  BY DEF RegistersAgree, ParserOK
<1>2. CASE ProcessSof0(seg)
  <2>1. /\ seg.width \in Nat \ {0} /\ seg.height \in Nat \ {0}
        /\ seg.samp \in Nat \X Nat
    BY <1>2, FrameDecoderAssumption DEF ProcessSof0, Meet
  <2>2. /\ jpeg'.width = seg.width /\ jpeg'.height = seg.height
        /\ jpeg'.samp = seg.samp
    BY <1>1, <1>2 DEF ProcessSof0, Fields
  <2> QED
    BY <2>1, <2>2 DEF Sized
<1>3. CASE ~ProcessSof0(seg)
  <2>1. jpeg'.samp = jpeg.samp /\ jpeg'.width = jpeg.width /\ jpeg'.height = jpeg.height
    <3>1. CASE CutOff(seg) \/ Unsupported(seg) \/ SkipSegment(seg)
      BY <3>1 DEF CutOff, Unsupported, SkipSegment
    <3>2. CASE ProcessDqt(seg)
      <4> DEFINE quant == PointAt(jpeg.quant,
                              [k \in Accepted(seg.tables) |-> seg.tables[k].id],
                              Len(header'))
      <4>1. jpeg' = [jpeg EXCEPT !.quant = quant]
        BY <3>2, Zenon DEF ProcessDqt
      <4> HIDE DEF quant
      <4> QED
        BY <1>1, <4>1 DEF Fields
    <3>3. CASE ProcessDht(seg)
      <4> DEFINE huffman == PointAt(jpeg.huffman,
                                [k \in DOMAIN seg.tables |-> HuffmanId(seg.tables[k])],
                                Len(header'))
      <4>1. jpeg' = [jpeg EXCEPT !.huffman = huffman]
        BY <3>3, Zenon DEF ProcessDht
      <4> HIDE DEF huffman
      <4> QED
        BY <1>1, <4>1 DEF Fields
    <3>4. CASE ProcessDri(seg)
      BY <1>1, <3>4 DEF ProcessDri, Fields
    <3>5. CASE ProcessSos(seg)
      BY <1>1, <3>5 DEF ProcessSos, Fields
    <3> QED
      BY <1>3, <3>1, <3>2, <3>3, <3>4, <3>5 DEF Parse
  <2> QED
    BY <2>1 DEF RegistersAgree, Sized
<1> QED
  BY <1>2, <1>3

LEMMA RegistersInit == Init => RegistersAgree
  BY ParserInit, BlankTypes DEF Init, RegistersAgree, NoSamp

LEMMA RegistersStep == RegistersAgree /\ [Next]_vars => RegistersAgree'
<1> SUFFICES ASSUME RegistersAgree, [Next]_vars PROVE RegistersAgree'
  OBVIOUS
<1> USE DEF Sized
<1>0. ParserOK'
  BY ParserStep DEF RegistersAgree
<1>b. Blank.samp \in Nat \X Nat /\ Blank.samp = NoSamp
  BY BlankTypes DEF NoSamp
<1>1. CASE \E bytes \in Lengths : StartFrame(bytes)
  BY <1>0, <1>b, <1>1 DEF RegistersAgree, StartFrame, display
<1>2. CASE \E seg \in Segments : Parse(seg)
  <2>1. PICK seg \in Segments : Parse(seg)
    BY <1>2
  <2>2. UNCHANGED <<display, format, engine>>
    BY <2>1, ParseKeeps DEF RegistersAgree, ParserOK
  <2>3. jpeg'.samp \in Nat \X Nat /\ (jpeg'.samp # NoSamp => Sized(jpeg'))
    BY <2>1, ParseSizes
  <2> QED
    BY <1>0, <2>2, <2>3 DEF RegistersAgree, display
<1>3. CASE DropUnusable \/ InitDisplayFails \/ MissingTables
  BY <1>0, <1>3
  DEF DropUnusable, InitDisplayFails, MissingTables, RegistersAgree, parser, display
<1>4. CASE InitDisplay
  <2>1. jpeg.samp \in Formats /\ jpeg.samp # NoSamp
    BY <1>4 DEF InitDisplay, get_format, NoSamp, PixelFormats, Formats
  <2>2. /\ jpeg' = jpeg /\ UNCHANGED <<engine, format>> /\ display_initialized'
        /\ layout' = [width |-> jpeg.width, height |-> jpeg.height, samp |-> jpeg.samp]
        /\ pixel_format' = IF jpeg.samp \in PixelFormats THEN jpeg.samp ELSE pixel_format
    BY <1>4 DEF InitDisplay, parser
  <2>3. Sized(layout') /\ layout'.samp = jpeg.samp
    BY <2>1, <2>2 DEF RegistersAgree
  <2> QED
    BY <1>0, <2>1, <2>2, <2>3 DEF RegistersAgree
<1>5. CASE DecodeFrame
  <2>1. jpeg.samp # NoSamp
    BY <1>5 DEF DecodeFrame, NoSamp
  <2>2. /\ engine'.width = jpeg.width /\ engine'.height = jpeg.height
        /\ engine'.samp = jpeg.samp
        /\ format' = IF get_format(jpeg) # NoSamp THEN jpeg.samp ELSE format
        /\ display_initialized /\ UNCHANGED <<parser, display>>
    BY <1>5 DEF DecodeFrame
  <2>3. jpeg.samp \in Formats => get_format(jpeg) # NoSamp
    BY <2>1 DEF get_format, Formats
  <2> QED
    BY <1>0, <2>1, <2>2, <2>3 DEF RegistersAgree, parser, display
<1>6. CASE HwClose
  BY <1>0, <1>b, <1>6 DEF HwClose, RegistersAgree
<1>7. CASE UNCHANGED vars
  BY <1>0, <1>7 DEF vars, parser, display, RegistersAgree
<1> QED
  BY <1>1, <1>2, <1>3, <1>4, <1>5, <1>6, <1>7 DEF Next

(* Over all sessions, whatever sizes and formats the frames have: the display engine
   stays inside every plane, and the video engine inside all three for the frames that
   are like the first of their session, or smaller, where the padding suffices. *)
THEOREM EnginesInside == Spec => []PlanesInside
<1>1. RegistersAgree => PlanesInside
  <2> SUFFICES ASSUME RegistersAgree PROVE PlanesInside
    OBVIOUS
  <2>1. ASSUME layout # None, layout.samp \in PixelFormats
        PROVE  ScanoutInside(layout.width, layout.height, layout.samp, pixel_format)
    <3>1. layout.width \in Nat /\ layout.height \in Nat /\ pixel_format = layout.samp
      BY <2>1 DEF RegistersAgree, Sized
    <3> QED
      BY <2>1, <3>1, ScanoutFits
  <2>2. ASSUME engine # None, LikeTheFirst,
               PaddingSuffices(layout.width, layout.height)
        PROVE  VideoInside(layout, engine, format)
    <3>1. /\ Sized(layout) /\ Sized(engine) /\ layout.samp \in Formats
          /\ engine.samp = layout.samp /\ format = engine.samp
          /\ engine.width <= layout.width /\ engine.height <= layout.height
      BY <2>2 DEF RegistersAgree, LikeTheFirst
    <3>2. VideoInside(layout, engine, engine.samp)
      BY <2>2, <3>1, PictureFits DEF Sized, Formats
    <3> QED
      BY <3>1, <3>2
  <2> QED
    BY <2>1, <2>2 DEF PlanesInside
<1> QED
  BY <1>1, RegistersInit, RegistersStep, PTL DEF Spec

-----------------------------------------------------------------------------
(* The frame's own tables.  A pointer that leads to the last of the places leads to the
   last again when the places of one more segment come behind them. *)
PlacesAt(n, found) == {<<n, k>> : k \in found}

LEMMA LastReplaced ==
    ASSUME NEW n \in Nat, NEW places, \A p \in places : p[1] \in 1..n,
           NEW pointer, LeadsToLast(pointer, places),
           NEW m \in Nat, NEW found, found \subseteq 1..m, NEW new,
           found = {} => new = pointer,
           found # {} => \E k \in found : new = <<n + 1, k>> /\ \A l \in found : l <= k
    PROVE  LeadsToLast(new, places \cup PlacesAt(n + 1, found))
<1> DEFINE more == PlacesAt(n + 1, found)
<1>1. CASE found = {}
  BY <1>1 DEF PlacesAt
<1>2. CASE found # {}
  <2>1. PICK k \in found : new = <<n + 1, k>> /\ \A l \in found : l <= k
    BY <1>2
  <2>2. new \in more
    BY <2>1 DEF PlacesAt
  <2>3. ASSUME NEW p \in places PROVE Before(p, new)
    BY <2>1, <2>3 DEF Before
  <2>4. ASSUME NEW p \in more, p # new PROVE Before(p, new)
    <3>1. PICK l \in found : p = <<n + 1, l>>
      BY <2>4 DEF PlacesAt
    <3>2. l # k /\ l <= k /\ l \in Nat /\ k \in Nat
      BY <2>1, <2>4, <3>1
    <3>3. p[1] = new[1] /\ p[2] < new[2]
      BY <2>1, <3>1, <3>2
    <3> QED
      BY <3>3 DEF Before
  <2> HIDE DEF more
  <2>5. /\ new \in places \cup more
        /\ \A p \in (places \cup more) \ {new} : Before(p, new)
    BY <2>2, <2>3, <2>4
  <2>6. LeadsToLast(new, places \cup more)
    BY <2>5, Zenon DEF LeadsToLast
  <2> QED
    BY <2>6 DEF more
<1> QED
  BY <1>1, <1>2

LEMMA PointerLast ==
    ASSUME NEW pointers, NEW ids, NEW m \in Nat, DOMAIN ids \subseteq 1..m,
           NEW id \in DOMAIN pointers, NEW n \in Nat,
           NEW places, \A p \in places : p[1] \in 1..n,
           LeadsToLast(pointers[id], places)
    PROVE  LeadsToLast(PointAt(pointers, ids, n + 1)[id],
                       places \cup PlacesAt(n + 1, FoundAt(ids, id)))
<1> DEFINE found == FoundAt(ids, id)
           old == pointers[id]
           new == PointAt(pointers, ids, n + 1)[id]
<1>1. found \subseteq 1..m
  BY DEF FoundAt
<1>2. /\ found = {} => new = old
      /\ found # {} => \E k \in found : new = <<n + 1, k>> /\ \A l \in found : l <= k
  BY Pointed
<1>3. LeadsToLast(old, places)
  OBVIOUS
<1> HIDE DEF found, old, new
<1>4. LeadsToLast(new, places \cup PlacesAt(n + 1, found))
  BY <1>1, <1>2, <1>3, LastReplaced
<1> QED
  BY <1>4 DEF found, new

(* The places of the tables of a segment. *)
QuantFound(seg, number) == {k \in DOMAIN seg.tables : seg.tables[k].id = number}
HuffmanFound(seg, number, class) ==
    {k \in DOMAIN seg.tables : /\ seg.tables[k].number = number
                               /\ seg.tables[k].class = class}

LEMMA QuantPlacesGrow ==
    ASSUME NEW h \in Seq(Segments), NEW seg, NEW number
    PROVE  /\ \A p \in QuantPlaces(h, number) : p[1] \in 1..Len(h)
           /\ seg.marker = "DQT" =>
                 QuantPlaces(Append(h, seg), number) =
                    QuantPlaces(h, number) \cup PlacesAt(Len(h) + 1, QuantFound(seg, number))
           /\ seg.marker # "DQT" =>
                 QuantPlaces(Append(h, seg), number) = QuantPlaces(h, number)
<1> DEFINE Places(g) ==
               UNION {{<<i, k>> : k \in QuantFound(g[i], number)} :
                      i \in {i \in DOMAIN g : g[i].marker = "DQT"}}
           g == Append(h, seg)
<1>1. QuantPlaces(h, number) = Places(h) /\ QuantPlaces(g, number) = Places(g)
  BY Zenon DEF QuantPlaces, QuantFound
<1>2. /\ DOMAIN h = 1..Len(h) /\ DOMAIN g = 1..(Len(h) + 1) /\ Len(h) \in Nat
      /\ g[Len(h) + 1] = seg /\ \A i \in 1..Len(h) : g[i] = h[i]
  OBVIOUS
<1> HIDE DEF g
<1>3. \A p \in Places(h) : p[1] \in 1..Len(h)
  BY <1>2
<1>4. ASSUME NEW p PROVE p \in Places(g) <=>
         \/ p \in Places(h)
         \/ seg.marker = "DQT" /\ \E k \in QuantFound(seg, number) : p = <<Len(h) + 1, k>>
  BY <1>2
<1> QED
  BY <1>1, <1>3, <1>4 DEF g, PlacesAt

LEMMA HuffmanPlacesGrow ==
    ASSUME NEW h \in Seq(Segments), NEW seg, NEW number, NEW class
    PROVE  /\ \A p \in HuffmanPlaces(h, number, class) : p[1] \in 1..Len(h)
           /\ seg.marker = "DHT" =>
                 HuffmanPlaces(Append(h, seg), number, class) =
                    HuffmanPlaces(h, number, class)
                       \cup PlacesAt(Len(h) + 1, HuffmanFound(seg, number, class))
           /\ seg.marker # "DHT" =>
                 HuffmanPlaces(Append(h, seg), number, class) =
                    HuffmanPlaces(h, number, class)
<1> DEFINE Places(g) ==
               UNION {{<<i, k>> : k \in HuffmanFound(g[i], number, class)} :
                      i \in {i \in DOMAIN g : g[i].marker = "DHT"}}
           g == Append(h, seg)
<1>1. /\ HuffmanPlaces(h, number, class) = Places(h)
      /\ HuffmanPlaces(g, number, class) = Places(g)
  BY Zenon DEF HuffmanPlaces, HuffmanFound
<1>2. /\ DOMAIN h = 1..Len(h) /\ DOMAIN g = 1..(Len(h) + 1) /\ Len(h) \in Nat
      /\ g[Len(h) + 1] = seg /\ \A i \in 1..Len(h) : g[i] = h[i]
  OBVIOUS
<1> HIDE DEF g
<1>3. \A p \in Places(h) : p[1] \in 1..Len(h)
  BY <1>2
<1>4. ASSUME NEW p PROVE p \in Places(g) <=>
         \/ p \in Places(h)
         \/ /\ seg.marker = "DHT"
            /\ \E k \in HuffmanFound(seg, number, class) : p = <<Len(h) + 1, k>>
  BY <1>2
<1> QED
  BY <1>1, <1>3, <1>4 DEF g, PlacesAt

(* Where the parser goes on, the pointers are those of before with the tables of the
   segment put in, all of them. *)
QuantIds(seg) == [k \in DOMAIN seg.tables |-> seg.tables[k].id]
HuffmanIds(seg) == [k \in DOMAIN seg.tables |-> HuffmanId(seg.tables[k])]

LEMMA ParsePointers ==
    ASSUME ParserOK, NEW seg \in Segments, Parse(seg), pc' \in {"parse", "accepted"}
    PROVE  /\ jpeg'.quant =
                 IF seg.marker = "DQT"
                 THEN PointAt(jpeg.quant, QuantIds(seg), Len(header')) ELSE jpeg.quant
           /\ jpeg'.huffman =
                 IF seg.marker = "DHT"
                 THEN PointAt(jpeg.huffman, HuffmanIds(seg), Len(header'))
                 ELSE jpeg.huffman
<1>1. DOMAIN jpeg = Fields
  BY DEF ParserOK
<1>2. CASE ProcessDqt(seg)
  <2> DEFINE ids == [k \in Accepted(seg.tables) |-> seg.tables[k].id]
             quant == PointAt(jpeg.quant, ids, Len(header'))
  <2>1. jpeg' = [jpeg EXCEPT !.quant = quant]
    BY <1>2, Zenon DEF ProcessDqt
  <2>2. seg.marker = "DQT" /\ Accepted(seg.tables) = DOMAIN seg.tables
    BY <1>2 DEF ProcessDqt, Meet, Continue
  <2>3. ids = QuantIds(seg)
    BY <2>2, Zenon DEF QuantIds
  <2> HIDE DEF ids
  <2>4. quant = PointAt(jpeg.quant, QuantIds(seg), Len(header'))
    BY <2>3
  <2> HIDE DEF quant
  <2>5. jpeg'.quant = quant /\ jpeg'.huffman = jpeg.huffman
    BY <1>1, <2>1 DEF Fields
  <2> QED
    BY <2>2, <2>4, <2>5
<1>3. CASE ProcessDht(seg)
  <2> DEFINE huffman == PointAt(jpeg.huffman, HuffmanIds(seg), Len(header'))
  <2>1. jpeg' = [jpeg EXCEPT !.huffman = huffman] /\ seg.marker = "DHT"
    BY <1>3 DEF ProcessDht, Meet, HuffmanIds
  <2> HIDE DEF huffman
  <2>2. jpeg'.huffman = huffman /\ jpeg'.quant = jpeg.quant
    BY <1>1, <2>1 DEF Fields
  <2> QED
    BY <2>1, <2>2 DEF huffman
<1>4. CASE ProcessSof0(seg) \/ ProcessDri(seg) \/ ProcessSos(seg) \/ SkipSegment(seg)
  <2>1. jpeg'.huffman = jpeg.huffman /\ jpeg'.quant = jpeg.quant
    BY <1>1, <1>4 DEF ProcessSof0, ProcessDri, ProcessSos, SkipSegment, Fields
  <2>2. seg.marker \notin {"DQT", "DHT"}
    BY <1>4 DEF ProcessSof0, ProcessDri, ProcessSos, SkipSegment, Meet
  <2> QED
    BY <2>1, <2>2
<1>5. CASE CutOff(seg) \/ Unsupported(seg)
  BY <1>5 DEF CutOff, Unsupported
<1> QED
  BY <1>2, <1>3, <1>4, <1>5 DEF Parse

(* Every number and class of a Huffman table has a pointer of its own. *)
LEMMA HuffmanIdsApart ==
    ASSUME NEW seg \in Segments, seg.marker = "DHT", NEW number \in 0..3
    PROVE  /\ FoundAt(HuffmanIds(seg), 2 * number) = HuffmanFound(seg, number, "DC")
           /\ FoundAt(HuffmanIds(seg), 2 * number + 1) = HuffmanFound(seg, number, "AC")
<1>1. \A k \in DOMAIN seg.tables : /\ seg.tables[k].number \in 0..3
                                   /\ seg.tables[k].class \in {"DC", "AC"}
  BY FrameDecoderAssumption
<1>2. DOMAIN HuffmanIds(seg) = DOMAIN seg.tables
  BY DEF HuffmanIds
<1>3. ASSUME NEW k \in DOMAIN seg.tables
      PROVE  /\ HuffmanIds(seg)[k] = 2 * number
                   <=> seg.tables[k].number = number /\ seg.tables[k].class = "DC"
             /\ HuffmanIds(seg)[k] = 2 * number + 1
                   <=> seg.tables[k].number = number /\ seg.tables[k].class = "AC"
  BY <1>1 DEF HuffmanIds, HuffmanId
<1> HIDE DEF HuffmanIds
<1> QED
  BY <1>2, <1>3 DEF FoundAt, HuffmanFound

LEMMA ParseOwnTables ==
    ASSUME ParserOK, OwnTables, NEW seg \in Segments, Parse(seg) PROVE OwnTables'
<1> SUFFICES ASSUME pc' \in {"parse", "accepted"}, NEW number \in 0..3
             PROVE  /\ LeadsToLast(jpeg'.quant[number], QuantPlaces(header', number))
                    /\ LeadsToLast(jpeg'.huffman[2 * number],
                                   HuffmanPlaces(header', number, "DC"))
                    /\ LeadsToLast(jpeg'.huffman[2 * number + 1],
                                   HuffmanPlaces(header', number, "AC"))
  BY DEF OwnTables
<1>1. /\ header \in Seq(Segments) /\ header' = Append(header, seg) /\ pc = "parse"
      /\ DOMAIN jpeg.quant = 0..3 /\ DOMAIN jpeg.huffman = 0..7
  BY ParseKeeps DEF ParserOK, TypeOK
<1>2. Len(header) \in Nat /\ Len(header') = Len(header) + 1
  BY <1>1
<1>3. /\ LeadsToLast(jpeg.quant[number], QuantPlaces(header, number))
      /\ LeadsToLast(jpeg.huffman[2 * number], HuffmanPlaces(header, number, "DC"))
      /\ LeadsToLast(jpeg.huffman[2 * number + 1], HuffmanPlaces(header, number, "AC"))
  BY <1>1 DEF OwnTables
<1>4. LeadsToLast(jpeg'.quant[number], QuantPlaces(header', number))
  <2> DEFINE places == QuantPlaces(header, number)
             pointers == jpeg.quant
  <2>1. CASE seg.marker = "DQT"
    <3> DEFINE ids == QuantIds(seg)
    <3>1. Len(seg.tables) \in Nat /\ DOMAIN seg.tables = 1..Len(seg.tables)
      BY <2>1, FrameDecoderAssumption
    <3>2. jpeg'.quant = PointAt(pointers, ids, Len(header) + 1)
      BY <1>2, <2>1, ParsePointers
    <3>3. /\ DOMAIN ids \subseteq 1..Len(seg.tables)
          /\ FoundAt(ids, number) = QuantFound(seg, number)
      BY <3>1 DEF QuantIds, FoundAt, QuantFound
    <3>4. /\ \A p \in places : p[1] \in 1..Len(header)
          /\ QuantPlaces(header', number) =
                places \cup PlacesAt(Len(header) + 1, QuantFound(seg, number))
      BY <1>1, <2>1, QuantPlacesGrow, SMT
    <3>5. LeadsToLast(pointers[number], places) /\ number \in DOMAIN pointers
      BY <1>1, <1>3
    <3> HIDE DEF ids, places, pointers
    <3>6. LeadsToLast(PointAt(pointers, ids, Len(header) + 1)[number],
             places \cup PlacesAt(Len(header) + 1, FoundAt(ids, number)))
      BY <1>2, <3>1, <3>3, <3>4, <3>5, PointerLast
    <3> QED
      BY <3>2, <3>3, <3>4, <3>6
  <2>2. CASE seg.marker # "DQT"
    <3>1. QuantPlaces(header', number) = places
      BY <1>1, <2>2, QuantPlacesGrow
    <3> QED
      BY <1>3, <2>2, <3>1, ParsePointers
  <2> QED
    BY <2>1, <2>2
<1>5. ASSUME NEW class \in {"DC", "AC"}, NEW id \in 0..7,
             seg.marker = "DHT" =>
                FoundAt(HuffmanIds(seg), id) = HuffmanFound(seg, number, class),
             LeadsToLast(jpeg.huffman[id], HuffmanPlaces(header, number, class))
      PROVE  LeadsToLast(jpeg'.huffman[id], HuffmanPlaces(header', number, class))
  <2> DEFINE places == HuffmanPlaces(header, number, class)
             pointers == jpeg.huffman
  <2>1. CASE seg.marker = "DHT"
    <3> DEFINE ids == HuffmanIds(seg)
    <3>1. Len(seg.tables) \in Nat /\ DOMAIN seg.tables = 1..Len(seg.tables)
      BY <2>1, FrameDecoderAssumption
    <3>2. jpeg'.huffman = PointAt(pointers, ids, Len(header) + 1)
      BY <1>2, <2>1, ParsePointers
    <3>3. DOMAIN ids \subseteq 1..Len(seg.tables)
      BY <3>1 DEF HuffmanIds
    <3>4. FoundAt(ids, id) = HuffmanFound(seg, number, class)
      BY <1>5, <2>1
    <3>5. /\ \A p \in places : p[1] \in 1..Len(header)
          /\ HuffmanPlaces(header', number, class) =
                places \cup PlacesAt(Len(header) + 1, HuffmanFound(seg, number, class))
      BY <1>1, <2>1, HuffmanPlacesGrow, SMT
    <3>6. LeadsToLast(pointers[id], places) /\ id \in DOMAIN pointers
      BY <1>1, <1>5
    <3> HIDE DEF ids, places, pointers
    <3>7. LeadsToLast(PointAt(pointers, ids, Len(header) + 1)[id],
             places \cup PlacesAt(Len(header) + 1, FoundAt(ids, id)))
      BY <1>2, <3>1, <3>3, <3>5, <3>6, PointerLast
    <3> QED
      BY <3>2, <3>4, <3>5, <3>7
  <2>2. CASE seg.marker # "DHT"
    <3>1. HuffmanPlaces(header', number, class) = places
      BY <1>1, <2>2, HuffmanPlacesGrow, SMT
    <3> QED
      BY <1>5, <2>2, <3>1, ParsePointers
  <2> QED
    BY <2>1, <2>2
<1>6. LeadsToLast(jpeg'.huffman[2 * number], HuffmanPlaces(header', number, "DC"))
  <2>1. 2 * number \in 0..7
    OBVIOUS
  <2> QED
    BY <1>3, <1>5, <2>1, HuffmanIdsApart
<1>7. LeadsToLast(jpeg'.huffman[2 * number + 1], HuffmanPlaces(header', number, "AC"))
  <2>1. 2 * number + 1 \in 0..7
    OBVIOUS
  <2> QED
    BY <1>3, <1>5, <2>1, HuffmanIdsApart
<1> QED
  BY <1>4, <1>6, <1>7

LEMMA OwnTablesInit == Init => OwnTables
  BY DEF Init, OwnTables

LEMMA OwnTablesStep == ParserOK /\ OwnTables /\ [Next]_vars => OwnTables'
<1> SUFFICES ASSUME ParserOK, OwnTables, [Next]_vars PROVE OwnTables'
  OBVIOUS
<1>1. CASE \E bytes \in Lengths : StartFrame(bytes)
  <2>1. /\ header' = <<>> /\ jpeg'.quant = [id \in 0..3 |-> None]
        /\ jpeg'.huffman = [id \in 0..7 |-> None]
    BY <1>1, BlankTypes DEF StartFrame
  <2>2. /\ \A number : QuantPlaces(header', number) = {}
        /\ \A number, class : HuffmanPlaces(header', number, class) = {}
    BY <2>1 DEF QuantPlaces, HuffmanPlaces
  <2>3. ASSUME NEW number \in 0..3
        PROVE  /\ jpeg'.quant[number] = None
               /\ jpeg'.huffman[2 * number] = None /\ jpeg'.huffman[2 * number + 1] = None
    BY <2>1
  <2> QED
    BY <2>2, <2>3 DEF OwnTables, LeadsToLast
<1>2. CASE \E seg \in Segments : Parse(seg)
  BY <1>2, ParseOwnTables
<1>3. CASE DropUnusable \/ InitDisplay \/ InitDisplayFails \/ DecodeFrame \/ MissingTables
  <2>1. pc = "accepted" /\ UNCHANGED parser /\ pc' \in {"accepted", "idle", "dead"}
    BY <1>3
    DEF DropUnusable, InitDisplay, InitDisplayFails, DecodeFrame, MissingTables
  <2> QED
    BY <2>1 DEF OwnTables, parser
<1>4. CASE HwClose
  BY <1>4 DEF HwClose, OwnTables
<1>5. CASE UNCHANGED vars
  BY <1>5 DEF vars, parser, OwnTables
<1> QED
  BY <1>1, <1>2, <1>3, <1>4, <1>5 DEF Next

(* Every pointer the parser leaves leads to the last table of its number in this
   frame's header, or nowhere when the header has none: never to an earlier frame's. *)
THEOREM TablesOwned == Spec => []OwnTables
  BY ParserInit, ParserStep, OwnTablesInit, OwnTablesStep, PTL DEF Spec

-----------------------------------------------------------------------------
(* Whole frames.  The ends of a header's segments are one function, which exists since
   each end is made of the one before, and of which the longer header's is an extension. *)
NextEnd(h, f, n) == IF n = 0 THEN 2 ELSE f[n - 1] + h[n].fill + 1 + h[n].len
Ends(h, f, m) == f = [n \in 0..m |-> NextEnd(h, f, n)]

LEMMA EndsExist ==
    ASSUME NEW h, NEW m \in Nat
    PROVE  \E f : Ends(h, f, m)
<1> DEFINE Bad == {k \in Nat : ~\E f : Ends(h, f, k)}
<1>1. CASE Bad = {}
  BY <1>1
<1>2. CASE Bad # {}
  <2>1. PICK k \in Bad : \A j \in Bad : k <= j
    <3>1. Bad \subseteq Nat
      OBVIOUS
    <3> HIDE DEF Bad
    <3> QED
      BY <1>2, <3>1, LeastNumber
  <2>2. k \in Nat /\ \A f : ~Ends(h, f, k)
    BY <2>1
  <2>3. k # 0
    <3> DEFINE f == [n \in 0..0 |-> 2]
    <3>1. Ends(h, f, 0)
      BY DEF Ends, NextEnd
    <3> QED
      BY <2>2, <3>1
  <2>4. k - 1 \in Nat /\ k - 1 \notin Bad
    BY <2>1, <2>2, <2>3
  <2>5. PICK f : Ends(h, f, k - 1)
    BY <2>4
  <2> DEFINE g == [n \in 0..k |-> IF n = k THEN NextEnd(h, f, k) ELSE f[n]]
  <2> HIDE DEF Bad
  <2>6. ASSUME NEW n \in 0..k
        PROVE  g[n] = NextEnd(h, g, n)
    <3>1. n # 0 => g[n - 1] = f[n - 1]
      BY <2>2
    <3>2. NextEnd(h, g, n) = NextEnd(h, f, n)
      <4> HIDE DEF g
      <4> QED
        BY <3>1 DEF NextEnd
    <3>3. n # k => n \in 0..(k - 1)
      BY <2>2
    <3>4. n # k => f[n] = NextEnd(h, f, n)
      BY <2>5, <3>3, Zenon DEF Ends
    <3> QED
      BY <3>2, <3>4, Zenon
  <2>7. Ends(h, g, k)
    <3>1. g = [n \in 0..k |-> g[n]]
      OBVIOUS
    <3> HIDE DEF g
    <3>2. [n \in 0..k |-> g[n]] = [n \in 0..k |-> NextEnd(h, g, n)]
      BY <2>6, Zenon
    <3> QED
      BY <3>1, <3>2, Zenon DEF Ends
  <2> QED
    BY <2>2, <2>7
<1> QED
  BY <1>1, <1>2

LEMMA EndsAgree ==
    ASSUME NEW h, NEW f, NEW a \in Nat, Ends(h, f, a),
           NEW g, NEW e, NEW b \in Nat, Ends(g, e, b),
           NEW c \in Nat, c <= a, c <= b, \A i \in 1..c : h[i] = g[i]
    PROVE  f[c] = e[c]
<1> DEFINE Bad == {k \in 0..c : f[k] # e[k]}
<1>1. ASSUME NEW k \in 0..c PROVE f[k] = NextEnd(h, f, k) /\ e[k] = NextEnd(g, e, k)
  <2>1. k \in 0..a /\ k \in 0..b
    OBVIOUS
  <2> QED
    BY <2>1, Zenon DEF Ends
<1>2. Bad = {}
  <2> SUFFICES ASSUME Bad # {} PROVE FALSE
    OBVIOUS
  <2>1. PICK k \in Bad : \A j \in Bad : k <= j
    <3>1. Bad \subseteq Nat
      OBVIOUS
    <3> HIDE DEF Bad
    <3> QED
      BY <3>1, LeastNumber
  <2>2. k \in 0..c /\ f[k] # e[k]
    BY <2>1
  <2>3. CASE k = 0
    BY <1>1, <2>2, <2>3 DEF NextEnd
  <2>4. CASE k # 0
    <3>1. k - 1 \in 0..c /\ f[k - 1] = e[k - 1] /\ h[k] = g[k]
      BY <2>1, <2>2, <2>4
    <3> QED
      BY <1>1, <2>2, <2>4, <3>1 DEF NextEnd
  <2> QED
    BY <2>3, <2>4
<1> QED
  BY <1>2

LEMMA ExtentIsEnd ==
    ASSUME NEW h, Len(h) \in Nat
    PROVE  \E f : Ends(h, f, Len(h)) /\ Extent(h) = f[Len(h)]
<1> DEFINE end == CHOOSE f : f = [n \in 0..Len(h) |->
                      IF n = 0 THEN 2 ELSE f[n - 1] + h[n].fill + 1 + h[n].len]
<1>1. Ends(h, end, Len(h))
  BY EndsExist, Zenon DEF Ends, NextEnd
<1>2. Extent(h) = end[Len(h)]
  BY Zenon DEF Extent
<1> QED
  BY <1>1, <1>2

LEMMA ExtentGrows ==
    /\ Extent(<<>>) = 2
    /\ \A h \in Seq(Segments), seg \in Segments :
          Extent(Append(h, seg)) = Extent(h) + seg.fill + 1 + seg.len
<1>1. Extent(<<>>) = 2
  <2>1. Len(<<>>) = 0
    OBVIOUS
  <2>2. PICK f : Ends(<<>>, f, 0) /\ Extent(<<>>) = f[0]
    BY <2>1, ExtentIsEnd
  <2>3. f[0] = NextEnd(<<>>, f, 0)
    <3>1. 0 \in 0..0
      OBVIOUS
    <3> QED
      BY <2>2, <3>1, Zenon DEF Ends
  <2> QED
    BY <2>2, <2>3 DEF NextEnd
<1>2. ASSUME NEW h \in Seq(Segments), NEW seg \in Segments
      PROVE  Extent(Append(h, seg)) = Extent(h) + seg.fill + 1 + seg.len
  <2> DEFINE g == Append(h, seg)
             n == Len(h)
  <2>1. /\ n \in Nat /\ Len(g) = n + 1 /\ g[n + 1] = seg
        /\ \A i \in 1..n : h[i] = g[i]
    OBVIOUS
  <2> HIDE DEF g, n
  <2>2. PICK f : Ends(h, f, n) /\ Extent(h) = f[n]
    BY <2>1, ExtentIsEnd DEF n
  <2>3. PICK e : Ends(g, e, n + 1) /\ Extent(g) = e[n + 1]
    BY <2>1, ExtentIsEnd
  <2>4. f[n] = e[n]
    BY <2>1, <2>2, <2>3, EndsAgree
  <2>5. e[n + 1] = NextEnd(g, e, n + 1)
    <3>1. n + 1 \in 0..(n + 1)
      BY <2>1
    <3> QED
      BY <2>3, <3>1, Zenon DEF Ends
  <2>6. NextEnd(g, e, n + 1) = e[n] + seg.fill + 1 + seg.len
    BY <2>1 DEF NextEnd
  <2> QED
    BY <2>2, <2>3, <2>4, <2>5, <2>6 DEF g
<1> QED
  BY <1>1, <1>2

(* A segment behind which the parser may go on, and what the parser knows on its way:
   it stands behind the segments met so far, and they were all of that kind. *)
Usable(seg) ==
    /\ seg.marker \notin MarkersOfOtherCodings
    /\ seg.marker \in {"SOF0", "SOS"} => seg.ycbcr
    /\ seg.marker = "DQT" => \A k \in DOMAIN seg.tables : seg.tables[k].bits = 8

WholeSoFar ==
    pc = "parse" =>
        /\ pos = Extent(header)
        /\ \A i \in DOMAIN header : Usable(header[i])

LEMMA UsableGrows ==
    ASSUME NEW h \in Seq(Segments), NEW seg \in Segments
    PROVE  /\ (\A i \in DOMAIN Append(h, seg) : Usable(Append(h, seg)[i])) <=>
                 (\A i \in DOMAIN h : Usable(h[i])) /\ Usable(seg)
           /\ Append(h, seg)[Len(Append(h, seg))] = seg
<1> DEFINE g == Append(h, seg)
<1>1. /\ DOMAIN h = 1..Len(h) /\ DOMAIN g = 1..(Len(h) + 1) /\ Len(h) \in Nat
      /\ Len(g) = Len(h) + 1
      /\ g[Len(h) + 1] = seg /\ \A i \in 1..Len(h) : g[i] = h[i]
  OBVIOUS
<1> HIDE DEF g
<1>2. /\ (\A i \in DOMAIN g : Usable(g[i])) <=>
            (\A i \in DOMAIN h : Usable(h[i])) /\ Usable(seg)
      /\ g[Len(g)] = seg
  BY <1>1
<1> QED
  BY <1>2 DEF g

(* What the parser requires of a segment to go on, or to take the frame. *)
LEMMA ParseUsable ==
    ASSUME ParserOK, NEW seg \in Segments, Parse(seg)
    PROVE  /\ pc' = "parse" => /\ Usable(seg) /\ seg.marker # "SOS"
                               /\ pos' = pos + seg.fill + 1 + seg.len
           /\ pc' = "accepted" => /\ Usable(seg) /\ seg.marker = "SOS"
                                  /\ pos' = pos + seg.fill + 1 + seg.len
                                  /\ pos' < len /\ jpeg'.data_len = len - pos'
           /\ /\ Usable(seg) /\ seg.marker = "SOS"
              /\ pos + seg.fill + 1 + seg.len < len
              => pc' = "accepted"
<1>1. DOMAIN jpeg = Fields
  BY DEF ParserOK
<1>2. /\ pos \in Nat /\ len \in Nat
      /\ seg.fill \in Nat /\ seg.len \in Nat /\ seg.len >= 2
  BY ParseKeeps, Constants DEF ParserOK
<1>3. CASE CutOff(seg)
  <2>1. pc' = "idle" /\ ~Delivered(seg)
    BY <1>3 DEF CutOff
  <2>2. ~(pos + seg.fill + 1 + seg.len < len)
    BY <1>2, <2>1 DEF Delivered
  <2> QED
    BY <2>1, <2>2
<1>4. CASE ProcessDqt(seg)
  <2>1. /\ seg.marker = "DQT" /\ pos' = pos + seg.fill + 1 + seg.len
        /\ pc' \in {"parse", "idle"}
        /\ pc' = "parse" => Accepted(seg.tables) = DOMAIN seg.tables
    BY <1>4 DEF ProcessDqt, Meet, Continue
  <2>2. Len(seg.tables) \in Nat /\ DOMAIN seg.tables = 1..Len(seg.tables)
    BY <2>1, FrameDecoderAssumption
  <2>3. ASSUME Accepted(seg.tables) = DOMAIN seg.tables,
               NEW k \in DOMAIN seg.tables
        PROVE  seg.tables[k].bits = 8
    <3>1. k \in Accepted(seg.tables) /\ k \in 1..k
      BY <2>2, <2>3
    <3> QED
      BY <3>1, Zenon DEF Accepted
  <2> QED
    BY <2>1, <2>3 DEF Usable, MarkersOfOtherCodings
<1>5. CASE ProcessDht(seg) \/ ProcessDri(seg) \/ SkipSegment(seg)
  <2>1. /\ seg.marker \in {"DHT", "DRI", "APP0"} /\ pc' = "parse"
        /\ pos' = pos + seg.fill + 1 + seg.len
    BY <1>5 DEF ProcessDht, ProcessDri, SkipSegment, Meet, Continue
  <2> QED
    BY <2>1 DEF Usable, MarkersOfOtherCodings
<1>6. CASE ProcessSof0(seg)
  <2>1. /\ seg.marker = "SOF0" /\ pos' = pos + seg.fill + 1 + seg.len
        /\ pc' = IF seg.ycbcr THEN "parse" ELSE "idle"
    BY <1>6 DEF ProcessSof0, Meet, Continue
  <2> QED
    BY <2>1 DEF Usable, MarkersOfOtherCodings
<1>7. CASE ProcessSos(seg)
  <2>1. /\ seg.marker = "SOS" /\ Delivered(seg) /\ pos' = pos + seg.fill + 1 + seg.len
        /\ pc' = IF seg.ycbcr THEN "accepted" ELSE "idle"
        /\ jpeg' = [jpeg EXCEPT !.data_len = IF seg.ycbcr THEN len - pos' ELSE 0]
    BY <1>7 DEF ProcessSos, Meet
  <2>2. jpeg'.data_len = IF seg.ycbcr THEN len - pos' ELSE 0
    BY <1>1, <2>1 DEF Fields
  <2>3. Usable(seg) <=> seg.ycbcr
    <3>1. seg.ycbcr \in BOOLEAN
      BY <2>1, FrameDecoderAssumption
    <3> QED
      BY <2>1, <3>1 DEF Usable, MarkersOfOtherCodings
  <2>4. pos' < len
    BY <2>1 DEF Delivered
  <2> QED
    BY <2>1, <2>2, <2>3, <2>4
<1>8. CASE Unsupported(seg)
  BY <1>8 DEF Unsupported, Meet, Usable
<1> QED
  BY <1>3, <1>4, <1>5, <1>6, <1>7, <1>8 DEF Parse

LEMMA ParseWhole ==
    ASSUME ParserOK, WholeSoFar, NEW seg \in Segments, Parse(seg)
    PROVE  /\ WholeSoFar'
           /\ pc' = "accepted" <=> Whole(header')
           /\ pc' = "accepted" => jpeg'.data_len = len - Extent(header')
<1>1. /\ pc = "parse" /\ header' = Append(header, seg) /\ header \in Seq(Segments)
      /\ len' = len
  BY ParseKeeps DEF ParserOK, TypeOK
<1>2. /\ pos = Extent(header)
      /\ \A i \in DOMAIN header : Usable(header[i])
  BY <1>1 DEF WholeSoFar
<1>3. Extent(header') = pos + seg.fill + 1 + seg.len
  BY <1>1, <1>2, ExtentGrows
<1>4. /\ (\A i \in DOMAIN header' : Usable(header'[i])) <=> Usable(seg)
      /\ header'[Len(header')] = seg
  BY <1>1, <1>2, UsableGrows
<1>5. Whole(header') <=>
         /\ seg.marker = "SOS" /\ Extent(header') < len
         /\ \A i \in DOMAIN header' : Usable(header'[i])
  BY <1>4, Zenon DEF Whole, Usable
<1> QED
  BY <1>3, <1>4, <1>5, ParseUsable DEF WholeSoFar

LEMMA WholeInit == Init => WholeSoFar
  BY DEF Init, WholeSoFar

LEMMA WholeStep ==
    ParserOK /\ WholeSoFar /\ [Next]_vars =>
        /\ WholeSoFar'
        /\ [pc = "parse" /\ header' # header =>
              /\ pc' = "accepted" <=> Whole(header')
              /\ pc' = "accepted" => jpeg'.data_len = len - Extent(header')]_vars
<1> SUFFICES ASSUME ParserOK, WholeSoFar, [Next]_vars
             PROVE  /\ WholeSoFar'
                    /\ pc = "parse" /\ header' # header =>
                          /\ pc' = "accepted" <=> Whole(header')
                          /\ pc' = "accepted" => jpeg'.data_len = len - Extent(header')
  OBVIOUS
<1>1. CASE \E bytes \in Lengths : StartFrame(bytes)
  <2>1. header' = <<>> /\ pos' = 2 /\ pc = "idle"
    BY <1>1 DEF StartFrame
  <2> QED
    BY <2>1, ExtentGrows DEF WholeSoFar
<1>2. CASE \E seg \in Segments : Parse(seg)
  BY <1>2, ParseWhole
<1>3. CASE \/ DropUnusable \/ InitDisplay \/ InitDisplayFails \/ DecodeFrame
           \/ MissingTables \/ HwClose
  <2>1. pc # "parse" /\ pc' # "parse"
    BY <1>3
    DEF DropUnusable, InitDisplay, InitDisplayFails, DecodeFrame, MissingTables,
        HwClose
  <2> QED
    BY <2>1 DEF WholeSoFar
<1>4. CASE UNCHANGED vars
  BY <1>4 DEF vars, parser, WholeSoFar
<1> QED
  BY <1>1, <1>2, <1>3, <1>4 DEF Next

(* For a frame cut off anywhere: it is taken exactly when its header is whole, of the
   one coding the engine knows, with a picture behind it. *)
THEOREM WholeFramesTaken == Spec => ParsedWhole
  BY ParserInit, ParserStep, WholeInit, WholeStep, PTL DEF Spec, ParsedWhole

-----------------------------------------------------------------------------
(* The Huffman codes.  A code word is a number of some length; a table takes, of the
   words of n bits, the first Taken(num)[n]: those that are code words of that length
   or begin with a shorter one.  The first code word of a length is the first word
   that does not begin with a word taken already, so the words of a length lie behind
   all that begin with a shorter one. *)

(* Induction over an interval, for a set T of numbers. *)
LEMMA Induction ==
    ASSUME NEW m \in Nat, NEW T, 0 \in T, \A n \in 1..m : n - 1 \in T => n \in T
    PROVE  \A n \in 0..m : n \in T
<1> DEFINE Bad == {n \in 0..m : n \notin T}
<1>1. CASE Bad = {}
  BY <1>1
<1>2. CASE Bad # {}
  <2>1. PICK n \in Bad : \A j \in Bad : n <= j
    <3>1. Bad \subseteq Nat
      OBVIOUS
    <3> HIDE DEF Bad
    <3> QED
      BY <1>2, <3>1, LeastNumber
  <2>2. n \in 1..m /\ n - 1 \in 0..m /\ n - 1 \notin Bad
    BY <2>1
  <2> QED
    BY <2>1, <2>2
<1> QED
  BY <1>1, <1>2

(* A function that is defined by recursion over an interval exists: step says what
   follows a number and the value there. *)
LEMMA Recursion ==
    ASSUME NEW m \in Nat, NEW a \in Nat, NEW step \in [(1..m) \X Nat -> Nat]
    PROVE  \E f \in [0..m -> Nat] : f[0] = a /\ \A n \in 1..m : f[n] = step[<<n, f[n - 1]>>]
<1> DEFINE Solves(f, k) ==
               /\ f \in [0..k -> Nat] /\ f[0] = a
               /\ \A n \in 1..k : f[n] = step[<<n, f[n - 1]>>]
           T == {k \in 0..m : \E f : Solves(f, k)}
<1>1. 0 \in T
  <2>1. Solves([n \in 0..0 |-> a], 0)
    OBVIOUS
  <2>2. 0 \in 0..m
    OBVIOUS
  <2> HIDE DEF Solves
  <2> QED
    BY <2>1, <2>2
<1>2. ASSUME NEW k \in 1..m, k - 1 \in T PROVE k \in T
  <2>1. PICK f : Solves(f, k - 1)
    BY <1>2
  <2> DEFINE v == step[<<k, f[k - 1]>>]
             g == [n \in 0..k |-> IF n = k THEN v ELSE f[n]]
  <2>2. f[k - 1] \in Nat /\ v \in Nat
    BY <2>1
  <2> HIDE DEF v
  <2>3. /\ g \in [0..k -> Nat] /\ g[0] = a /\ g[k] = v /\ g[k - 1] = f[k - 1]
        /\ \A n \in 1..(k - 1) : g[n] = f[n] /\ g[n - 1] = f[n - 1]
    BY <2>1, <2>2
  <2> HIDE DEF g
  <2>4. ASSUME NEW n \in 1..k PROVE g[n] = step[<<n, g[n - 1]>>]
    <3>1. CASE n = k
      BY <2>3, <3>1, Zenon DEF v
    <3>2. CASE n # k
      <4>1. n \in 1..(k - 1)
        BY <3>2
      <4>2. f[n] = step[<<n, f[n - 1]>>] /\ g[n] = f[n] /\ g[n - 1] = f[n - 1]
        BY <2>1, <2>3, <4>1, Zenon
      <4> QED
        BY <4>2, Zenon
    <3> QED
      BY <3>1, <3>2
  <2>5. Solves(g, k)
    BY <2>3, <2>4, Zenon
  <2> HIDE DEF Solves
  <2> QED
    BY <2>5
<1>3. m \in 0..m
  OBVIOUS
<1> HIDE DEF T
<1>4. m \in T
  BY <1>1, <1>2, <1>3, Induction
<1> QED
  BY <1>4 DEF T

(* The recursive functions behind a table have the values their definitions say. *)
LEMMA WordsDouble ==
    /\ \A n \in 0..CodeLengths : Words[n] \in Nat
    /\ Words[0] = 1 /\ \A n \in 1..CodeLengths : Words[n] = 2 * Words[n - 1]
<1> DEFINE next(f, n) == IF n = 0 THEN 1 ELSE 2 * f[n - 1]
<1>0. /\ CodeLengths \in Nat /\ CodeLengths \in Nat /\ 1 \in Nat
      /\ \A n \in 1..CodeLengths : n - 1 \in Length /\ n - 1 \in 0..CodeLengths
  BY HuffmanAssumption DEF Length
<1>1. \E f : f = [n \in 0..CodeLengths |-> next(f, n)]
  <2> DEFINE step == [p \in (1..CodeLengths) \X Nat |-> 2 * p[2]]
  <2>1. step \in [(1..CodeLengths) \X Nat -> Nat]
    BY <1>0
  <2>2. \A n \in 1..CodeLengths, v \in Nat : step[<<n, v>>] = 2 * v
    OBVIOUS
  <2> HIDE DEF step
  <2>3. PICK f \in [0..CodeLengths -> Nat] :
            f[0] = 1 /\ \A n \in 1..CodeLengths : f[n] = step[<<n, f[n - 1]>>]
    BY <1>0, <2>1, Recursion
  <2>4. ASSUME NEW n \in 0..CodeLengths PROVE f[n] = next(f, n)
    <3>1. n # 0 => n \in 1..CodeLengths /\ f[n - 1] \in Nat
      BY <1>0
    <3> QED
      BY <2>2, <2>3, <3>1
  <2>5. f = [n \in 0..CodeLengths |-> next(f, n)]
    <3>1. f = [n \in 0..CodeLengths |-> f[n]]
      BY <2>3
    <3> HIDE DEF next
    <3> QED
      BY <2>4, <3>1, Zenon
  <2> QED
    BY <2>5
<1>2. Words = [n \in 0..CodeLengths |-> next(Words, n)]
  BY <1>1, Zenon DEF Words
<1>3. Words[0] = 1 /\ \A n \in 1..CodeLengths : Words[n] = 2 * Words[n - 1]
  <2>1. \A n \in 0..CodeLengths : Words[n] = next(Words, n)
    BY <1>2, Zenon
  <2> QED
    BY <1>0, <2>1
<1>4. \A n \in 0..CodeLengths : Words[n] \in Nat
  <2> DEFINE T == {n \in 0..CodeLengths : Words[n] \in Nat}
  <2>1. 0 \in T /\ \A n \in 1..CodeLengths : n - 1 \in T => n \in T
    BY <1>0, <1>3
  <2> HIDE DEF T
  <2>2. \A n \in 0..CodeLengths : n \in T
    BY <1>0, <2>1, Induction
  <2> QED
    BY <2>2 DEF T
<1> QED
  BY <1>3, <1>4

LEMMA IndexSums ==
    ASSUME NEW num \in [Length -> Nat]
    PROVE  /\ \A n \in 0..CodeLengths : SymbolIndex(num)[n] \in Nat
           /\ SymbolIndex(num)[0] = 0
           /\ \A n \in 1..CodeLengths :
                 SymbolIndex(num)[n] = SymbolIndex(num)[n - 1] + num[n - 1]
<1> DEFINE next(f, n) == IF n = 0 THEN 0 ELSE f[n - 1] + num[n - 1]
<1> DEFINE index == SymbolIndex(num)
<1>0. /\ CodeLengths \in Nat /\ CodeLengths \in Nat /\ 0 \in Nat
      /\ \A n \in 1..CodeLengths : n - 1 \in Length /\ n - 1 \in 0..CodeLengths
  BY HuffmanAssumption DEF Length
<1>1. \E f : f = [n \in 0..CodeLengths |-> next(f, n)]
  <2> DEFINE step == [p \in (1..CodeLengths) \X Nat |-> p[2] + num[p[1] - 1]]
  <2>1. step \in [(1..CodeLengths) \X Nat -> Nat]
    BY <1>0
  <2>2. \A n \in 1..CodeLengths, v \in Nat : step[<<n, v>>] = v + num[n - 1]
    OBVIOUS
  <2> HIDE DEF step
  <2>3. PICK f \in [0..CodeLengths -> Nat] :
            f[0] = 0 /\ \A n \in 1..CodeLengths : f[n] = step[<<n, f[n - 1]>>]
    BY <1>0, <2>1, Recursion
  <2>4. ASSUME NEW n \in 0..CodeLengths PROVE f[n] = next(f, n)
    <3>1. n # 0 => n \in 1..CodeLengths /\ f[n - 1] \in Nat
      BY <1>0
    <3> QED
      BY <2>2, <2>3, <3>1
  <2>5. f = [n \in 0..CodeLengths |-> next(f, n)]
    <3>1. f = [n \in 0..CodeLengths |-> f[n]]
      BY <2>3
    <3> HIDE DEF next
    <3> QED
      BY <2>4, <3>1, Zenon
  <2> QED
    BY <2>5
<1>2. index = [n \in 0..CodeLengths |-> next(index, n)]
  BY <1>1, Zenon DEF SymbolIndex
<1>3. index[0] = 0 /\ \A n \in 1..CodeLengths : index[n] = index[n - 1] + num[n - 1]
  <2>1. \A n \in 0..CodeLengths : index[n] = next(index, n)
    BY <1>2, Zenon
  <2> QED
    BY <1>0, <2>1
<1>4. \A n \in 0..CodeLengths : index[n] \in Nat
  <2> DEFINE T == {n \in 0..CodeLengths : index[n] \in Nat}
  <2>1. 0 \in T /\ \A n \in 1..CodeLengths : n - 1 \in T => n \in T
    BY <1>0, <1>3
  <2> HIDE DEF T
  <2>2. \A n \in 0..CodeLengths : n \in T
    BY <1>0, <2>1, Induction
  <2> QED
    BY <2>2 DEF T
<1> QED
  BY <1>3, <1>4

LEMMA TakenSums ==
    ASSUME NEW num \in [Length -> Nat]
    PROVE  /\ \A n \in 0..CodeLengths : Taken(num)[n] \in Nat
           /\ Taken(num)[0] = 0
           /\ \A n \in 1..CodeLengths :
                 Taken(num)[n] = 2 * Taken(num)[n - 1] + num[n - 1]
<1> DEFINE next(f, n) == IF n = 0 THEN 0 ELSE 2 * f[n - 1] + num[n - 1]
<1> DEFINE taken == Taken(num)
<1>0. /\ CodeLengths \in Nat /\ CodeLengths \in Nat /\ 0 \in Nat
      /\ \A n \in 1..CodeLengths : n - 1 \in Length /\ n - 1 \in 0..CodeLengths
  BY HuffmanAssumption DEF Length
<1>1. \E f : f = [n \in 0..CodeLengths |-> next(f, n)]
  <2> DEFINE step == [p \in (1..CodeLengths) \X Nat |-> 2 * p[2] + num[p[1] - 1]]
  <2>1. step \in [(1..CodeLengths) \X Nat -> Nat]
    BY <1>0
  <2>2. \A n \in 1..CodeLengths, v \in Nat : step[<<n, v>>] = 2 * v + num[n - 1]
    OBVIOUS
  <2> HIDE DEF step
  <2>3. PICK f \in [0..CodeLengths -> Nat] :
            f[0] = 0 /\ \A n \in 1..CodeLengths : f[n] = step[<<n, f[n - 1]>>]
    BY <1>0, <2>1, Recursion
  <2>4. ASSUME NEW n \in 0..CodeLengths PROVE f[n] = next(f, n)
    <3>1. n # 0 => n \in 1..CodeLengths /\ f[n - 1] \in Nat
      BY <1>0
    <3> QED
      BY <2>2, <2>3, <3>1
  <2>5. f = [n \in 0..CodeLengths |-> next(f, n)]
    <3>1. f = [n \in 0..CodeLengths |-> f[n]]
      BY <2>3
    <3> HIDE DEF next
    <3> QED
      BY <2>4, <3>1, Zenon
  <2> QED
    BY <2>5
<1>2. taken = [n \in 0..CodeLengths |-> next(taken, n)]
  BY <1>1, Zenon DEF Taken
<1>3. taken[0] = 0 /\ \A n \in 1..CodeLengths : taken[n] = 2 * taken[n - 1] + num[n - 1]
  <2>1. \A n \in 0..CodeLengths : taken[n] = next(taken, n)
    BY <1>2, Zenon
  <2> QED
    BY <1>0, <2>1
<1>4. \A n \in 0..CodeLengths : taken[n] \in Nat
  <2> DEFINE T == {n \in 0..CodeLengths : taken[n] \in Nat}
  <2>1. 0 \in T /\ \A n \in 1..CodeLengths : n - 1 \in T => n \in T
    BY <1>0, <1>3
  <2> HIDE DEF T
  <2>2. \A n \in 0..CodeLengths : n \in T
    BY <1>0, <2>1, Induction
  <2> QED
    BY <2>2 DEF T
<1> QED
  BY <1>3, <1>4


(* The first code word of a length in use is the first one that neither is a shorter
   word nor begins with one. *)
LEMMA LastInUse ==
    ASSUME NEW num, NEW j \in Length, num[j] # 0
    PROVE  j <= LastLength(num)
<1> DEFINE U == {0} \cup {k \in Length : num[k] # 0}
           R == {CodeLengths - k : k \in U}
<1>1. CodeLengths \in Nat /\ Length = 0..(CodeLengths - 1) /\ 0 \in Length
  BY HuffmanAssumption DEF Length
<1>2. U \subseteq 0..(CodeLengths - 1) /\ j \in U
  BY <1>1
<1>3. \E x \in U : \A y \in U : x >= y
  <2> HIDE DEF U
  <2>1. R \subseteq Nat /\ R # {}
    BY <1>1, <1>2
  <2>2. PICK r \in R : \A y \in R : r <= y
    <3> HIDE DEF R
    <3> QED
      BY <2>1, LeastNumber
  <2>3. PICK x \in U : r = CodeLengths - x
    BY <2>2
  <2>4. \A y \in U : CodeLengths - x <= CodeLengths - y
    BY <2>2, <2>3
  <2>5. \A y \in U : x >= y
    BY <1>1, <1>2, <2>4
  <2> QED
    BY <2>5
<1>4. LastLength(num) = CHOOSE x \in U : \A y \in U : x >= y
  BY Zenon DEF LastLength, Max
<1> HIDE DEF U
<1>5. \A y \in U : LastLength(num) >= y
  BY <1>3, <1>4, Zenon
<1> QED
  BY <1>2, <1>3, <1>4, <1>5

LEMMA FirstFree ==
    ASSUME NEW num \in [Length -> Nat], NEW j \in Length
    PROVE  /\ FirstCode(num)[j] \in Nat
           /\ num[j] # 0 => FirstCode(num)[j] = 2 * Taken(num)[j]
<1> DEFINE next(f, n) == IF n = 0 THEN 0 ELSE 2 * (f[n - 1] + num[n - 1])
           taken == Taken(num)
           sum == CHOOSE f : f = [n \in Length |-> next(f, n)]
<1>0. /\ CodeLengths \in Nat /\ CodeLengths - 1 \in Nat
      /\ Length = 0..(CodeLengths - 1)
      /\ \A n \in 1..(CodeLengths - 1) : n \in 1..CodeLengths /\ n - 1 \in Length
      /\ \A n \in Length : n \in 0..CodeLengths
  BY HuffmanAssumption DEF Length
<1>s. /\ \A n \in 0..CodeLengths : taken[n] \in Nat
      /\ taken[0] = 0
      /\ \A n \in 1..CodeLengths : taken[n] = 2 * taken[n - 1] + num[n - 1]
  BY TakenSums
<1> HIDE DEF taken
<1>1. /\ \A n \in Length : taken[n] \in Nat
      /\ taken[0] = 0
      /\ \A n \in 1..(CodeLengths - 1) : taken[n] = 2 * taken[n - 1] + num[n - 1]
  BY <1>0, <1>s
<1>2. \E f : f = [n \in Length |-> next(f, n)]
  <2> DEFINE f == [n \in Length |-> 2 * taken[n]]
  <2>1. ASSUME NEW n \in Length PROVE f[n] = next(f, n)
    <3>1. n # 0 => n \in 1..(CodeLengths - 1) /\ f[n - 1] = 2 * taken[n - 1]
      BY <1>0
    <3>2. f[n] = 2 * taken[n] /\ f[0] = 0
      BY <1>0, <1>1
    <3>3. n # 0 => /\ taken[n - 1] \in Nat /\ num[n - 1] \in Nat
                   /\ taken[n] = 2 * taken[n - 1] + num[n - 1]
      BY <1>0, <1>1, <3>1
    <3> HIDE DEF f
    <3> QED
      BY <3>1, <3>2, <3>3
  <2>2. f = [n \in Length |-> f[n]]
    OBVIOUS
  <2> HIDE DEF f, next
  <2>3. f = [n \in Length |-> next(f, n)]
    BY <2>1, <2>2, Zenon
  <2> QED
    BY <2>3
<1>3. sum = [n \in Length |-> next(sum, n)]
  BY <1>2, Zenon
<1>4. FirstCode(num) =
          [k \in Length |-> IF k <= LastLength(num) THEN sum[k] ELSE NoCode]
  BY Zenon DEF FirstCode
<1> HIDE DEF sum
<1>5. \A n \in Length : sum[n] = next(sum, n)
  BY <1>3, Zenon
<1>6. \A n \in 0..(CodeLengths - 1) : n \in {k \in Length : sum[k] = 2 * taken[k]}
  <2> DEFINE T == {k \in Length : sum[k] = 2 * taken[k]}
  <2>1. 0 \in T
    BY <1>0, <1>1, <1>5
  <2>2. \A n \in 1..(CodeLengths - 1) : n - 1 \in T => n \in T
    BY <1>0, <1>1, <1>5
  <2> HIDE DEF T
  <2> QED
    BY <1>0, <2>1, <2>2, Induction DEF T
<1> QED
  <2>1. sum[j] = 2 * taken[j] /\ taken[j] \in Nat
    BY <1>0, <1>1, <1>6
  <2>2. FirstCode(num)[j] = IF j <= LastLength(num) THEN sum[j] ELSE NoCode
    BY <1>4
  <2>3. num[j] # 0 => j <= LastLength(num)
    BY LastInUse
  <2>4. Taken(num)[j] = taken[j]
    BY DEF taken
  <2> QED
    BY <2>1, <2>2, <2>3, <2>4 DEF NoCode

LEMMA WordsGrow ==
    ASSUME NEW a \in 0..CodeLengths, NEW b \in 0..CodeLengths, a <= b
    PROVE  Words[a] <= Words[b]
<1> DEFINE T == {n \in 0..CodeLengths : a <= n => Words[a] <= Words[n]}
<1>0. CodeLengths \in Nat
  BY HuffmanAssumption
<1>1. 0 \in T
  BY <1>0, WordsDouble
<1>2. \A n \in 1..CodeLengths : n - 1 \in T => n \in T
  <2> SUFFICES ASSUME NEW n \in 1..CodeLengths, n - 1 \in T PROVE n \in T
    OBVIOUS
  <2>1. Words[n - 1] \in Nat /\ Words[n] = 2 * Words[n - 1] /\ Words[a] \in Nat
    BY <1>0, WordsDouble
  <2>2. CASE a = n
    BY <2>1, <2>2
  <2>3. CASE a # n
    BY <2>1, <2>3
  <2> QED
    BY <2>2, <2>3
<1> HIDE DEF T
<1>3. \A n \in 0..CodeLengths : n \in T
  BY <1>0, <1>1, <1>2, Induction
<1> QED
  BY <1>3 DEF T

(* Of the words of every length, not all are taken. *)
LEMMA TakenFits ==
    ASSUME NEW num, Encodable(num), NEW n \in 0..CodeLengths
    PROVE  Taken(num)[n] < Words[n]
<1> DEFINE taken == Taken(num)
           T == {k \in 0..CodeLengths : taken[CodeLengths - k] < Words[CodeLengths - k]}
<1>0. /\ CodeLengths \in Nat /\ num \in [Length -> Nat]
      /\ taken[CodeLengths] < Words[CodeLengths]
  BY HuffmanAssumption DEF Encodable
<1>s. /\ \A m \in 0..CodeLengths : taken[m] \in Nat /\ Words[m] \in Nat
      /\ \A m \in 1..CodeLengths : taken[m] = 2 * taken[m - 1] + num[m - 1]
      /\ \A m \in 1..CodeLengths : Words[m] = 2 * Words[m - 1]
  BY <1>0, TakenSums, WordsDouble
<1> HIDE DEF taken
<1>1. 0 \in T
  BY <1>0
<1>2. \A k \in 1..CodeLengths : k - 1 \in T => k \in T
  <2> SUFFICES ASSUME NEW k \in 1..CodeLengths, k - 1 \in T PROVE k \in T
    OBVIOUS
  <2> DEFINE m == CodeLengths - (k - 1)
  <2>1. m \in 1..CodeLengths /\ m - 1 = CodeLengths - k /\ m - 1 \in 0..CodeLengths
        /\ m - 1 \in Length /\ taken[m] < Words[m]
    BY <1>0 DEF Length
  <2> HIDE DEF m
  <2>2. num[m - 1] \in Nat
    BY <1>0, <2>1
  <2>3. taken[m - 1] < Words[m - 1]
    BY <1>s, <2>1, <2>2
  <2> QED
    BY <2>1, <2>3
<1> HIDE DEF T
<1>3. \A k \in 0..CodeLengths : k \in T
  BY <1>0, <1>1, <1>2, Induction
<1>4. CodeLengths - n \in 0..CodeLengths /\ CodeLengths - (CodeLengths - n) = n
  BY <1>0
<1> QED
  BY <1>3, <1>4 DEF T, taken

(* All longer words that begin with one that is taken are taken. *)
LEMMA TakenGrows ==
    ASSUME NEW num \in [Length -> Nat],
           NEW i \in 0..CodeLengths, NEW d \in 0..CodeLengths, i + d <= CodeLengths
    PROVE  Taken(num)[i] * Words[d] <= Taken(num)[i + d]
<1> DEFINE taken == Taken(num)
           T == {n \in 0..CodeLengths :
                    i + n <= CodeLengths => taken[i] * Words[n] <= taken[i + n]}
<1>0. CodeLengths \in Nat
  BY HuffmanAssumption
<1>s. /\ \A m \in 0..CodeLengths : taken[m] \in Nat /\ Words[m] \in Nat
      /\ \A m \in 1..CodeLengths : taken[m] = 2 * taken[m - 1] + num[m - 1]
      /\ \A m \in 1..CodeLengths : Words[m] = 2 * Words[m - 1]
      /\ Words[0] = 1
  BY <1>0, TakenSums, WordsDouble
<1> HIDE DEF taken
<1>1. 0 \in T
  BY <1>0, <1>s
<1>2. \A n \in 1..CodeLengths : n - 1 \in T => n \in T
  <2> SUFFICES ASSUME NEW n \in 1..CodeLengths, n - 1 \in T, i + n <= CodeLengths
               PROVE  taken[i] * Words[n] <= taken[i + n]
    OBVIOUS
  <2>1. /\ i + n \in 1..CodeLengths /\ i + n - 1 = i + (n - 1) /\ i + n - 1 \in Length
        /\ n - 1 \in 0..CodeLengths
    BY <1>0 DEF Length
  <2>2. taken[i] * Words[n - 1] <= taken[i + (n - 1)]
    BY <1>0, <2>1
  <2> DEFINE a == taken[i]
             b == Words[n - 1]
             c == taken[i + (n - 1)]
  <2>3. num[i + n - 1] \in Nat
    BY <2>1
  <2>4. /\ a \in Nat /\ b \in Nat /\ c \in Nat /\ a * b <= c
        /\ Words[n] = 2 * b /\ taken[i + n] >= 2 * c /\ taken[i + n] \in Nat
    BY <1>0, <1>s, <2>1, <2>2, <2>3
  <2> HIDE DEF a, b, c
  <2>5. a * (2 * b) <= 2 * c
    BY <2>4
  <2> QED
    BY <2>4, <2>5 DEF a
<1> HIDE DEF T
<1>3. \A n \in 0..CodeLengths : n \in T
  BY <1>0, <1>1, <1>2, Induction
<1> QED
  BY <1>3 DEF T, taken

(* The symbols of the lengths follow each other without a gap. *)
LEMMA IndexGrows ==
    ASSUME NEW num \in [Length -> Nat],
           NEW a \in 0..CodeLengths, NEW b \in 0..CodeLengths, a <= b
    PROVE  SymbolIndex(num)[a] <= SymbolIndex(num)[b]
<1> DEFINE index == SymbolIndex(num)
           T == {n \in 0..CodeLengths : a <= n => index[a] <= index[n]}
<1>0. CodeLengths \in Nat
  BY HuffmanAssumption
<1>s. /\ \A n \in 0..CodeLengths : index[n] \in Nat
      /\ \A n \in 1..CodeLengths : index[n] = index[n - 1] + num[n - 1]
  BY IndexSums
<1> HIDE DEF index
<1>1. 0 \in T
  BY <1>0, <1>s
<1>2. \A n \in 1..CodeLengths : n - 1 \in T => n \in T
  <2> SUFFICES ASSUME NEW n \in 1..CodeLengths, n - 1 \in T PROVE n \in T
    OBVIOUS
  <2>1. n - 1 \in 0..CodeLengths /\ num[n - 1] \in Nat
    BY <1>0 DEF Length
  <2>2. index[n - 1] \in Nat /\ index[n] = index[n - 1] + num[n - 1] /\ index[a] \in Nat
    BY <1>s, <2>1
  <2>3. CASE a = n
    BY <2>2, <2>3
  <2>4. CASE a # n
    BY <2>1, <2>2, <2>4
  <2> QED
    BY <2>3, <2>4
<1> HIDE DEF T
<1>3. \A n \in 0..CodeLengths : n \in T
  BY <1>0, <1>1, <1>2, Induction
<1> QED
  BY <1>3 DEF T, index

LEMMA IndexCovers ==
    ASSUME NEW num \in [Length -> Nat], NEW s \in Nat, s < SymbolIndex(num)[CodeLengths]
    PROVE  \E j \in Length : SymbolIndex(num)[j] <= s /\ s < SymbolIndex(num)[j + 1]
<1> DEFINE index == SymbolIndex(num)
           T == {n \in 0..CodeLengths :
                    s < index[n] => \E j \in Length : index[j] <= s /\ s < index[j + 1]}
<1>0. CodeLengths \in Nat
  BY HuffmanAssumption
<1>s. index[0] = 0 /\ \A n \in 0..CodeLengths : index[n] \in Nat
  BY IndexSums
<1> HIDE DEF index
<1>1. 0 \in T
  BY <1>0, <1>s
<1>2. \A n \in 1..CodeLengths : n - 1 \in T => n \in T
  <2> SUFFICES ASSUME NEW n \in 1..CodeLengths, n - 1 \in T, s < index[n]
               PROVE  \E j \in Length : index[j] <= s /\ s < index[j + 1]
    OBVIOUS
  <2>1. n - 1 \in Length /\ (n - 1) + 1 = n /\ index[n - 1] \in Nat
    BY <1>0, <1>s DEF Length
  <2>2. CASE index[n - 1] <= s
    BY <2>1, <2>2
  <2>3. CASE s < index[n - 1]
    BY <2>3
  <2> QED
    BY <2>1, <2>2, <2>3
<1> HIDE DEF T
<1>3. \A n \in 0..CodeLengths : n \in T
  BY <1>0, <1>1, <1>2, Induction
<1>4. CodeLengths \in 0..CodeLengths /\ s < index[CodeLengths]
  BY <1>0 DEF index
<1> QED
  BY <1>3, <1>4 DEF T, index

(* The code words of a length are those between what shorter words take and what it
   takes itself, in the order of their symbols. *)
LEMMA WordRange ==
    ASSUME NEW num, Encodable(num), NEW w \in CodeWords(num)
    PROVE  /\ w[1] \in Length /\ w[2] \in Nat /\ w = <<w[1], w[2]>>
           /\ 2 * Taken(num)[w[1]] <= w[2] /\ w[2] < Taken(num)[w[1] + 1]
           /\ Symbol(num, w) = SymbolIndex(num)[w[1]] + (w[2] - 2 * Taken(num)[w[1]])
           /\ SymbolIndex(num)[w[1]] <= Symbol(num, w)
           /\ Symbol(num, w) < SymbolIndex(num)[w[1] + 1]
<1> DEFINE j == w[1]
           c == w[2]
           first == FirstCode(num)[j]
<1>0. CodeLengths \in Nat /\ num \in [Length -> Nat]
  BY HuffmanAssumption DEF Encodable
<1>1. /\ j \in Length /\ c \in 0..(Words[CodeLengths] - 1) /\ w = <<j, c>>
      /\ first <= c /\ c < first + num[j]
  BY DEF CodeWords
<1>2. c \in Nat /\ num[j] \in Nat /\ first \in Nat
  <2>1. Words[CodeLengths] \in Nat
    BY <1>0, WordsDouble
  <2>2. first \in Nat
    BY <1>0, <1>1, FirstFree
  <2> HIDE DEF j, c, first
  <2> QED
    BY <1>0, <1>1, <2>1, <2>2
<1>3. Symbol(num, w) = SymbolIndex(num)[j] + (c - first)
  BY DEF Symbol
<1>4. num[j] # 0
  <2> HIDE DEF j, c, first
  <2> QED
    BY <1>1, <1>2
<1>5. first = 2 * Taken(num)[j]
  BY <1>0, <1>1, <1>4, FirstFree
<1>6. /\ j \in 0..CodeLengths /\ j + 1 \in 1..CodeLengths /\ j + 1 - 1 = j
  BY <1>0, <1>1 DEF Length
<1>7. /\ Taken(num)[j] \in Nat
      /\ Taken(num)[j + 1] = 2 * Taken(num)[j] + num[j]
  BY <1>0, <1>6, TakenSums
<1>8. /\ SymbolIndex(num)[j] \in Nat
      /\ SymbolIndex(num)[j + 1] = SymbolIndex(num)[j] + num[j]
  BY <1>0, <1>6, IndexSums
<1>9. /\ j \in Length /\ c \in Nat /\ w = <<j, c>>
      /\ 2 * Taken(num)[j] <= c /\ c < Taken(num)[j + 1]
      /\ Symbol(num, w) = SymbolIndex(num)[j] + (c - 2 * Taken(num)[j])
      /\ SymbolIndex(num)[j] <= Symbol(num, w)
      /\ Symbol(num, w) < SymbolIndex(num)[j + 1]
  <2> HIDE DEF j, c, first
  <2> QED
    BY <1>1, <1>2, <1>3, <1>5, <1>7, <1>8
<1> QED
  BY <1>9

(* Every symbol has a word. *)
LEMMA WordOf ==
    ASSUME NEW num, Encodable(num), NEW s \in Nat, s < SymbolIndex(num)[CodeLengths]
    PROVE  \E w \in CodeWords(num) : Symbol(num, w) = s
<1>0. CodeLengths \in Nat /\ num \in [Length -> Nat]
  BY HuffmanAssumption DEF Encodable
<1>1. PICK j \in Length : SymbolIndex(num)[j] <= s /\ s < SymbolIndex(num)[j + 1]
  BY <1>0, IndexCovers
<1>2. /\ j \in 0..CodeLengths /\ j + 1 \in 1..CodeLengths /\ j + 1 - 1 = j
      /\ j + 1 \in 0..CodeLengths /\ CodeLengths \in 0..CodeLengths /\ j + 1 <= CodeLengths
  BY <1>0 DEF Length
<1>3. /\ SymbolIndex(num)[j] \in Nat /\ num[j] \in Nat
      /\ SymbolIndex(num)[j + 1] = SymbolIndex(num)[j] + num[j]
  BY <1>0, <1>2, IndexSums
<1>4. num[j] # 0
  BY <1>1, <1>3
<1>5. FirstCode(num)[j] = 2 * Taken(num)[j]
  BY <1>0, <1>4, FirstFree
<1>6. /\ Taken(num)[j] \in Nat
      /\ Taken(num)[j + 1] = 2 * Taken(num)[j] + num[j]
  BY <1>0, <1>2, TakenSums
<1>7. /\ Taken(num)[j + 1] < Words[j + 1] /\ Words[j + 1] <= Words[CodeLengths]
      /\ Words[j + 1] \in Nat /\ Words[CodeLengths] \in Nat
  BY <1>2, TakenFits, WordsGrow, WordsDouble
<1> DEFINE c == 2 * Taken(num)[j] + (s - SymbolIndex(num)[j])
           w == <<j, c>>
<1>8. /\ c \in 0..(Words[CodeLengths] - 1)
      /\ 2 * Taken(num)[j] <= c /\ c < 2 * Taken(num)[j] + num[j]
      /\ SymbolIndex(num)[j] + (c - 2 * Taken(num)[j]) = s
  BY <1>1, <1>3, <1>6, <1>7
<1> HIDE DEF c
<1>9. w \in CodeWords(num)
  BY <1>5, <1>8 DEF CodeWords
<1>10. Symbol(num, w) = s
  BY <1>5, <1>8 DEF Symbol
<1> QED
  BY <1>9, <1>10

(* No word begins with a shorter one: longer words begin where all that begin with a
   shorter one end. *)
LEMMA NoneBegins ==
    ASSUME NEW num, Encodable(num), NEW v \in CodeWords(num), NEW w \in CodeWords(num)
    PROVE  ~Begins(v, w)
<1> SUFFICES ASSUME Begins(v, w) PROVE FALSE
  OBVIOUS
<1> DEFINE i == v[1]
           d == w[1] - v[1]
<1>0. CodeLengths \in Nat /\ num \in [Length -> Nat]
  BY HuffmanAssumption DEF Encodable
<1>1. /\ i \in Length /\ w[1] \in Length /\ v[2] \in Nat /\ w[2] \in Nat
      /\ v[2] < Taken(num)[i + 1] /\ 2 * Taken(num)[w[1]] <= w[2]
  BY WordRange
<1>2. PICK bits \in 0..(Words[d] - 1) : v[1] < w[1] /\ w[2] = v[2] * Words[d] + bits
  BY DEF Begins
<1>3. /\ i + 1 \in 0..CodeLengths /\ d - 1 \in 0..CodeLengths /\ d \in 1..CodeLengths
      /\ w[1] = (i + 1) + (d - 1) /\ (i + 1) + (d - 1) <= CodeLengths
      /\ w[1] \in 0..CodeLengths
  <2>1. ASSUME NEW m \in Nat, NEW a \in 0..(m - 1), NEW z \in 0..(m - 1), a < z
        PROVE  /\ a + 1 \in 0..m /\ (z - a) - 1 \in 0..m /\ z - a \in 1..m
               /\ z = (a + 1) + ((z - a) - 1) /\ (a + 1) + ((z - a) - 1) <= m
               /\ z \in 0..m
    BY <2>1
  <2> QED
    BY <1>0, <1>1, <1>2, <2>1 DEF Length
<1>4. Taken(num)[i + 1] * Words[d - 1] <= Taken(num)[w[1]]
  BY <1>0, <1>3, TakenGrows
<1>5. /\ Taken(num)[i + 1] \in Nat /\ Taken(num)[w[1]] \in Nat
      /\ Words[d] = 2 * Words[d - 1] /\ Words[d - 1] \in Nat
  BY <1>0, <1>3, TakenSums, WordsDouble
<1> DEFINE t == Taken(num)[i + 1]
           b == Words[d - 1]
           u == Taken(num)[w[1]]
           x == v[2]
           y == w[2]
<1>6. /\ t \in Nat /\ b \in Nat /\ u \in Nat /\ x \in Nat /\ y \in Nat
      /\ x < t /\ t * b <= u /\ 2 * u <= y
      /\ bits \in 0..(2 * b - 1) /\ y = x * (2 * b) + bits
  BY <1>1, <1>2, <1>4, <1>5
<1> HIDE DEF t, b, u, x, y
<1>7. (x + 1) * b <= t * b
  <2>1. PICK k \in Nat : t = (x + 1) + k
    <3>1. t - (x + 1) \in Nat /\ t = (x + 1) + (t - (x + 1))
      BY <1>6
    <3> QED
      BY <3>1
  <2>2. ((x + 1) + k) * b = (x + 1) * b + k * b
    BY <1>6, <2>1
  <2>3. k * b \in Nat /\ (x + 1) * b \in Nat
    BY <1>6, <2>1
  <2> QED
    BY <2>1, <2>2, <2>3
<1>8. PICK e \in Nat : e = x * b
  BY <1>6
<1>9. (x + 1) * b = e + b /\ x * (2 * b) = 2 * e
  BY <1>6, <1>8
<1>10. e + b <= u /\ y < 2 * e + 2 * b
  <2>1. t * b \in Nat
    BY <1>6
  <2> QED
    BY <1>6, <1>7, <1>9, <2>1
<1> QED
  BY <1>6, <1>8, <1>10

(* The codes that set_huffman_tables derives are canonical Huffman codes: for every
   table that an encoder can write, every symbol has exactly one word, it fits its
   length, and no word begins with another. *)
LEMMA CodesRead ==
    ASSUME NEW num, Encodable(num)
    PROVE  Readable(num)
<1> DEFINE words == CodeWords(num)
           index == SymbolIndex(num)
<1>0. CodeLengths \in Nat /\ num \in [Length -> Nat]
  BY HuffmanAssumption DEF Encodable
<1>s. \A n \in 0..CodeLengths : index[n] \in Nat
  BY <1>0, IndexSums
<1>1. ASSUME NEW w \in words
      PROVE  /\ w[1] \in Length /\ w[1] \in 0..CodeLengths /\ w[1] + 1 \in 0..CodeLengths
             /\ Symbol(num, w) \in Int
             /\ index[w[1]] <= Symbol(num, w) /\ Symbol(num, w) < index[w[1] + 1]
  <2>1. /\ w[1] \in Length /\ w[2] \in Nat
        /\ Symbol(num, w) = index[w[1]] + (w[2] - 2 * Taken(num)[w[1]])
        /\ index[w[1]] <= Symbol(num, w) /\ Symbol(num, w) < index[w[1] + 1]
    BY WordRange
  <2>2. w[1] \in 0..CodeLengths /\ w[1] + 1 \in 0..CodeLengths
    BY <1>0, <2>1 DEF Length
  <2>3. Taken(num)[w[1]] \in Nat /\ index[w[1]] \in Nat
    BY <1>0, <1>s, <2>2, TakenSums
  <2> HIDE DEF index
  <2> QED
    BY <2>1, <2>2, <2>3
<1>2. {Symbol(num, w) : w \in words} = 0..(index[CodeLengths] - 1)
  <2>1. ASSUME NEW w \in words
        PROVE  Symbol(num, w) \in 0..(index[CodeLengths] - 1)
    <3>1. index[w[1] + 1] <= index[CodeLengths]
      BY <1>0, <1>1, IndexGrows
    <3>2. /\ index[w[1]] \in Nat /\ index[w[1] + 1] \in Nat
          /\ index[CodeLengths] \in Nat
      BY <1>0, <1>1, <1>s
    <3> HIDE DEF index
    <3> QED
      BY <1>1, <3>1, <3>2
  <2>2. ASSUME NEW s \in 0..(index[CodeLengths] - 1)
        PROVE  \E w \in words : Symbol(num, w) = s
    <3>1. index[CodeLengths] \in Nat
      BY <1>0, <1>s
    <3>2. s \in Nat /\ s < index[CodeLengths]
      <4> HIDE DEF index
      <4> QED
        BY <3>1
    <3> QED
      BY <3>2, WordOf
  <2> HIDE DEF words, index
  <2> QED
    BY <2>1, <2>2
<1>3. ASSUME NEW v \in words, NEW w \in words, v # w
      PROVE  Symbol(num, v) # Symbol(num, w)
  <2>1. ASSUME NEW a \in words, NEW b \in words, a[1] < b[1]
        PROVE  Symbol(num, a) < Symbol(num, b)
    <3>1. a[1] + 1 <= b[1]
      BY <1>1, <2>1 DEF Length
    <3>2. index[a[1] + 1] <= index[b[1]]
      BY <1>0, <1>1, <3>1, IndexGrows
    <3>3. index[a[1] + 1] \in Nat /\ index[b[1]] \in Nat
      BY <1>1, <1>s
    <3> HIDE DEF index
    <3> QED
      BY <1>1, <3>2, <3>3
  <2>2. CASE v[1] = w[1]
    <3>1. /\ v[2] # w[2] /\ v[2] \in Nat /\ w[2] \in Nat
          /\ Symbol(num, v) = index[v[1]] + (v[2] - 2 * Taken(num)[v[1]])
          /\ Symbol(num, w) = index[v[1]] + (w[2] - 2 * Taken(num)[v[1]])
      BY <1>3, <2>2, WordRange
    <3>2. index[v[1]] \in Nat /\ Taken(num)[v[1]] \in Nat
      BY <1>0, <1>1, <1>s, TakenSums
    <3> HIDE DEF index
    <3> QED
      BY <3>1, <3>2
  <2>3. CASE v[1] # w[1]
    <3>1. v[1] < w[1] \/ w[1] < v[1]
      BY <1>1, <2>3 DEF Length
    <3> QED
      BY <1>1, <2>1, <3>1
  <2> QED
    BY <2>2, <2>3
<1>4. ASSUME NEW w \in words
      PROVE  w[2] < Words[w[1] + 1]
  <2>1. w[2] < Taken(num)[w[1] + 1] /\ w[2] \in Nat
    BY WordRange
  <2>2. Taken(num)[w[1] + 1] < Words[w[1] + 1]
    BY <1>1, TakenFits
  <2>3. Taken(num)[w[1] + 1] \in Nat /\ Words[w[1] + 1] \in Nat
    BY <1>0, <1>1, TakenSums, WordsDouble
  <2> QED
    BY <2>1, <2>2, <2>3
<1>5. \A v, w \in words : ~Begins(v, w)
  BY NoneBegins
<1> HIDE DEF words, index
<1> QED
  BY <1>2, <1>3, <1>4, <1>5, Zenon DEF Readable, words, index

-----------------------------------------------------------------------------
(* What the camera is relied upon for, and what the engine is given: a table of one of
   its segments in every slot that has one. *)
TablesEncodable ==
    \A seg \in Segments : seg.marker = "DHT" =>
        \A k \in DOMAIN seg.tables : Encodable(seg.tables[k].num)

EngineTables ==
    engine # None => \A id \in 0..3 : engine.huffman[id] # None =>
        \E seg \in Segments : /\ seg.marker = "DHT"
                              /\ \E k \in DOMAIN seg.tables :
                                    engine.huffman[id] = seg.tables[k]

LEMMA DecodeTables ==
    ASSUME ParserOK, OwnTables, DecodeFrame PROVE EngineTables'
<1>1. /\ pc = "accepted" /\ header \in Seq(Segments)
      /\ engine'.huffman = [id \in 0..3 |-> Table(jpeg.huffman[id])]
  BY DEF DecodeFrame, ParserOK, TypeOK
<1>2. ASSUME NEW number, NEW class, NEW pointer \in HuffmanPlaces(header, number, class)
      PROVE  \E seg \in Segments : /\ seg.marker = "DHT"
                                   /\ \E k \in DOMAIN seg.tables :
                                         Table(pointer) = seg.tables[k]
  <2>1. PICK i \in DOMAIN header :
              /\ header[i].marker = "DHT"
              /\ \E k \in DOMAIN header[i].tables : pointer = <<i, k>>
    BY DEF HuffmanPlaces
  <2>2. PICK k \in DOMAIN header[i].tables : pointer = <<i, k>>
    BY <2>1
  <2>3. Table(pointer) = header[i].tables[k]
    BY <2>2 DEF Table, None
  <2>4. header[i] \in Segments
    BY <1>1, <2>1
  <2> QED
    BY <2>1, <2>3, <2>4
<1>3. ASSUME NEW id \in 0..3, Table(jpeg.huffman[id]) # None
      PROVE  \E number, class : jpeg.huffman[id] \in HuffmanPlaces(header, number, class)
  <2>1. jpeg.huffman[id] # None
    BY <1>3 DEF Table
  <2>2. ASSUME NEW number \in 0..3
        PROVE  /\ LeadsToLast(jpeg.huffman[2 * number], HuffmanPlaces(header, number, "DC"))
               /\ LeadsToLast(jpeg.huffman[2 * number + 1],
                              HuffmanPlaces(header, number, "AC"))
    BY <1>1 DEF OwnTables
  <2>3. PICK number \in 0..3 : id = 2 * number \/ id = 2 * number + 1
    <3>1. id = 2 * 0 \/ id = 2 * 0 + 1 \/ id = 2 * 1 \/ id = 2 * 1 + 1
      OBVIOUS
    <3> QED
      BY <3>1
  <2> QED
    BY <2>1, <2>2, <2>3 DEF LeadsToLast
<1> QED
  BY <1>1, <1>2, <1>3 DEF EngineTables

LEMMA EngineTablesStep ==
    ParserOK /\ OwnTables /\ EngineTables /\ [Next]_vars => EngineTables'
<1> SUFFICES ASSUME ParserOK, OwnTables, EngineTables, [Next]_vars PROVE EngineTables'
  OBVIOUS
<1>1. CASE (\E bytes \in Lengths : StartFrame(bytes)) \/ HwClose
  BY <1>1 DEF StartFrame, HwClose, EngineTables
<1>2. CASE \E seg \in Segments : Parse(seg)
  <2>1. UNCHANGED engine
    BY <1>2, ParseKeeps DEF ParserOK
  <2> QED
    BY <2>1 DEF EngineTables
<1>3. CASE \/ DropUnusable \/ InitDisplay \/ InitDisplayFails \/ MissingTables
           \/ UNCHANGED vars
  <2>1. UNCHANGED engine
    BY <1>3 DEF DropUnusable, InitDisplay, InitDisplayFails, MissingTables, vars
  <2> QED
    BY <2>1 DEF EngineTables
<1>4. CASE DecodeFrame
  BY <1>4, DecodeTables
<1> QED
  BY <1>1, <1>2, <1>3, <1>4 DEF Next

(* For every camera that writes tables as JPEG encoders do, which the code does not
   look at, and for every length of a code word: a decoder that follows the first code
   words and the indices the engine is given reads every symbol, each from one word,
   and never takes the beginning of a word for another (jpeg_dec_main.c:67-87). *)
THEOREM CodesCorrect ==
    ASSUME TablesEncodable PROVE Spec => []CodesReadable
<1>1. Init => EngineTables
  BY DEF Init, EngineTables
<1>2. EngineTables => CodesReadable
  BY CodesRead DEF EngineTables, CodesReadable, TablesEncodable
<1> QED
  BY <1>1, <1>2, ParserInit, ParserStep, OwnTablesInit, OwnTablesStep, EngineTablesStep,
     PTL DEF Spec

=============================================================================
