--------------------------- MODULE DisplayGeometry ---------------------------
(***************************************************************************)
(* The layout of a frame buffer: what init_display allocates and tells the *)
(* display engine (display.c), and what the video engine is told to write  *)
(* (jpeg_dec_main.c).  The two sides compute their sizes on their own.     *)
(*                                                                         *)
(* A format is <<samp_h, samp_v>> of the luma component.  Sizes are below  *)
(* 2^15, so that no product leaves 32 bits.                                *)
(***************************************************************************)
EXTENDS Integers

CONSTANT PAGE_SIZE

ASSUME GeometryAssumption == PAGE_SIZE \in Nat \ {0}

(* The formats init_display has a pixel format for: 4:4:4, 4:2:2 and 4:2:0. *)
PixelFormats == {<<1, 1>>, <<2, 1>>, <<2, 2>>}

subsampling_divisor(f) == f[1] * f[2]
chroma_pitches_divisor(f) == f[1]

(* x & ~m for a power of two m: one bit is cleared, not all below it too. *)
ClearBit(x, m) == IF (x \div m) % 2 = 1 THEN x - m ELSE x

(* (x + m) & ~m, meant to round x up to a multiple of m. *)
Padded(x, m) == ClearBit(x + m, m)

w_aligned(w) == Padded(w, 32)
h_aligned(h) == Padded(h, 32)
u_offset(w, h) == Padded(w_aligned(w) * h_aligned(h), PAGE_SIZE)
u_size(w, h, f) == Padded(u_offset(w, h) \div subsampling_divisor(f), PAGE_SIZE)
v_offset(w, h, f) == u_offset(w, h) + u_size(w, h, f)
buffer_size(w, h, f) == Padded(v_offset(w, h, f) + u_size(w, h, f), PAGE_SIZE)

-----------------------------------------------------------------------------
(* What the two engines access. *)

RoundUp(x, m) == ((x + m - 1) \div m) * m

(* The pitches and rows the framebuffer is added with: bytes of each plane the
   display engine (external) reads.  The pitch is made with the divisor of the layout,
   the rows are those of the pixel format. *)
ScannedLuma(w, h) == w * h
ScannedChroma(w, h, f, pixel_format) ==
    (w \div chroma_pitches_divisor(f)) * (h \div pixel_format[2])

line_stride(w) == RoundUp(w, 32)

(* set_size: the index of the last macroblock in a row and in a column. *)
SizeRegister(w, h, f) == <<(w - 1) \div (8 * f[1]), (h - 1) \div (8 * f[2])>>

(* The video engine (external) writes whole rows of macroblocks: as many as the size
   register says, of the height and with the chroma that the format register says. *)
WrittenLuma(w, h, f, format) ==
    line_stride(w) * (8 * format[2]) * (SizeRegister(w, h, f)[2] + 1)
WrittenChroma(w, h, f, format) ==
    (line_stride(w) \div format[1]) * 8 * (SizeRegister(w, h, f)[2] + 1)

-----------------------------------------------------------------------------
(* The display engine reads every plane inside its part of the buffer. *)
ScanoutInside(w, h, f, pixel_format) ==
    /\ ScannedLuma(w, h) <= u_offset(w, h)
    /\ ScannedChroma(w, h, f, pixel_format) <= u_size(w, h, f)
    /\ v_offset(w, h, f) + u_size(w, h, f) <= buffer_size(w, h, f)

(* Where the bit that is cleared leaves room for the last macroblocks: either there
   is nothing to round up or the bit was not set. *)
PaddingSuffices(w, h) ==
    /\ w % 32 = 0 \/ (w \div 32) % 2 = 1
    /\ h % 16 = 0 \/ (h \div 32) % 2 = 1

(* The video engine's luma ends before the U plane begins, its U before the V plane, and
   its V before the end of the buffer; a layout without pixel format has chroma planes of
   any size. *)
VideoInside(layout, picture, format) ==
    LET w == layout.width
        h == layout.height
        f == layout.samp
        chroma == WrittenChroma(picture.width, picture.height, picture.samp, format)
    IN  /\ WrittenLuma(picture.width, picture.height, picture.samp, format)
              <= u_offset(w, h)
        /\ f \in PixelFormats =>
              /\ u_offset(w, h) + chroma <= v_offset(w, h, f)
              /\ v_offset(w, h, f) + chroma <= buffer_size(w, h, f)

=============================================================================
