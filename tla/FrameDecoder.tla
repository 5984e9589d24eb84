---------------------------- MODULE FrameDecoder ----------------------------
(***************************************************************************)
(* One frame after the other through hw_decode_jpeg_main: parse_jpeg walks *)
(* over the segments of the frame's header (jpeg.c), the first usable      *)
(* frame of a session initialises the display, and the video engine is     *)
(* programmed with what the header says (jpeg_dec_main.c).                 *)
(*                                                                         *)
(* A segment is a record: its marker, the number of fill bytes 0xff before *)
(* it, its length field and what its kind carries.  The camera (external)  *)
(* shows the next segment when the parser gets there; header keeps those   *)
(* seen.  A frame may be cut off after any number of bytes, by len.  A     *)
(* pointer into the frame is <<segment, table of the segment>>.            *)
(***************************************************************************)
EXTENDS DisplayGeometry, HuffmanTable, Sequences

CONSTANTS
    Segments,      \* what may come in a header
    MaxSegments,   \* bound: segments of a header
    Lengths        \* bytes of a frame delivered

(* A length field counts its own two bytes; a frame header gives the size; a segment of
   tables has them in order. *)
ASSUME FrameDecoderAssumption ==
    /\ MaxSegments \in Nat /\ Lengths \subseteq Nat
    /\ \A seg \in Segments :
          /\ seg.fill \in Nat /\ seg.len \in Nat /\ seg.len >= 2
          /\ seg.marker \in {"SOF0", "SOS"} => seg.ycbcr \in BOOLEAN
          /\ seg.marker = "SOF0" =>
                /\ seg.width \in Nat \ {0} /\ seg.height \in Nat \ {0}
                /\ seg.samp \in Nat \X Nat
          /\ seg.marker \in {"DQT", "DHT"} =>
                /\ Len(seg.tables) \in Nat
                /\ DOMAIN seg.tables = 1..Len(seg.tables)
          /\ seg.marker = "DHT" => \A k \in DOMAIN seg.tables :
                /\ seg.tables[k].number \in 0..3
                /\ seg.tables[k].class \in {"DC", "AC"}

VARIABLES
    pc,                   \* "idle", "parse", "accepted", or "dead": the process ended
    len,                  \* bytes of the frame
    pos,                  \* the parser's position in them
    header,               \* the segments met so far
    jpeg,                 \* the parser's result
    display_initialized,
    layout,               \* the frame buffers' layout, of init_display
    pixel_format,         \* drm_mode_pixel_format: the subsampling it stands for
    format,               \* the engine's register of the subsampling
    engine                \* what the video engine is programmed with for this frame

display == <<display_initialized, layout, pixel_format>>
parser == <<len, pos, header, jpeg>>
vars == <<pc, parser, display, format, engine>>

None == <<>>
NoSamp == <<0, 0>>

Blank ==   \* memset
    [width |-> 0, height |-> 0, samp |-> NoSamp, restart_interval |-> 0,
     quant |-> [id \in 0..3 |-> None], huffman |-> [id \in 0..7 |-> None],
     data_len |-> 0]

MarkersOfOtherCodings == {"DAC", "SOF1", "SOF2", "SOI", "EOI"}

-----------------------------------------------------------------------------
(* The frame arrives.  A frame is a JPEG whose first two bytes are SOI; one of less than
   two bytes is dropped. *)

(* Fault form: the result of the last frame is not cleared. *)
StartFrame_NoMemset(bytes) ==
    /\ pc = "idle"
    /\ len' = bytes /\ pos' = 2 /\ header' = <<>>
    /\ pc' = IF bytes < 2 THEN "idle" ELSE "parse"
    /\ engine' = None
    /\ UNCHANGED <<jpeg, display, format>>

StartFrame(bytes) ==
    /\ pc = "idle"
    /\ len' = bytes /\ pos' = 2 /\ header' = <<>>
    /\ jpeg' = Blank
    /\ pc' = IF bytes < 2 THEN "idle" ELSE "parse"
    /\ engine' = None
    /\ UNCHANGED <<display, format>>

-----------------------------------------------------------------------------
(* parse_jpeg, one segment a step. *)

(* Fault form: a segment that ends where the frame ends, with no picture behind. *)
Delivered_ToTheEnd(seg) ==
    /\ pos + seg.fill + 2 < len
    /\ pos + seg.fill + 1 + seg.len <= len

(* Fault form: the length of the segment is not looked at. *)
Delivered_AnyLength(seg) == pos + seg.fill + 2 < len

(* The two tests of the position: before the marker and behind it. *)
Delivered(seg) ==
    /\ pos + seg.fill + 2 < len
    /\ pos + seg.fill + 1 + seg.len < len

Meet(seg, kinds) ==
    /\ pc = "parse"
    /\ Len(header) < MaxSegments
    /\ seg.marker \in kinds
    /\ header' = Append(header, seg)
    /\ UNCHANGED <<len, display, format, engine>>

(* The parser goes on behind the segment, or gives up. *)
Continue(seg, ok) ==
    /\ pos' = pos + seg.fill + 1 + seg.len
    /\ pc' = IF ok THEN "parse" ELSE "idle"

CutOff(seg) ==
    /\ Meet(seg, {seg.marker})
    /\ ~Delivered(seg)
    /\ pc' = "idle"
    /\ UNCHANGED <<pos, jpeg>>

(* The tables of a segment replace those of the same number, in their order. *)
PointAt(pointers, ids, n) ==
    [id \in DOMAIN pointers |->
        LET found == {k \in DOMAIN ids : ids[k] = id}
        IN  IF found = {} THEN pointers[id]
            ELSE <<n, CHOOSE k \in found : \A l \in found : l <= k>>]

(* process_dqt stops at a table of 16 bit. *)
Accepted(tables) == {k \in DOMAIN tables : \A l \in 1..k : tables[l].bits = 8}

ProcessDqt(seg) ==
    /\ Meet(seg, {"DQT"}) /\ Delivered(seg)
    /\ jpeg' = [jpeg EXCEPT !.quant =
                   PointAt(jpeg.quant,
                           [k \in Accepted(seg.tables) |-> seg.tables[k].id],
                           Len(header'))]
    /\ Continue(seg, Accepted(seg.tables) = DOMAIN seg.tables)

HuffmanId(t) == t.number * 2 + (IF t.class = "AC" THEN 1 ELSE 0)

ProcessDht(seg) ==
    /\ Meet(seg, {"DHT"}) /\ Delivered(seg)
    /\ jpeg' = [jpeg EXCEPT !.huffman =
                   PointAt(jpeg.huffman,
                           [k \in DOMAIN seg.tables |-> HuffmanId(seg.tables[k])],
                           Len(header'))]
    /\ Continue(seg, TRUE)

(* Every frame brings its size and its sampling, which nothing compares with those of the
   frame before; samp is the luma component's.  A component that is not one of Y, Cb and
   Cr ends the parsing, here and in the scan header. *)
ProcessSof0(seg) ==
    /\ Meet(seg, {"SOF0"}) /\ Delivered(seg)
    /\ jpeg' = [jpeg EXCEPT !.width = seg.width, !.height = seg.height,
                   !.samp = seg.samp]
    /\ Continue(seg, seg.ycbcr)

ProcessDri(seg) ==
    /\ Meet(seg, {"DRI"}) /\ Delivered(seg)
    /\ jpeg' = [jpeg EXCEPT !.restart_interval = seg.interval]
    /\ Continue(seg, TRUE)

(* What is behind the scan header is the picture. *)
ProcessSos(seg) ==
    /\ Meet(seg, {"SOS"}) /\ Delivered(seg)
    /\ pos' = pos + seg.fill + 1 + seg.len
    /\ jpeg' = [jpeg EXCEPT !.data_len = IF seg.ycbcr THEN len - pos' ELSE 0]
    /\ pc' = IF seg.ycbcr THEN "accepted" ELSE "idle"

Unsupported(seg) ==
    /\ Meet(seg, MarkersOfOtherCodings) /\ Delivered(seg)
    /\ pc' = "idle"
    /\ UNCHANGED <<pos, jpeg>>

SkipSegment(seg) ==
    /\ Meet(seg, {"APP0"}) /\ Delivered(seg)
    /\ Continue(seg, TRUE)
    /\ UNCHANGED jpeg

-----------------------------------------------------------------------------
(* hw_decode_jpeg_main, once the header is parsed. *)

get_format(j) == IF j.samp \in PixelFormats \cup {<<1, 2>>} THEN j.samp ELSE NoSamp

DropUnusable ==
    /\ pc = "accepted" /\ ~display_initialized
    /\ get_format(jpeg) = NoSamp
    /\ pc' = "idle"
    /\ UNCHANGED <<parser, display, format, engine>>

(* Fault form: the first frame of a session is not looked at either. *)
InitDisplay_AnyFormat ==
    /\ pc = "accepted" /\ ~display_initialized
    /\ pixel_format' = IF jpeg.samp \in PixelFormats THEN jpeg.samp ELSE pixel_format
    /\ pixel_format' # NoSamp
    /\ layout' = [width |-> jpeg.width, height |-> jpeg.height, samp |-> jpeg.samp]
    /\ display_initialized' = TRUE
    /\ UNCHANGED <<pc, parser, format, engine>>

(* For 1x2 init_display sets no pixel format and no divisors: the framebuffer gets the
   format of an earlier session and chroma planes of any size. *)
InitDisplay ==
    /\ pc = "accepted" /\ ~display_initialized
    /\ get_format(jpeg) # NoSamp
    /\ pixel_format' = IF jpeg.samp \in PixelFormats THEN jpeg.samp ELSE pixel_format
    /\ pixel_format' # NoSamp
    /\ layout' = [width |-> jpeg.width, height |-> jpeg.height, samp |-> jpeg.samp]
    /\ display_initialized' = TRUE
    /\ UNCHANGED <<pc, parser, format, engine>>

(* Without an earlier session, or with a divisor of zero, the process ends. *)
InitDisplayFails ==
    /\ pc = "accepted" /\ ~display_initialized
    /\ jpeg.samp = <<1, 2>>
    /\ pc' = "dead"
    /\ UNCHANGED <<parser, display, format, engine>>

(* What a slot of the engine's memory for Huffman tables gets: nothing where the
   frame has no table. *)
Table(pointer) ==
    IF pointer = None THEN None ELSE header[pointer[1]].tables[pointer[2]]

(* hw_decode_jpeg.  set_format leaves its register alone for an unusable format,
   set_size uses the frame's own factors all the same. *)
DecodeFrame ==
    /\ pc = "accepted" /\ display_initialized
    /\ jpeg.quant[0] # None /\ jpeg.quant[1] # None
    /\ jpeg.samp[1] # 0 /\ jpeg.samp[2] # 0
    /\ engine' =
          [width |-> jpeg.width, height |-> jpeg.height, samp |-> jpeg.samp,
           quant |-> [id \in 0..1 |-> Table(jpeg.quant[id])],
           huffman |-> [id \in 0..3 |-> Table(jpeg.huffman[id])],
           restart_interval |-> jpeg.restart_interval]
    /\ format' = IF get_format(jpeg) # NoSamp THEN jpeg.samp ELSE format
    /\ pc' = "idle"
    /\ UNCHANGED <<parser, display>>

(* A NULL quantisation table, or a division by a sampling factor of zero. *)
MissingTables ==
    /\ pc = "accepted" /\ display_initialized
    /\ \/ jpeg.quant[0] = None \/ jpeg.quant[1] = None
       \/ jpeg.samp[1] = 0 \/ jpeg.samp[2] = 0
    /\ pc' = "dead"
    /\ UNCHANGED <<parser, display, format, engine>>

(* hw_close and the next session, perhaps with another camera.  len, pos, header and
   jpeg are of a frame: between two frames they mean nothing. *)
HwClose ==
    /\ pc = "idle"
    /\ display_initialized' = FALSE
    /\ layout' = None /\ engine' = None
    /\ len' = 0 /\ pos' = 2 /\ header' = <<>> /\ jpeg' = Blank
    /\ UNCHANGED <<pc, format, pixel_format>>

-----------------------------------------------------------------------------
Init ==
    /\ pc = "idle" /\ len = 0 /\ pos = 2 /\ header = <<>>
    /\ jpeg = Blank
    /\ display_initialized = FALSE
    /\ layout = None /\ pixel_format = NoSamp
    /\ format = NoSamp /\ engine = None

Parse(seg) ==
    \/ CutOff(seg) \/ ProcessDqt(seg) \/ ProcessDht(seg) \/ ProcessSof0(seg)
    \/ ProcessDri(seg) \/ ProcessSos(seg) \/ Unsupported(seg) \/ SkipSegment(seg)

Next ==
    \/ \E bytes \in Lengths : StartFrame(bytes)
    \/ \E seg \in Segments : Parse(seg)
    \/ DropUnusable \/ InitDisplay \/ InitDisplayFails \/ DecodeFrame \/ MissingTables \/ HwClose

Spec == Init /\ [][Next]_vars

-----------------------------------------------------------------------------
(* Type invariant: the parser never leaves the bytes of the frame, and never takes
   an empty picture for one (jpeg.c:98-105, 186-190). *)
TypeOK ==
    /\ pc \in {"idle", "parse", "accepted", "dead"}
    /\ len \in Lengths \cup {0}
    /\ pc \in {"parse", "accepted"} => pos \in 2..len
    /\ header \in Seq(Segments)
    /\ jpeg.data_len \in 0..len
    /\ pc = "accepted" => jpeg.data_len > 0
    /\ jpeg.quant \in [0..3 -> (Nat \X Nat) \cup {None}]
    /\ jpeg.huffman \in [0..7 -> (Nat \X Nat) \cup {None}]
    /\ display_initialized \in BOOLEAN

(* A frame is taken exactly when its header is baseline, 8 bit, YCbCr and there to its
   end with a picture behind; what is left behind the header is that picture
   (jpeg.c:84-193). *)
Extent(h) ==
    LET end[n \in 0..Len(h)] ==
            IF n = 0 THEN 2 ELSE end[n - 1] + h[n].fill + 1 + h[n].len
    IN  end[Len(h)]

Whole(h) ==
    /\ h[Len(h)].marker = "SOS"
    /\ Extent(h) < len
    /\ \A i \in DOMAIN h :
          /\ h[i].marker \notin MarkersOfOtherCodings
          /\ h[i].marker \in {"SOF0", "SOS"} => h[i].ycbcr
          /\ h[i].marker = "DQT" => \A k \in DOMAIN h[i].tables : h[i].tables[k].bits = 8

ParsedWhole ==
    [][pc = "parse" /\ header' # header =>
          /\ pc' = "accepted" <=> Whole(header')
          /\ pc' = "accepted" => jpeg'.data_len = len - Extent(header')]_vars

(* A frame is decoded with its own tables, the last of each number where there are
   several, and never with one an earlier frame brought (jpeg.c:60-74;
   jpeg_dec_main.c:397, 414-424: the pointers lead into the frame's bytes). *)
QuantPlaces(h, number) ==
    UNION {{<<i, k>> : k \in {k \in DOMAIN h[i].tables : h[i].tables[k].id = number}} :
           i \in {i \in DOMAIN h : h[i].marker = "DQT"}}

HuffmanPlaces(h, number, class) ==
    UNION {{<<i, k>> : k \in {k \in DOMAIN h[i].tables :
                                 /\ h[i].tables[k].number = number
                                 /\ h[i].tables[k].class = class}} :
           i \in {i \in DOMAIN h : h[i].marker = "DHT"}}

Before(p, q) == p[1] < q[1] \/ (p[1] = q[1] /\ p[2] < q[2])

LeadsToLast(pointer, places) ==
    IF places = {} THEN pointer = None
    ELSE pointer \in places /\ \A p \in places \ {pointer} : Before(p, pointer)

OwnTables ==
    pc \in {"parse", "accepted"} =>
        \A number \in 0..3 :
           /\ LeadsToLast(jpeg.quant[number], QuantPlaces(header, number))
           /\ LeadsToLast(jpeg.huffman[2 * number], HuffmanPlaces(header, number, "DC"))
           /\ LeadsToLast(jpeg.huffman[2 * number + 1],
                          HuffmanPlaces(header, number, "AC"))

(* The code words the engine is given are those of the frame's tables: one for
   every symbol, and none begins with another (jpeg_dec_main.c:67-87). *)
CodesReadable ==
    engine # None =>
        \A id \in 0..3 : engine.huffman[id] # None => Readable(engine.huffman[id].num)

(* The display engine reads inside the planes with the pixel format and the layout of
   this session.  While the frames are like the first of their session, which made the
   layout, or smaller, the video engine stays inside the Y, U and V planes, for every size
   that the padding suffices for: its registers of size and format, which keep the values
   of other frames and sessions, agree with each other and with the layout
   (display.c:637-679, 713-719; jpeg_dec_main.c:120-146, 214-228, 404-412). *)
LikeTheFirst ==
    /\ engine.samp = layout.samp
    /\ engine.width <= layout.width /\ engine.height <= layout.height

PlanesInside ==
    /\ layout # None /\ layout.samp \in PixelFormats =>
           ScanoutInside(layout.width, layout.height, layout.samp, pixel_format)
    /\ engine # None /\ LikeTheFirst /\ PaddingSuffices(layout.width, layout.height) =>
           VideoInside(layout, engine, format)

=============================================================================
