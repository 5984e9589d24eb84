--------------------------- MODULE MCFrameDecoder ---------------------------
(* Sample headers for FrameDecoder.  A length counts a table as one
   byte: the parser only compares lengths. *)
EXTENDS FrameDecoder, TLC

Seg(marker, fill, length) == [marker |-> marker, fill |-> fill, len |-> length]
Tables(seg, tables) == [tables |-> tables] @@ seg

Quant(id, bits) == [id |-> id, bits |-> bits]
Huffman(number, class, num) == [number |-> number, class |-> class, num |-> num]

(* A table for two values, a full one and one with gaps. *)

Code(n0, n1, n2) == [j \in Length |-> <<n0, n1, n2>>[j + 1]]
SmallCode == Code(1, 1, 0)
LongCode == Code(0, 2, 3)
GapCode == Code(1, 0, 2)

Dqt == Tables(Seg("DQT", 1, 4), <<Quant(0, 8), Quant(1, 8)>>)
DqtAgain == Tables(Seg("DQT", 2, 3), <<Quant(1, 8)>>)
Dqt16 == Tables(Seg("DQT", 1, 4), <<Quant(0, 8), Quant(1, 16)>>)
Dht == Tables(Seg("DHT", 1, 4),
              <<Huffman(0, "DC", SmallCode), Huffman(0, "AC", LongCode)>>)
DhtAgain == Tables(Seg("DHT", 1, 4),
                   <<Huffman(1, "AC", GapCode), Huffman(0, "DC", LongCode)>>)
Sof0(w, h, samp, ycbcr) ==
    [width |-> w, height |-> h, samp |-> samp, ycbcr |-> ycbcr] @@ Seg("SOF0", 1, 4)
Sos(ycbcr) == [ycbcr |-> ycbcr] @@ Seg("SOS", 1, 3)
Dri == [interval |-> 4] @@ Seg("DRI", 1, 3)

(* What main asks cameras for, a smaller picture whose size the padding does not suffice
   for, the sampling without pixel format, and one the engine has no format for. *)
Sof0s == {Sof0(1920, 1080, <<2, 2>>, TRUE), Sof0(1024, 600, <<2, 2>>, TRUE),
          Sof0(640, 360, <<1, 2>>, TRUE), Sof0(1920, 1080, <<4, 1>>, TRUE),
          Sof0(640, 480, <<2, 1>>, FALSE)}

MCSegments == {Dqt, DqtAgain, Dqt16, Dht, DhtAgain, Dri, Sos(TRUE), Sos(FALSE),
               Seg("SOF2", 1, 4), Seg("APP0", 2, 2)} \cup Sof0s

ASSUME SampleCodesEncodable ==
    \A num \in {SmallCode, LongCode, GapCode} : Encodable(num)

=============================================================================
