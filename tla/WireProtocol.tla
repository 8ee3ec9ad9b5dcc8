---------------------------- MODULE WireProtocol ----------------------------
(***************************************************************************)
(* The frames of the WebSocket: protocol v1, an offset table and the parts *)
(* of the message (kernel/wire/protocol-v1.ts), and the default, JSON text *)
(* without buffers (kernel/wire/protocol-default.ts).                      *)
(*                                                                         *)
(* Text and JSON are sequences of bytes as they come out of the encoder; a *)
(* number of the table takes 8 bytes and never nears 2^53.                 *)
(***************************************************************************)
EXTENDS Integers, Sequences, SequencesExt

Word == 8

Message(header, content, buffers) ==
    [header |-> header, parent_header |-> <<>>, metadata |-> <<>>,
     content |-> content, buffers |-> buffers]

Parts(msg, channel) ==
    <<channel, msg.header, msg.parent_header, msg.metadata, msg.content>> \o msg.buffers

(* Bytes of the first `n` parts.                                            *)
SizeOf(parts, n) == FoldLeft(LAMBDA a, p : a + Len(p), 0, SubSeq(parts, 1, n))

(* A frame: the words of the table, then the parts.                         *)
encodeV1(msg, channel) ==
    LET parts == Parts(msg, channel)
        header == Word * (2 + Len(parts))
    IN [words |-> <<Len(parts) + 1>>
                      \o [i \in 1 .. Len(parts) + 1 |-> header + SizeOf(parts, i - 1)],
        bytes |-> FlattenSeq(parts)]

FrameSize(frame) == Word * Len(frame.words) + Len(frame.bytes)

(* {} where the code throws; the listener then drops the frame.             *)
decodeV1(frame) ==
    LET count == frame.words[1]
        Offset(i) == frame.words[i + 2] - Word * Len(frame.words)
        Slice(i) == SubSeq(frame.bytes, Offset(i) + 1, Offset(i + 1))
    IN IF \/ frame.words = <<>>
          \/ FrameSize(frame) < Word + count * Word
       THEN {}
       ELSE {[header |-> Slice(1), parent_header |-> Slice(2), metadata |-> Slice(3),
              content |-> Slice(4), buffers |-> [i \in 1 .. count - 6 |-> Slice(i + 4)]]}

(* The text is the message without its buffers.                             *)
encodeDefault(msg) == [f \in DOMAIN msg \ {"buffers"} |-> msg[f]]
decodeDefault(text) ==
    {[header |-> text.header, parent_header |-> text.parent_header,
      metadata |-> text.metadata, content |-> text.content, buffers |-> <<>>]}
=============================================================================
