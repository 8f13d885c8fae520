--------------------------- MODULE NdjsonDecoder ---------------------------
(***************************************************************************)
(* The splitting of the target's output into frames                        *)
(* (src/transport/ndjson-decoder.ts).  Chunks arrive cut anywhere; a frame *)
(* that lies within a chunk is decoded in place, any other is collected in *)
(* blocks first.  A frame ends with LF or CR LF, and the CR does not count *)
(* towards its limit.                                                      *)
(*                                                                         *)
(* A byte is an LF, a CR, a byte of JSON text or a byte that no JSON text  *)
(* or no UTF-8 allows.  JSON takes CR for white space.                     *)
(***************************************************************************)
EXTENDS Naturals, Sequences, FiniteSets, SequencesExt

CONSTANTS
  MaxFrameBytes,  \* #maxFrameBytes
  BlockBytes,     \* ACCUMULATOR_BLOCK_BYTES
  MaxChunk,       \* bound on the length of a chunk
  MaxStream       \* bound on the length of the output

ASSUME DecoderAssumption ==
  /\ MaxFrameBytes \in Nat \ {0} /\ BlockBytes \in Nat \ {0}
  /\ MaxChunk \in Nat /\ MaxStream \in Nat

VARIABLES
  blocks,     \* #blocks
  tail,       \* the written part of #tail
  capacity,   \* the length of #tail, 0 when it is undefined
  failed,     \* #failure is set
  finished,   \* #finished
  rest,       \* the part of the chunk that #decodeChunk has not reached
  frames,     \* ghost: the frames that the consumer took
  refused,    \* ghost: the consumer threw
  stream      \* ghost: the bytes that #decodeChunk has passed

buffer      == <<blocks, tail, capacity>>
decoderVars == <<buffer, failed, finished, rest, frames, refused, stream>>

Bytes == {"lf", "cr", "text", "bad"}

DecoderInit ==
  /\ blocks = <<>> /\ tail = <<>> /\ capacity = 0
  /\ failed = FALSE /\ finished = FALSE
  /\ rest = <<>> /\ frames = <<>> /\ refused = FALSE /\ stream = <<>>

-----------------------------------------------------------------------------
EndsWithCr(bytes) == bytes # <<>> /\ Last(bytes) = "cr"
StripCr(bytes)    == IF EndsWithCr(bytes) THEN Front(bytes) ELSE bytes

(* #decodeFrame: not empty, valid UTF-8, and an object. *)
IsObject(bytes) == "text" \in ToSet(bytes) /\ "bad" \notin ToSet(bytes)

BufferedBytes(full, open) == Len(FlattenSeq(full)) + Len(open)

(* One byte of the loop; a full block joins the others, and the next byte opens
   a new one. *)
Put(store, byte) ==
  LET left == MaxFrameBytes + 1 - BufferedBytes(store.blocks, <<>>)
      size == IF store.capacity # 0 THEN store.capacity
              ELSE IF left < BlockBytes THEN left ELSE BlockBytes
      open == Append(store.tail, byte)
  IN IF Len(open) = size
     THEN [blocks |-> Append(store.blocks, open), tail |-> <<>>, capacity |-> 0]
     ELSE [blocks |-> store.blocks, tail |-> open, capacity |-> size]

(* The copying loop of #append. *)
Appended(segment) ==
  LET appended[k \in 0 .. Len(segment)] ==
        IF k = 0 THEN [blocks |-> blocks, tail |-> tail, capacity |-> capacity]
        ELSE Put(appended[k - 1], segment[k])
  IN appended[Len(segment)]

(* Mutant: no allowance for the CR of a delimiter that is still to come. *)
FrameFits_NoAllowance(segment) ==
  segment = <<>> \/ BufferedBytes(blocks, tail) + Len(segment) <= MaxFrameBytes

(* The limit as #append knows it: one byte more only if it may belong to the
   delimiter. *)
FrameFits(segment) ==
  LET next == BufferedBytes(blocks, tail) + Len(segment)
  IN \/ segment = <<>>
     \/ next <= MaxFrameBytes
     \/ next = MaxFrameBytes + 1 /\ EndsWithCr(segment)

ResetBuffer == blocks' = <<>> /\ tail' = <<>> /\ capacity' = 0

(* #fail. *)
Fail == failed' = TRUE /\ ResetBuffer /\ rest' = <<>> /\ UNCHANGED <<frames, refused>>

(* The consumer takes the frame, or throws: then the rest of the chunk is lost,
   and the transport fails and sends no more. *)
Consume(bytes) ==
  LET frame == [message |-> bytes, byteLength |-> Len(bytes)]
  IN \/ frames' = Append(frames, frame) /\ refused' = FALSE
     \/ frames' = frames /\ refused' = TRUE

-----------------------------------------------------------------------------
(* pushEach.  The transport does not call it after the end of the output. *)
PushEach ==
  /\ rest = <<>> /\ ~failed /\ ~finished /\ ~refused
  /\ \E chunk \in SeqOf(Bytes, MaxChunk) \ {<<>>}:
       /\ Len(stream) + Len(chunk) <= MaxStream
       /\ rest' = chunk
  /\ UNCHANGED <<buffer, failed, finished, frames, refused, stream>>

NewlineIndex ==
  IF "lf" \in ToSet(rest) THEN CHOOSE i \in DOMAIN rest:
    rest[i] = "lf" /\ \A j \in 1 .. i - 1: rest[j] # "lf"
  ELSE 0

Segment == IF NewlineIndex = 0 THEN rest ELSE SubSeq(rest, 1, NewlineIndex - 1)

Rest == SubSeq(rest, NewlineIndex + 1, Len(rest))

(* The chunk ends without a newline: what is left is collected. *)
AppendRest ==
  /\ NewlineIndex = 0
  /\ \/ /\ FrameFits(rest)
        /\ blocks' = Appended(rest).blocks /\ tail' = Appended(rest).tail
        /\ capacity' = Appended(rest).capacity
        /\ rest' = <<>> /\ UNCHANGED <<failed, frames, refused>>
     \/ ~FrameFits(rest) /\ Fail

(* #completeDirectFrame and #completeBufferedFrame end in #decodeFrame. *)
Complete(bytes) ==
  /\ ResetBuffer
  /\ Consume(bytes)
  /\ rest' = IF refused' THEN <<>> ELSE Rest
  /\ UNCHANGED failed

CompleteDirectFrame ==
  /\ NewlineIndex # 0 /\ BufferedBytes(blocks, tail) = 0
  /\ LET bytes == StripCr(Segment)
         valid == Len(bytes) <= MaxFrameBytes /\ IsObject(bytes)
     IN \/ valid /\ Complete(bytes)
        \/ ~valid /\ Fail

CompleteBufferedFrame ==
  /\ NewlineIndex # 0 /\ BufferedBytes(blocks, tail) # 0
  /\ LET all   == Appended(Segment)
         bytes == StripCr(FlattenSeq(all.blocks) \o all.tail)
         valid == FrameFits(Segment) /\ IsObject(bytes)
     IN \/ valid /\ Complete(bytes)
        \/ ~valid /\ Fail

(* One turn of #decodeChunk. *)
DecodeChunk ==
  /\ rest # <<>>
  /\ AppendRest \/ CompleteDirectFrame \/ CompleteBufferedFrame
  /\ stream' = stream \o Segment \o (IF NewlineIndex = 0 THEN <<>> ELSE <<"lf">>)
  /\ UNCHANGED finished

(* finish(): the end of the output in the middle of a frame is a failure. *)
Finish ==
  /\ rest = <<>> /\ ~failed /\ ~finished /\ ~refused
  /\ finished' = TRUE
  /\ \/ BufferedBytes(blocks, tail) = 0 /\ UNCHANGED <<buffer, failed, rest, frames, refused>>
     \/ BufferedBytes(blocks, tail) # 0 /\ Fail
  /\ UNCHANGED stream

DecoderOver == (failed \/ finished \/ refused) /\ UNCHANGED decoderVars

DecoderNext == PushEach \/ DecodeChunk \/ Finish \/ DecoderOver

DecoderSpec == DecoderInit /\ [][DecoderNext]_decoderVars

-----------------------------------------------------------------------------
(* What an output means, without chunks: its lines, up to the first that is no
   frame. *)
Newlines(out) == {i \in DOMAIN out: out[i] = "lf"}

Line(out, i) == SubSeq(out, 1 + Max({0} \union {n \in Newlines(out): n < i}), i - 1)

IsFrame(line) == Len(StripCr(line)) <= MaxFrameBytes /\ IsObject(StripCr(line))

Broken(out) == {i \in Newlines(out): ~IsFrame(Line(out, i))}

FrameEnds(out) == {i \in Newlines(out): \A j \in Broken(out): i < j}

Ordinal(out, i) == Cardinality({j \in FrameEnds(out): j <= i})

Unfinished(out) == Line(out, Len(out) + 1)

(* The consumer took each frame, once and in order, with its own length; only
   the last one may have been refused. *)
FramesAreLines ==
  /\ Len(frames) = Cardinality(FrameEnds(stream)) - (IF refused THEN 1 ELSE 0)
  /\ \A i \in FrameEnds(stream):
       Ordinal(stream, i) <= Len(frames) =>
         LET line == StripCr(Line(stream, i))
         IN frames[Ordinal(stream, i)] = [message |-> line, byteLength |-> Len(line)]

(* The collected blocks never exceed the limit, every one of them holds a byte,
   and one that is still open has room: the copying loop always gets on. *)
BlocksAreBounded ==
  /\ BufferedBytes(blocks, tail) <= MaxFrameBytes + 1
  /\ \A k \in DOMAIN blocks: blocks[k] # <<>> /\ Len(blocks[k]) <= BlockBytes
  /\ \/ Len(tail) < capacity /\ capacity <= BlockBytes
     \/ tail = <<>> /\ capacity = 0
  /\ Len(FlattenSeq(blocks)) + capacity <= MaxFrameBytes + 1

(* The frames and the verdict depend on the output alone and never on how it
   was cut into chunks: the consumer gets each line before the first bad one;
   the decoder fails if, and as soon as, the bytes it passed hold a bad line,
   begin a line that no continuation makes a frame, or end within one; and it
   holds exactly the bytes of the unfinished line, never more than the limit
   and a CR. *)
ChunkingIsIrrelevant ==
  /\ FramesAreLines
  /\ failed <=> \/ Broken(stream) # {}
                \/ Len(StripCr(Unfinished(stream))) > MaxFrameBytes
                \/ finished /\ Unfinished(stream) # <<>>
  /\ ~failed => FlattenSeq(blocks) \o tail = Unfinished(stream)
  /\ BlocksAreBounded

=============================================================================
