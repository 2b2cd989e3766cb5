---------------------------- MODULE ZlibStreams ----------------------------
(***************************************************************************)
(* The loops of DeflateBody and InflateBody (src/http_compression.cpp),    *)
(* which move a body through zlib with buffers of a fixed size.  zlib is   *)
(* external: how much it takes and gives in a call is its own choice,      *)
(* within what its manual promises.                                        *)
(*                                                                         *)
(* Only amounts are kept.  Compressing turns a unit of the body into a     *)
(* unit of the stream and adds a trailer of one unit; a stream to inflate  *)
(* holds Ratio units of the body in a unit and ends with an end mark.      *)
(***************************************************************************)
EXTENDS Integers

CONSTANTS
    BufferSize,  \* of the arrays both loops read into and write from (8192 in the code)
    SizeLimit,   \* largest size zlib takes (that of uInt in the code)
    Ratio,       \* of a stream to inflate
    MaxBody      \* largest body, in units of the input

ASSUME SizesAssumption ==
    /\ BufferSize \in Nat \ {0} /\ Ratio \in Nat \ {0} /\ MaxBody \in Nat
    /\ SizeLimit \in Nat /\ BufferSize <= SizeLimit

VARIABLE stream

(***************************************************************************)
(* pc says where the loop is.  body is the size of the input and unread    *)
(* what the loop has not given to zlib of it, avail_in what zlib was given *)
(* and has not taken, held what zlib took and has not given back, written  *)
(* what the caller has of the output.  eof is that of the input stream,    *)
(* full whether the last call of zlib filled the buffer.  end says what    *)
(* follows the body of a stream to inflate: its end mark, the mark and     *)
(* then more data, nothing (it was cut off) or damage.  broken says that a *)
(* C++ stream failed, or zlib at its initialization.                       *)
(***************************************************************************)
Ending == {"Mark", "More", "CutOff", "Damage"}

Stream ==
    [pc : {"Init", "Read", "Deflate", "Inflate", "Returned", "Threw"},
     body : 0 .. MaxBody, unread : 0 .. MaxBody, avail_in : 0 .. MaxBody,
     held : 0 .. (MaxBody + 1) * Ratio, written : 0 .. (MaxBody + 1) * Ratio,
     eof : BOOLEAN, full : BOOLEAN, end : Ending, broken : BOOLEAN,
     deflates : BOOLEAN]

DeflateBody(n) ==
    [pc |-> "Init", body |-> n, unread |-> n, avail_in |-> 0, held |-> 0, written |-> 0,
     eof |-> FALSE, full |-> FALSE, end |-> "Mark", broken |-> FALSE, deflates |-> TRUE]

InflateBody(n, end) ==
    [pc |-> "Init", body |-> n, unread |-> 0, avail_in |-> n, held |-> 0, written |-> 0,
     eof |-> FALSE, full |-> FALSE, end |-> end, broken |-> FALSE, deflates |-> FALSE]

Least(a, b) == IF a < b THEN a ELSE b

(***************************************************************************)
(* A size that zlib can be told, or CheckedZlibSize throws.                *)
(***************************************************************************)
CheckedZlibSize(size, pc) == IF size > SizeLimit THEN "Threw" ELSE pc

(***************************************************************************)
(* deflateInit2 or inflateInit2, which may fail; what is to be inflated is *)
(* given to zlib as a whole.                                               *)
(***************************************************************************)
Initialize ==
    /\ stream.pc = "Init"
    /\ \/ stream' = [stream EXCEPT !.pc = IF stream.deflates THEN "Read"
                                         ELSE CheckedZlibSize(stream.avail_in, "Inflate")]
       \/ stream' = [stream EXCEPT !.pc = "Threw", !.broken = TRUE]

(***************************************************************************)
(* input.read: a full buffer, or the rest, which sets eof.                 *)
(***************************************************************************)
Read ==
    /\ stream.pc = "Read"
    /\ LET size == Least(BufferSize, stream.unread)
       IN  stream' = [stream EXCEPT !.pc = CheckedZlibSize(size, "Deflate"), !.unread = @ - size,
                                    !.avail_in = size, !.eof = size < BufferSize]

(***************************************************************************)
(* A call of deflate takes k units and gives e.  It stops only when it has *)
(* no input left or the buffer is full; with Z_FINISH it gives all it has, *)
(* the trailer last, and then the result is Z_STREAM_END.  A call that can *)
(* do nothing is an error unless it follows one that filled the buffer.    *)
(***************************************************************************)
Deflated ==
    {call \in [k : 0 .. stream.avail_in, e : 0 .. BufferSize] :
        LET all == stream.held + call.k + (IF stream.eof /\ call.k = stream.avail_in THEN 1 ELSE 0)
        IN  /\ call.e <= all
            /\ call.k = stream.avail_in \/ call.e = BufferSize
            /\ stream.eof => call.e = all \/ call.e = BufferSize}

(***************************************************************************)
(* Mutant: the inner loop stops when zlib has taken its input.             *)
(***************************************************************************)
LoopsOnWhileInput(avail_in, full) == avail_in # 0

(***************************************************************************)
(* while (stream.avail_in != 0 || stream.avail_out == 0)                   *)
(***************************************************************************)
LoopsOn(avail_in, full) == avail_in # 0 \/ full

(***************************************************************************)
(* One turn of the inner loop: the call, the write of what it gave, its    *)
(* result, and what the loop does next.                                    *)
(***************************************************************************)
Deflate ==
    /\ stream.pc = "Deflate"
    /\ \E call \in Deflated :
        LET left == stream.avail_in - call.k
            finished == stream.eof /\ left = 0
                        /\ stream.held + call.k + 1 = call.e
            stuck == ~stream.eof /\ call.k = 0 /\ call.e = 0 /\ ~stream.full
            again == LoopsOn(left, call.e = BufferSize)
        IN  stream' = [stream EXCEPT
                !.avail_in = left,
                !.held = @ + call.k - (IF finished THEN call.e - 1 ELSE call.e),
                !.written = @ + call.e,
                !.full = call.e = BufferSize,
                !.pc = CASE finished -> "Returned"
                         [] ~finished /\ stuck -> "Threw"
                         [] ~finished /\ ~stuck /\ again -> "Deflate"
                         [] OTHER -> IF stream.eof THEN "Threw" ELSE "Read"]

(***************************************************************************)
(* The input stream fails to read or the output stream to write.           *)
(***************************************************************************)
StreamFails ==
    /\ stream.pc = "Read" \/ (stream.pc = "Deflate" /\ \E call \in Deflated : call.e > 0)
    /\ stream' = [stream EXCEPT !.pc = "Threw", !.broken = TRUE]

-----------------------------------------------------------------------------
(***************************************************************************)
(* A call of inflate gives what the stream still holds, up to a buffer.    *)
(* It never takes what is behind an end mark.                              *)
(* When it has given everything it may see what follows at once or, with   *)
(* the buffer full, only in the next call; a call that can do nothing is   *)
(* an error (Z_BUF_ERROR).                                                 *)
(***************************************************************************)
InflateResult(produced, sees_end) ==
    CASE sees_end /\ stream.end \in {"Mark", "More"} -> "Z_STREAM_END"
      [] sees_end /\ stream.end = "Damage" -> "Z_DATA_ERROR"
      [] ~(sees_end /\ stream.end # "CutOff") /\ produced = 0 -> "Z_BUF_ERROR"
      [] OTHER -> "Z_OK"

(***************************************************************************)
(* Mutant: a call that could do nothing is made again.                     *)
(***************************************************************************)
AfterInflateRetries(code, left, produced) ==
    CASE code = "Z_STREAM_END" -> "Returned"
      [] code = "Z_DATA_ERROR" -> "Threw"
      [] OTHER -> "Inflate"

AfterInflate(code, left, produced) ==
    CASE code = "Z_STREAM_END" -> "Returned"
      [] code = "Z_OK" /\ ~(left = 0 /\ stream.end # "More" /\ produced = 0) -> "Inflate"
      [] OTHER -> "Threw"

Inflate ==
    /\ stream.pc = "Inflate"
    /\ LET all == stream.held + stream.avail_in * Ratio
           produced == Least(all, BufferSize)
       IN  \E sees_end \in {s \in BOOLEAN : (s => produced = all) /\ (~s => produced = BufferSize)},
              left \in {n \in 0 .. stream.avail_in : n * Ratio <= all - produced} :
             stream' = [stream EXCEPT
                !.avail_in = left, !.held = all - produced - left * Ratio,
                !.written = @ + produced,
                !.pc = AfterInflate(InflateResult(produced, sees_end), left, produced)]
=============================================================================
