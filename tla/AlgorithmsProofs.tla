-------------------------- MODULE AlgorithmsProofs --------------------------
(***************************************************************************)
(* Theorems about Algorithms.                                              *)
(*                                                                         *)
(* Part 1, the loops around zlib, for buffers and bodies of any size and   *)
(* whatever zlib takes and gives in each of its calls.  The loops decide   *)
(* by avail_in, eof and whether the last call filled the buffer when to go *)
(* on, when to stop and when to throw.  The inductive invariant            *)
(* StreamsAreSound adds what these say at each turn: a balance of all that *)
(* was read, taken, given and written, and that the loop never calls zlib  *)
(* when zlib has nothing to do.                                            *)
(*                                                                         *)
(* Part 2, the generator of random numbers, for every seed, for a state    *)
(* vector of any length and tap, for any number of calls and every bound   *)
(* of a draw.                                                              *)
(*                                                                         *)
(* Part 3, loops over sequences: induction over the natural numbers, which *)
(* here is the existence of a least number in a set that is not empty      *)
(* (WFMin), the steps of a fold, and what sorting gives.                   *)
(*                                                                         *)
(* Part 4, query plans, for lists of any length: what one call of Next     *)
(* takes out of a plan and what is given until nothing is left.            *)
(*                                                                         *)
(* Part 5, routing by key, for any reads of the registry and batches of    *)
(* any size: the plan of a key, the plan of a batch, and which writes are  *)
(* routed.                                                                 *)
(*                                                                         *)
(* Part 6, the parser of /localnodes, for bodies of any length.  After     *)
(* every character the loop's place, its list and its string are compared  *)
(* with the marks and the quotes that the body has up to there.            *)
(*                                                                         *)
(* Part 7, the names of codings, for any decoders: what a header is read   *)
(* as, and what the headers of a request announce.                         *)
(*                                                                         *)
(* Part 8, the bodies of responses, for any heads and any number of        *)
(* codings: the line that counts, what it is read as, and the codings      *)
(* undone from the last to the first.                                      *)
(***************************************************************************)
EXTENDS Algorithms, FiniteSetTheorems, WellFoundedInduction, TLAPS

-----------------------------------------------------------------------------
(* Part 1.  The inductive invariant of the loops.                          *)

(* A stream is a record of its eleven fields, with amounts and flags for   *)
(* values.                                                                 *)
IsStream(s) ==
    /\ s = [pc |-> s.pc, body |-> s.body, unread |-> s.unread, avail_in |-> s.avail_in,
            held |-> s.held, written |-> s.written, eof |-> s.eof, full |-> s.full,
            end |-> s.end, broken |-> s.broken, deflates |-> s.deflates]
    /\ s.pc \in {"Init", "Read", "Deflate", "Inflate", "Returned", "Threw"}
    /\ s.body \in Nat /\ s.unread \in Nat /\ s.avail_in \in Nat
    /\ s.held \in Nat /\ s.written \in Nat
    /\ s.eof \in BOOLEAN /\ s.full \in BOOLEAN /\ s.broken \in BOOLEAN
    /\ s.deflates \in BOOLEAN
    /\ s.end \in Ending

(* While it compresses: nothing of the body is lost between the input, the *)
(* buffers and the output; a new buffer is read only when the last one is  *)
(* used up; and zlib is called only when it has input, has to finish or    *)
(* has filled the buffer before.                                           *)
Deflating(s) ==
    /\ s.pc # "Inflate"
    /\ s.pc \in {"Init", "Read", "Deflate"} =>
          s.unread + s.avail_in + s.held + s.written = s.body
    /\ s.pc \in {"Init", "Read"} => s.avail_in = 0 /\ ~s.eof
    /\ s.pc = "Deflate" /\ s.eof => s.unread = 0
    /\ s.pc = "Deflate" /\ ~s.eof /\ ~s.full => s.avail_in > 0
    /\ s.pc = "Returned" => s.written = s.body + 1
    /\ s.pc = "Threw" => s.broken

(* While it decompresses: what was written and what the stream still holds *)
(* are the whole body.                                                     *)
Inflating(s) ==
    /\ s.pc \notin {"Read", "Deflate"}
    /\ s.pc = "Init" => s.avail_in = s.body
    /\ s.pc \in {"Init", "Inflate"} => s.written + s.held + s.avail_in * Ratio = s.body * Ratio
    /\ s.pc = "Returned" => s.end \in {"Mark", "More"} /\ s.written = s.body * Ratio
    /\ s.pc = "Threw" => s.end \in {"CutOff", "Damage"} \/ s.broken \/ s.body > SizeLimit

StreamsAreSound ==
    /\ IsStream(stream)
    /\ stream.deflates => Deflating(stream)
    /\ ~stream.deflates => Inflating(stream)

-----------------------------------------------------------------------------
(* The loops.                                                              *)

(* The loops begin in the invariant, whatever they are given.              *)
LEMMA InitStreams ==
    Init => StreamsAreSound
<1>. SUFFICES ASSUME Init PROVE StreamsAreSound
  OBVIOUS
<1>1. 0 * Ratio = 0 /\ \A n \in Nat : n * Ratio \in Nat
  BY SizesAssumption
<1>2. CASE stream = NoStream
  BY <1>1, <1>2 DEF NoStream, InflateBody, StreamsAreSound, IsStream, Inflating, Ending
<1>3. ASSUME NEW n \in 0 .. MaxBody, stream = DeflateBody(n)
      PROVE  StreamsAreSound
  BY <1>3, SizesAssumption DEF DeflateBody, StreamsAreSound, IsStream, Deflating, Ending
<1>4. ASSUME NEW n \in 0 .. MaxBody, NEW end \in Ending,
             stream = InflateBody(n, end)
      PROVE  StreamsAreSound
  <2>1. n \in Nat
    BY SizesAssumption
  <2>2. QED
    BY <1>1, <1>4, <2>1 DEF InflateBody, StreamsAreSound, IsStream, Inflating
<1>5. QED
  BY <1>2, <1>3, <1>4 DEF Init

(* Initialization gives a stream to inflate to zlib as a whole; it throws  *)
(* when zlib cannot be initialized or be told the size.                    *)
LEMMA InitializeStep ==
    StreamsAreSound /\ Initialize => StreamsAreSound'
<1>. SUFFICES ASSUME StreamsAreSound, Initialize PROVE StreamsAreSound'
  OBVIOUS
<1>0. IsStream(stream) /\ stream.pc = "Init"
  BY DEF StreamsAreSound, Initialize
<1>1. CASE stream' = [stream EXCEPT !.pc = "Threw", !.broken = TRUE]
  <2>1. /\ IsStream(stream)' /\ stream'.pc = "Threw" /\ stream'.broken
        /\ stream'.deflates = stream.deflates
    BY <1>0, <1>1 DEF IsStream
  <2>2. QED
    BY <2>1 DEF StreamsAreSound, Deflating, Inflating
<1>2. CASE stream.deflates /\ stream' = [stream EXCEPT !.pc = "Read"]
  <2>1. /\ IsStream(stream)' /\ stream'.pc = "Read" /\ stream'.unread = stream.unread
        /\ stream'.avail_in = stream.avail_in /\ stream'.eof = stream.eof
        /\ stream'.body = stream.body /\ stream'.held = stream.held
        /\ stream'.written = stream.written /\ stream'.deflates
    BY <1>0, <1>2 DEF IsStream
  <2>2. QED
    BY <1>0, <1>2, <2>1 DEF StreamsAreSound, Deflating
<1>3. CASE /\ ~stream.deflates
           /\ stream' = [stream EXCEPT !.pc = CheckedZlibSize(stream.avail_in, "Inflate")]
  <2>. DEFINE next == CheckedZlibSize(stream.avail_in, "Inflate")
  <2>1. next = IF stream.avail_in > SizeLimit THEN "Threw" ELSE "Inflate"
    BY DEF CheckedZlibSize
  <2>. HIDE DEF next
  <2>2. stream' = [stream EXCEPT !.pc = next] /\ next \in {"Threw", "Inflate"}
    BY <1>3, <2>1 DEF next
  <2>3. /\ IsStream(stream)' /\ stream'.pc = next /\ stream'.avail_in = stream.avail_in
        /\ stream'.body = stream.body /\ stream'.held = stream.held
        /\ stream'.written = stream.written /\ ~stream'.deflates
    BY <1>0, <1>3, <2>2 DEF IsStream
  <2>4. QED
    BY <1>0, <1>3, <2>1, <2>3 DEF StreamsAreSound, Inflating
<1>4. QED
  BY <1>1, <1>2, <1>3 DEF Initialize

(* A read gives zlib a whole buffer or, at the end of the input, the rest; *)
(* a rest of nothing is given with eof set, so that zlib finishes.         *)
LEMMA ReadStep ==
    StreamsAreSound /\ Read => StreamsAreSound'
<1>. SUFFICES ASSUME StreamsAreSound, Read PROVE StreamsAreSound'
  OBVIOUS
<1>. DEFINE size == Least(BufferSize, stream.unread)
<1>0. stream.deflates /\ Deflating(stream) /\ IsStream(stream) /\ stream.pc = "Read"
  BY DEF StreamsAreSound, Read, Inflating, IsStream
<1>1. /\ size \in Nat /\ size <= stream.unread /\ size <= BufferSize
      /\ size < BufferSize => size = stream.unread
  BY <1>0, SizesAssumption DEF Least, IsStream
<1>. DEFINE last == size < BufferSize
<1>2. stream' = [stream EXCEPT !.pc = "Deflate", !.unread = @ - size,
                               !.avail_in = size, !.eof = last]
  <2>1. CheckedZlibSize(size, "Deflate") = "Deflate"
    BY <1>1, SizesAssumption DEF CheckedZlibSize
  <2>2. QED
    BY <2>1 DEF Read
<1>3. /\ last => size = stream.unread
      /\ ~last => size > 0
      /\ last \in BOOLEAN
      /\ stream.unread - size \in Nat
  BY <1>0, <1>1, SizesAssumption DEF IsStream
<1>. HIDE DEF size, last
<1>4. /\ IsStream(stream)'
      /\ stream'.pc = "Deflate" /\ stream'.unread = stream.unread - size
      /\ stream'.avail_in = size /\ stream'.eof = last
      /\ stream'.body = stream.body /\ stream'.held = stream.held
      /\ stream'.written = stream.written /\ stream'.deflates
  BY <1>0, <1>1, <1>2, <1>3 DEF IsStream
<1>5. Deflating(stream)'
  <2>1. stream'.eof => stream'.unread = 0
    BY <1>0, <1>3, <1>4 DEF IsStream
  <2>2. ~stream'.eof => stream'.avail_in > 0
    BY <1>3, <1>4
  <2>3. stream'.unread + stream'.avail_in + stream'.held + stream'.written = stream'.body
    BY <1>0, <1>1, <1>4 DEF IsStream, Deflating
  <2>4. QED
    BY <1>4, <2>1, <2>2, <2>3 DEF Deflating
<1>6. QED
  BY <1>4, <1>5 DEF StreamsAreSound

(* A call of deflate that leaves something to do is followed by another    *)
(* one; the loop reads on when the buffer was not filled, and ends with    *)
(* the trailer written.  It is never stuck and never ends without it.      *)
LEMMA DeflateStep ==
    StreamsAreSound /\ Deflate => StreamsAreSound'
<1>. SUFFICES ASSUME StreamsAreSound, Deflate PROVE StreamsAreSound'
  OBVIOUS
<1>0. stream.deflates /\ Deflating(stream) /\ IsStream(stream) /\ stream.pc = "Deflate"
  BY DEF StreamsAreSound, Deflate, Inflating, IsStream
<1>. DEFINE left(call) == stream.avail_in - call.k
            finished(call) == stream.eof /\ left(call) = 0 /\ stream.held + call.k + 1 = call.e
            stuck(call) == ~stream.eof /\ call.k = 0 /\ call.e = 0 /\ ~stream.full
            again(call) == LoopsOn(left(call), call.e = BufferSize)
            next(call) == CASE finished(call) -> "Returned"
                            [] ~finished(call) /\ stuck(call) -> "Threw"
                            [] ~finished(call) /\ ~stuck(call) /\ again(call) -> "Deflate"
                            [] OTHER -> IF stream.eof THEN "Threw" ELSE "Read"
            kept(call) == stream.held + call.k - (IF finished(call) THEN call.e - 1 ELSE call.e)
            filled(call) == call.e = BufferSize
<1>1. PICK call \in Deflated :
        stream' = [stream EXCEPT !.avail_in = left(call), !.held = kept(call),
                                 !.written = @ + call.e, !.full = filled(call), !.pc = next(call)]
  BY DEF Deflate
<1>2. /\ call.k \in Nat /\ call.e \in Nat
      /\ call.k <= stream.avail_in /\ call.e <= BufferSize
      /\ call.k = stream.avail_in \/ call.e = BufferSize
  BY <1>0, SizesAssumption DEF Deflated, IsStream
<1>3. /\ call.e <= stream.held + call.k + 1
      /\ ~stream.eof \/ left(call) # 0 => call.e <= stream.held + call.k
      /\ stream.eof /\ left(call) = 0 => call.e = stream.held + call.k + 1 \/ call.e = BufferSize
  BY <1>0, <1>2 DEF Deflated, IsStream
<1>4. left(call) \in Nat /\ kept(call) \in Nat /\ filled(call) \in BOOLEAN
  BY <1>0, <1>2, <1>3 DEF IsStream
<1>5. ~stuck(call)
  BY <1>0, <1>2, SizesAssumption DEF Deflating, IsStream
<1>6. again(call) <=> left(call) # 0 \/ filled(call)
  BY DEF LoopsOn
<1>7. /\ finished(call) => next(call) = "Returned"
      /\ ~finished(call) /\ again(call) => next(call) = "Deflate"
      /\ ~finished(call) /\ ~again(call) => next(call) = "Read" /\ ~stream.eof /\ left(call) = 0
  <2>1. ~finished(call) /\ ~again(call) => ~stream.eof /\ left(call) = 0
    BY <1>0, <1>2, <1>3, <1>4, <1>6
  <2>2. QED
    BY <1>5, <2>1
<1>8. /\ finished(call) => stream.unread = 0 /\ left(call) = 0
                            /\ stream.written + call.e = stream.body + 1
      /\ ~finished(call) => stream.unread + left(call) + kept(call) + (stream.written + call.e)
                              = stream.body
  <2>1. stream.unread + stream.avail_in + stream.held + stream.written = stream.body
    BY <1>0 DEF Deflating
  <2>2. CASE finished(call)
    <3>1. stream.unread = 0 /\ stream.avail_in = call.k /\ call.e = stream.held + call.k + 1
      BY <1>0, <1>2, <2>2 DEF Deflating, IsStream
    <3>2. QED
      BY <1>0, <1>2, <2>1, <2>2, <3>1 DEF IsStream
  <2>3. CASE ~finished(call)
    <3>1. kept(call) = stream.held + call.k - call.e
      BY <2>3
    <3>. HIDE DEF kept
    <3>2. QED
      BY <1>0, <1>2, <2>1, <2>3, <3>1 DEF IsStream
  <2>4. QED
    BY <2>2, <2>3
<1>9. /\ stream.eof => stream.unread = 0
      /\ next(call) \in {"Read", "Deflate", "Returned"}
      /\ stream.written + call.e \in Nat
  BY <1>0, <1>2, <1>7 DEF Deflating, IsStream
<1>. HIDE DEF left, finished, stuck, again, next, kept, filled
<1>10. /\ IsStream(stream)'
       /\ stream'.pc = next(call) /\ stream'.unread = stream.unread
       /\ stream'.avail_in = left(call) /\ stream'.eof = stream.eof
       /\ stream'.body = stream.body /\ stream'.held = kept(call)
       /\ stream'.written = stream.written + call.e /\ stream'.deflates
       /\ stream'.full = filled(call)
  BY <1>0, <1>1, <1>4, <1>9 DEF IsStream
<1>11. Deflating(stream)'
  <2>1. CASE finished(call)
    BY <1>7, <1>8, <1>10, <2>1 DEF Deflating
  <2>2. CASE ~finished(call) /\ again(call)
    BY <1>4, <1>6, <1>7, <1>8, <1>9, <1>10, <2>2 DEF Deflating
  <2>3. CASE ~finished(call) /\ ~again(call)
    BY <1>7, <1>8, <1>10, <2>3 DEF Deflating
  <2>4. QED
    BY <2>1, <2>2, <2>3
<1>12. QED
  BY <1>10, <1>11 DEF StreamsAreSound

(* A stream that fails is the only reason to throw.                        *)
LEMMA FailStep ==
    StreamsAreSound /\ StreamFails => StreamsAreSound'
<1>. SUFFICES ASSUME StreamsAreSound, StreamFails PROVE StreamsAreSound'
  OBVIOUS
<1>1. stream.deflates /\ IsStream(stream)
  BY DEF StreamsAreSound, StreamFails, Inflating, IsStream
<1>2. stream' = [stream EXCEPT !.pc = "Threw", !.broken = TRUE]
  BY DEF StreamFails
<1>3. IsStream(stream)' /\ stream'.pc = "Threw" /\ stream'.broken /\ stream'.deflates
  BY <1>1, <1>2 DEF IsStream
<1>4. QED
  BY <1>3 DEF StreamsAreSound, Deflating

(* Each call of inflate gives all the stream holds, up to a buffer; what   *)
(* follows the body is seen only when all of it is given.                  *)
LEMMA InflateStep ==
    StreamsAreSound /\ Inflate => StreamsAreSound'
<1>. SUFFICES ASSUME StreamsAreSound, Inflate PROVE StreamsAreSound'
  OBVIOUS
<1>0. ~stream.deflates /\ Inflating(stream) /\ IsStream(stream) /\ stream.pc = "Inflate"
  BY DEF StreamsAreSound, Inflate, Deflating, IsStream
<1>. DEFINE all == stream.held + stream.avail_in * Ratio
            produced == Least(all, BufferSize)
<1>1. PICK sees_end \in BOOLEAN, left \in 0 .. stream.avail_in :
        /\ sees_end => produced = all
        /\ ~sees_end => produced = BufferSize
        /\ left * Ratio <= all - produced
        /\ stream' = [stream EXCEPT
               !.avail_in = left, !.held = all - produced - left * Ratio,
               !.written = @ + produced,
               !.pc = AfterInflate(InflateResult(produced, sees_end), left, produced)]
  BY DEF Inflate
<1>2. all \in Nat /\ produced \in Nat /\ produced <= all /\ left \in Nat
      /\ left * Ratio \in Nat
  BY <1>0, SizesAssumption DEF IsStream, Least
<1>3. stream.body * Ratio \in Nat /\ stream.written + all = stream.body * Ratio
  BY <1>0, SizesAssumption DEF IsStream, Inflating
<1>. DEFINE code == InflateResult(produced, sees_end)
            next == AfterInflate(code, left, produced)
<1>4. /\ next \in {"Inflate", "Returned", "Threw"}
      /\ next = "Returned" => sees_end /\ stream.end \in {"Mark", "More"}
      /\ next = "Threw" => stream.end \in {"CutOff", "Damage"}
  <2>0. stream.end \in {"Mark", "More", "CutOff", "Damage"}
    BY <1>0 DEF IsStream, Ending
  <2>1. CASE sees_end /\ stream.end \in {"Mark", "More"}
    BY <2>1 DEF InflateResult, AfterInflate
  <2>2. CASE ~sees_end
    <3>1. code = "Z_OK" /\ produced > 0
      BY <1>1, <1>2, <2>2, SizesAssumption DEF InflateResult
    <3>2. QED
      BY <3>1 DEF AfterInflate
  <2>3. CASE stream.end \in {"CutOff", "Damage"}
    <3>1. code # "Z_STREAM_END"
      BY <2>3 DEF InflateResult
    <3>2. QED
      BY <2>3, <3>1 DEF AfterInflate
  <2>4. QED
    BY <2>0, <2>1, <2>2, <2>3
<1>5. stream' = [stream EXCEPT !.avail_in = left, !.held = all - produced - left * Ratio,
                               !.written = @ + produced, !.pc = next]
  BY <1>1
<1>6. /\ all - produced - left * Ratio \in Nat
      /\ stream.written + produced \in Nat
      /\ next = "Returned" => produced = all
  BY <1>0, <1>1, <1>2, <1>4 DEF IsStream
<1>. HIDE DEF all, produced, code, next
<1>7. /\ IsStream(stream)'
      /\ stream'.pc = next /\ stream'.avail_in = left
      /\ stream'.body = stream.body /\ stream'.held = all - produced - left * Ratio
      /\ stream'.written = stream.written + produced /\ ~stream'.deflates
      /\ stream'.end = stream.end
  BY <1>0, <1>2, <1>4, <1>5, <1>6 DEF IsStream
<1>8. Inflating(stream)'
  <2>1. stream'.written + stream'.held + stream'.avail_in * Ratio = stream'.body * Ratio
    BY <1>0, <1>2, <1>3, <1>7 DEF IsStream
  <2>2. next = "Returned" => stream'.written = stream'.body * Ratio
    BY <1>3, <1>6, <1>7
  <2>3. QED
    BY <1>4, <1>7, <2>1, <2>2 DEF Inflating
<1>9. QED
  BY <1>7, <1>8 DEF StreamsAreSound

-----------------------------------------------------------------------------
(* The theorem about the loops.                                            *)

(* Theorem.  Compressing ends with the whole body and the trailer written, *)
(* wherever the buffers end, and throws only when a stream it works on or  *)
(* zlib's initialization fails; decompressing returns the whole body up to *)
(* the first end mark, and throws only on a stream that has none or is too *)
(* large, or when zlib cannot be initialized (StreamsAreComplete).         *)
THEOREM StreamsStayComplete ==
    Spec => []StreamsAreComplete
<1>1. StreamsAreSound /\ [Next]_vars => StreamsAreSound'
  <2>. SUFFICES ASSUME StreamsAreSound, [Next]_vars PROVE StreamsAreSound'
    OBVIOUS
  <2>1. CASE Loop
    BY <2>1, InitializeStep, ReadStep, DeflateStep, FailStep, InflateStep DEF Loop
  <2>2. CASE UNCHANGED stream
    BY <2>2 DEF StreamsAreSound, IsStream, Deflating, Inflating
  <2>3. Loop \/ UNCHANGED stream
    BY DEF Next, vars, Returns, Drain, RouteKey, RouteBatch, RouteWrite, DecodeBody, Announce,
           ParseAnswer, SeedOnce, Generate, DrawAll
  <2>4. QED
    BY <2>1, <2>2, <2>3
<1>2. StreamsAreSound => StreamsAreComplete
  BY DEF StreamsAreSound, StreamsAreComplete, Deflating, Inflating
<1>3. QED
  BY InitStreams, <1>1, <1>2, PTL DEF Spec

-----------------------------------------------------------------------------
(* Part 2.  The seeding generator.  Bounds are inequalities here: the      *)
(* provers enumerate an interval whose ends are numbers.                   *)

(* a is a residue of m * x modulo int32_max.                               *)
Residue(a, m, x) ==
    /\ a \in Int /\ 0 <= a /\ a < int32_max
    /\ \E k \in Int : a = m * x - k * int32_max

(* Every seed is mapped to a value the seeding generator does not stick    *)
(* at.                                                                     *)
LEMMA SeedsInRange ==
    ASSUME NEW seed \in Int
    PROVE  SeedValue(seed) \in Int /\ 1 <= SeedValue(seed) /\ SeedValue(seed) < int32_max
BY SMT DEF SeedValue, int32_max

(* SumMod adds residues.                                                   *)
LEMMA SumOfResidues ==
    ASSUME NEW x \in Int, NEW i \in Int, NEW j \in Int, NEW m \in Int, m = i + j,
           NEW a, NEW b, Residue(a, i, x), Residue(b, j, x)
    PROVE  Residue(SumMod(a, b), m, x)
<1>1. PICK k \in Int : a = i * x - k * int32_max
  BY SMT DEF Residue
<1>2. PICK l \in Int : b = j * x - l * int32_max
  BY SMT DEF Residue
<1>3. /\ a \in Int /\ 0 <= a /\ a < int32_max
      /\ b \in Int /\ 0 <= b /\ b < int32_max
  BY SMT DEF Residue
<1>4. m * x = i * x + j * x
  BY SMT
<1>5. int32_max \in Int
  BY SMT DEF int32_max
<1>6. CASE a >= int32_max - b
  <2>1. SumMod(a, b) = a + b - int32_max
    BY SMT, <1>3, <1>5, <1>6 DEF SumMod
  <2>2. SumMod(a, b) = m * x - (k + l + 1) * int32_max
    BY SMT, <1>1, <1>2, <1>4, <1>5, <2>1
  <2>3. QED
    BY SMT, <1>3, <1>5, <1>6, <2>1, <2>2 DEF Residue
<1>7. CASE ~(a >= int32_max - b)
  <2>1. SumMod(a, b) = a + b
    BY SMT, <1>3, <1>5, <1>7 DEF SumMod
  <2>2. SumMod(a, b) = m * x - (k + l) * int32_max
    BY SMT, <1>1, <1>2, <1>4, <1>5, <2>1
  <2>3. k + l \in Int /\ SumMod(a, b) \in Int /\ 0 <= SumMod(a, b) /\ SumMod(a, b) < int32_max
    BY SMT, <1>3, <1>5, <1>7, <2>1
  <2>4. QED
    BY SMT, <2>2, <2>3 DEF Residue
<1>8. QED
  BY SMT, <1>6, <1>7

(* The complement of a residue other than 0 is one of the opposite.        *)
LEMMA ComplementOfResidue ==
    ASSUME NEW x \in Int, NEW m \in Int, NEW a, Residue(a, m, x), a # 0
    PROVE  Residue(int32_max - a, -m, x)
<1>1. PICK k \in Int : a = m * x - k * int32_max
  BY SMT DEF Residue
<1>2. a \in Int /\ 0 <= a /\ a < int32_max /\ int32_max \in Int
  BY SMT DEF Residue, int32_max
<1>3. int32_max - a = (-m) * x - (-(k + 1)) * int32_max
  BY SMT, <1>1, <1>2
<1>4. QED
  BY SMT, <1>2, <1>3 DEF Residue

(* Residues of the same product are the same.                              *)
LEMMA ResiduesAreUnique ==
    ASSUME NEW x \in Int, NEW m \in Int, NEW a, NEW b, Residue(a, m, x), Residue(b, m, x)
    PROVE  a = b
<1>1. PICK k \in Int : a = m * x - k * int32_max
  BY SMT DEF Residue
<1>2. PICK l \in Int : b = m * x - l * int32_max
  BY SMT DEF Residue
<1>3. m * x \in Int
  BY SMT
<1>4. /\ a \in Int /\ 0 <= a /\ a < int32_max
      /\ b \in Int /\ 0 <= b /\ b < int32_max
  BY SMT DEF Residue
<1>5. QED
  BY SMT, <1>1, <1>2, <1>3, <1>4 DEF int32_max

(* Schrage's method: the remainder is that of the product, without a       *)
(* product that leaves 32 bits; and it is not 0.                           *)
LEMMA SchrageIsExact ==
    ASSUME NEW x \in Int, 1 <= x, x < int32_max
    PROVE  Residue(SeedRand(x), 48271, x) /\ SeedRand(x) # 0
<1>. DEFINE q == x \div 44488
            r == x % 44488
            next == 48271 * r - 3399 * q
<1>1. /\ q \in Int /\ r \in Int /\ x = 44488 * q + r
      /\ 0 <= q /\ q <= 48271 /\ 0 <= r /\ r < 44488
  BY SMT DEF int32_max
<1>2. SeedRand(x) = IF next < 0 THEN next + int32_max ELSE next
  BY SMT DEF SeedRand
<1>. HIDE DEF q, r
<1>3. next \in Int /\ next = 48271 * x - q * int32_max
  BY SMT, <1>1 DEF int32_max
<1>4. next # 0
  BY SMT, <1>1 DEF int32_max
<1>5. -int32_max < next /\ next < int32_max
  BY SMT, <1>1 DEF int32_max
<1>. HIDE DEF next
<1>6. CASE next < 0
  <2>1. SeedRand(x) = next + int32_max
    BY SMT, <1>2, <1>6
  <2>2. SeedRand(x) = 48271 * x - (q - 1) * int32_max
    BY SMT, <1>1, <1>3, <2>1 DEF int32_max
  <2>3. SeedRand(x) \in Int /\ 0 < SeedRand(x) /\ SeedRand(x) < int32_max
    BY SMT, <1>3, <1>5, <1>6, <2>1 DEF int32_max
  <2>4. QED
    BY SMT, <1>1, <2>2, <2>3 DEF Residue
<1>7. CASE ~(next < 0)
  <2>1. SeedRand(x) = next
    BY SMT, <1>2, <1>7
  <2>2. QED
    BY SMT, <1>1, <1>3, <1>4, <1>5, <1>7, <2>1 DEF Residue
<1>8. QED
  BY SMT, <1>6, <1>7

(* The doublings and sums of Lehmer make the same remainder.               *)
LEMMA LehmerIsExact ==
    ASSUME NEW x \in Int, 1 <= x, x < int32_max
    PROVE  Residue(Lehmer(x), 48271, x)
<1>. DEFINE twice == [a \in Nat |-> SumMod(a, a)]
            x8 == twice[twice[twice[x]]]
            x128 == twice[twice[twice[twice[x8]]]]
            x1024 == twice[twice[twice[x128]]]
            x8192 == twice[twice[twice[x1024]]]
            x15 == SumMod(twice[x8], int32_max - x)
            x15360 == SumMod(twice[x8192], int32_max - x1024)
<1>1. Residue(x, 1, x)
  <2>1. x = 1 * x - 0 * int32_max
    BY SMT DEF int32_max
  <2>2. QED
    BY SMT, <2>1 DEF Residue
<1>2. ASSUME NEW a, NEW m \in Int, NEW n \in Int, n = 2 * m, Residue(a, m, x)
      PROVE  Residue(twice[a], n, x)
  <2>1. a \in Nat /\ n = m + m
    BY SMT, <1>2 DEF Residue
  <2>2. twice[a] = SumMod(a, a)
    BY Zenon, <2>1
  <2>3. QED
    BY SMT, <1>2, <2>1, <2>2, SumOfResidues
<1>3. Lehmer(x) = SumMod(SumMod(twice[twice[x8192]], x15360), SumMod(x128, x15))
  BY Zenon DEF Lehmer
<1>. HIDE DEF twice
<1>4. Residue(x8, 8, x)
  <2>1. Residue(twice[x], 2, x)
    BY SMT, <1>1, <1>2
  <2>2. Residue(twice[twice[x]], 4, x)
    BY SMT, <1>2, <2>1
  <2>3. QED
    BY SMT, <1>2, <2>2
<1>. HIDE DEF x8
<1>5. Residue(twice[x8], 16, x)
  BY SMT, <1>2, <1>4
<1>6. Residue(x128, 128, x)
  <2>1. Residue(twice[twice[x8]], 32, x)
    BY SMT, <1>2, <1>5
  <2>2. Residue(twice[twice[twice[x8]]], 64, x)
    BY SMT, <1>2, <2>1
  <2>3. QED
    BY SMT, <1>2, <2>2
<1>. HIDE DEF x128
<1>7. Residue(x1024, 1024, x)
  <2>1. Residue(twice[x128], 256, x)
    BY SMT, <1>2, <1>6
  <2>2. Residue(twice[twice[x128]], 512, x)
    BY SMT, <1>2, <2>1
  <2>3. QED
    BY SMT, <1>2, <2>2
<1>. HIDE DEF x1024
<1>8. Residue(x8192, 8192, x)
  <2>1. Residue(twice[x1024], 2048, x)
    BY SMT, <1>2, <1>7
  <2>2. Residue(twice[twice[x1024]], 4096, x)
    BY SMT, <1>2, <2>1
  <2>3. QED
    BY SMT, <1>2, <2>2
<1>. HIDE DEF x8192
<1>9. Residue(twice[x8192], 16384, x) /\ Residue(twice[twice[x8192]], 32768, x)
  <2>1. Residue(twice[x8192], 16384, x)
    BY SMT, <1>2, <1>8
  <2>2. QED
    BY SMT, <1>2, <2>1
<1>10. Residue(x15, 15, x)
  <2>1. Residue(int32_max - x, -1, x)
    BY SMT, <1>1, ComplementOfResidue
  <2>2. QED
    BY SMT, <1>5, <2>1, SumOfResidues
<1>11. Residue(x15360, 15360, x)
  <2>1. x1024 # 0
    <3>1. PICK k \in Int : x1024 = 1024 * x - k * int32_max
      BY SMT, <1>7 DEF Residue
    <3>2. QED
      BY SMT, <3>1 DEF int32_max
  <2>2. Residue(int32_max - x1024, -1024, x)
    BY SMT, <1>7, <2>1, ComplementOfResidue
  <2>3. QED
    BY SMT, <1>9, <2>2, SumOfResidues
<1>. HIDE DEF x15, x15360
<1>12. Residue(SumMod(twice[twice[x8192]], x15360), 48128, x)
  BY SMT, <1>9, <1>11, SumOfResidues
<1>13. Residue(SumMod(x128, x15), 143, x)
  BY SMT, <1>6, <1>10, SumOfResidues
<1>14. QED
  BY SMT, <1>3, <1>12, <1>13, SumOfResidues

-----------------------------------------------------------------------------
(* The words of the generator.                                             *)

Word == 0 .. WordSize - 1
(* The position j places ahead of i, around the end of the vector.         *)
Ahead(i, j) == IF i + j < rng_len THEN i + j ELSE i + j - rng_len

(* The generator between two calls: the word j places ahead of feed is the *)
(* value of j calls ago, as long as there is one, and tap stays rng_tap    *)
(* places ahead.  So the two words a call adds are the values of rng_len   *)
(* and rng_tap calls before.                                               *)
Lagged(rng) ==
    /\ rng.tap \in 0 .. rng_len - 1 /\ rng.feed \in 0 .. rng_len - 1
    /\ rng.vec \in [0 .. rng_len - 1 -> Word]
    /\ rng.out \in Seq(Word)
    /\ rng.tap = Ahead(rng.feed, rng_tap)
    /\ \A j \in 0 .. rng_len - 1 :
          j < Len(rng.out) => rng.vec[Ahead(rng.feed, j)] = rng.out[Len(rng.out) - j]
    /\ \A k \in rng_len + 1 .. Len(rng.out) :
          rng.out[k] = (rng.out[k - rng_len] + rng.out[k - rng_tap]) % WordSize

(* Seed leaves the generator so.                                           *)
LEMMA SeededIsLagged ==
    ASSUME NEW words \in [0 .. rng_len - 1 -> Word]
    PROVE  Lagged(Seeded(words))
<1>1. Seeded(words).tap = 0 /\ Seeded(words).feed = rng_len - rng_tap
      /\ Seeded(words).vec = words /\ Seeded(words).out = <<>>
  BY DEF Seeded
<1>2. << >> \in Seq(Word) /\ Len(<< >>) = 0
  OBVIOUS
<1>3. QED
  BY <1>1, <1>2, GeneratorAssumption DEF Lagged, Ahead

(* A call steps both positions back together.                              *)
LEMMA StepsBackTogether ==
    ASSUME NEW i \in 0 .. rng_len - 1
    PROVE  /\ StepBack(i) \in 0 .. rng_len - 1
           /\ StepBack(i) = Ahead(i, rng_len - 1)
           /\ \A j \in 1 .. rng_len - 1 :
                 /\ Ahead(StepBack(i), j) = Ahead(i, j - 1)
                 /\ Ahead(StepBack(i), j) # StepBack(i)
                 /\ Ahead(StepBack(i), j) \in 0 .. rng_len - 1
           /\ StepBack(Ahead(i, rng_tap)) = Ahead(StepBack(i), rng_tap)
           /\ Ahead(StepBack(i), 0) = StepBack(i)
BY GeneratorAssumption DEF StepBack, Ahead

(* A call keeps it so.                                                     *)
LEMMA CallKeepsLag ==
    ASSUME NEW rng, Lagged(rng)
    PROVE  Lagged(Uint64(rng))
<1>. DEFINE tap == StepBack(rng.tap)
            feed == StepBack(rng.feed)
            x == (rng.vec[feed] + rng.vec[tap]) % WordSize
            next == Uint64(rng)
            n == Len(rng.out)
<1>1. /\ rng.tap \in 0 .. rng_len - 1 /\ rng.feed \in 0 .. rng_len - 1
      /\ rng.vec \in [0 .. rng_len - 1 -> Word] /\ rng.out \in Seq(Word)
      /\ rng.tap = Ahead(rng.feed, rng_tap)
  BY DEF Lagged
<1>2. /\ rng_len \in Nat /\ rng_tap \in 1 .. rng_len - 1 /\ n \in Nat
  BY <1>1, GeneratorAssumption
<1>3. /\ next.tap = tap /\ next.feed = feed
      /\ next.vec = [rng.vec EXCEPT ![feed] = x] /\ next.out = Append(rng.out, x)
  BY DEF Uint64
<1>4. /\ feed \in 0 .. rng_len - 1 /\ tap \in 0 .. rng_len - 1
      /\ feed = Ahead(rng.feed, rng_len - 1)
      /\ tap = Ahead(feed, rng_tap) /\ tap = Ahead(rng.feed, rng_tap - 1)
  BY <1>1, <1>2, StepsBackTogether
<1>5. x \in Word
  <2>1. rng.vec[feed] \in Word /\ rng.vec[tap] \in Word
    BY <1>1, <1>4
  <2>2. QED
    BY <2>1, GeneratorAssumption DEF Word
<1>6. ASSUME n >= rng_len, NEW k \in Int, k = n + 1
      PROVE  x = (rng.out[k - rng_len] + rng.out[k - rng_tap]) % WordSize
  <2>. HIDE DEF tap, feed
  <2>0. /\ rng_len - 1 \in 0 .. rng_len - 1 /\ rng_len - 1 < n
        /\ rng_tap - 1 \in 0 .. rng_len - 1 /\ rng_tap - 1 < n
    BY <1>2, <1>6
  <2>1. rng.vec[feed] = rng.out[n - (rng_len - 1)]
    BY <1>4, <2>0 DEF Lagged
  <2>2. rng.vec[tap] = rng.out[n - (rng_tap - 1)]
    BY <1>4, <2>0 DEF Lagged
  <2>3. n - (rng_len - 1) = k - rng_len /\ n - (rng_tap - 1) = k - rng_tap
    BY <1>2, <1>6
  <2>4. QED
    BY <2>1, <2>2, <2>3
<1>. HIDE DEF x, next, tap, feed
<1>7. next.out \in Seq(Word) /\ Len(next.out) = n + 1 /\ next.out[n + 1] = x
      /\ \A k \in 1 .. n : next.out[k] = rng.out[k]
  BY <1>1, <1>3, <1>5
<1>8. ASSUME NEW j \in 0 .. rng_len - 1, j < n + 1
      PROVE  next.vec[Ahead(next.feed, j)] = next.out[n + 1 - j]
  <2>1. CASE j = 0
    <3>1. Ahead(feed, j) = feed
      BY <1>1, <2>1, StepsBackTogether DEF feed
    <3>2. n + 1 - j = n + 1
      BY <1>2, <2>1
    <3>3. next.vec[feed] = x
      BY <1>1, <1>3, <1>4
    <3>4. QED
      BY <1>3, <1>7, <3>1, <3>2, <3>3
  <2>2. CASE j # 0
    <3>1. j \in 1 .. rng_len - 1 /\ j - 1 \in 0 .. rng_len - 1 /\ j - 1 < n
      BY <1>2, <1>8, <2>2
    <3>2. /\ Ahead(feed, j) = Ahead(rng.feed, j - 1) /\ Ahead(feed, j) # feed
          /\ Ahead(feed, j) \in 0 .. rng_len - 1
      BY <1>1, <3>1, StepsBackTogether DEF feed
    <3>3. next.vec[Ahead(feed, j)] = rng.vec[Ahead(feed, j)]
      BY <1>1, <1>3, <3>2
    <3>4. rng.vec[Ahead(rng.feed, j - 1)] = rng.out[n - (j - 1)]
      BY <3>1 DEF Lagged
    <3>5. n - (j - 1) = n + 1 - j /\ n + 1 - j \in 1 .. n
      BY <1>2, <3>1
    <3>6. QED
      BY <1>3, <1>7, <3>2, <3>3, <3>4, <3>5
  <2>3. QED
    BY <2>1, <2>2
<1>9. ASSUME NEW k \in rng_len + 1 .. n + 1
      PROVE  next.out[k] = (next.out[k - rng_len] + next.out[k - rng_tap]) % WordSize
  <2>1. k - rng_len \in 1 .. n /\ k - rng_tap \in 1 .. n
    BY <1>2
  <2>2. CASE k = n + 1
    <3>1. n >= rng_len /\ k \in Int
      BY <1>2, <2>2
    <3>2. x = (rng.out[k - rng_len] + rng.out[k - rng_tap]) % WordSize
      BY <1>6, <2>2, <3>1
    <3>3. QED
      BY <1>7, <2>1, <2>2, <3>2
  <2>3. CASE k # n + 1
    <3>1. k \in rng_len + 1 .. n /\ k \in 1 .. n
      BY <1>2, <2>3
    <3>2. rng.out[k] = (rng.out[k - rng_len] + rng.out[k - rng_tap]) % WordSize
      BY <3>1 DEF Lagged
    <3>3. QED
      BY <1>7, <2>1, <3>1, <3>2
  <2>4. QED
    BY <2>2, <2>3
<1>10. next.vec \in [0 .. rng_len - 1 -> Word]
  BY <1>1, <1>3, <1>5
<1>11. Lagged(next)
  <2>1. \A j \in 0 .. rng_len - 1 :
          j < Len(next.out) => next.vec[Ahead(next.feed, j)] = next.out[Len(next.out) - j]
    BY <1>7, <1>8
  <2>2. \A k \in rng_len + 1 .. Len(next.out) :
          next.out[k] = (next.out[k - rng_len] + next.out[k - rng_tap]) % WordSize
    BY <1>7, <1>9
  <2>3. QED
    BY <1>3, <1>4, <1>7, <1>10, <2>1, <2>2 DEF Lagged
<1>12. QED
  BY <1>11 DEF next

-----------------------------------------------------------------------------
(* The draws.                                                              *)

(* Quotient and remainder are unique.                                      *)
LEMMA DivisionIsUnique ==
    ASSUME NEW n \in Nat \ {0}, NEW k \in Int, NEW r \in 0 .. n - 1
    PROVE  (k * n + r) % n = r /\ (k * n + r) \div n = k
<1>. DEFINE v == k * n + r
            q == v \div n
            s == v % n
<1>1. v \in Int /\ q \in Int /\ s \in 0 .. n - 1 /\ v = n * q + s
  BY SMT
<1>. HIDE DEF q, s
<1>2. (q - k) * n = r - s
  BY SMT, <1>1
<1>3. q - k < 1
  <2>1. SUFFICES ASSUME q - k >= 1 PROVE FALSE
    BY SMT, <1>1
  <2>2. (q - k) * n >= n
    BY SMT, <1>1, <2>1
  <2>3. QED
    BY SMT, <1>1, <1>2, <2>2
<1>4. k - q < 1
  <2>1. SUFFICES ASSUME k - q >= 1 PROVE FALSE
    BY SMT, <1>1
  <2>2. (k - q) * n >= n
    BY SMT, <1>1, <2>1
  <2>3. (k - q) * n = s - r
    BY SMT, <1>1, <1>2
  <2>4. QED
    BY SMT, <1>1, <2>2, <2>3
<1>5. q = k
  BY SMT, <1>1, <1>3, <1>4
<1>6. s = r
  BY SMT, <1>1, <1>5
<1>7. QED
  BY SMT, <1>5, <1>6 DEF q, s

(* Every value below n is drawn by as many values of Int31 as n fits into  *)
(* their number.                                                           *)
LEMMA DrawsAreEven ==
    ASSUME NEW n \in 1 .. IntSize - 1, NEW r \in 0 .. n - 1
    PROVE  Cardinality({v \in 0 .. IntSize - 1 : Int31n(v, n) = r}) = IntSize \div n
<1>. DEFINE m == IntSize \div n
            rest == IntSize % n
            S == {v \in 0 .. IntSize - 1 : Int31n(v, n) = r}
            f == [i \in 1 .. m |-> (i - 1) * n + r]
<1>0. IntSize \in Nat /\ n \in Nat \ {0}
  BY SMT, GeneratorAssumption
<1>1. m \in Nat /\ rest \in 0 .. n - 1 /\ IntSize = m * n + rest
  BY SMT, <1>0
<1>2. ASSUME NEW v \in 0 .. IntSize - 1
      PROVE  v \in S <=> v < m * n /\ v % n = r
  <2>1. v % n \in 0 .. n - 1
    BY SMT, <1>0
  <2>2. m * n \in Int
    BY SMT, <1>1, <1>0
  <2>3. CASE v < m * n
    <3>1. ~(v > (IntSize - 1) - rest)
      BY SMT, <1>0, <1>1, <2>2, <2>3
    <3>2. QED
      BY SMT, <2>3, <3>1 DEF Int31n
  <2>4. CASE ~(v < m * n)
    <3>1. v > (IntSize - 1) - rest /\ rest # 0
      BY SMT, <1>0, <1>1, <2>2, <2>4
    <3>2. Int31n(v, n) = Again
      BY SMT, <3>1 DEF Int31n
    <3>3. QED
      BY SMT, <2>4, <3>2 DEF Again
  <2>5. QED
    BY <2>3, <2>4
<1>. HIDE DEF m, rest
<1>3. ASSUME NEW i \in 1 .. m
      PROVE  /\ f[i] \in 0 .. IntSize - 1 /\ f[i] < m * n
             /\ f[i] % n = r /\ f[i] \div n = i - 1
  <2>1. f[i] = (i - 1) * n + r
    OBVIOUS
  <2>2. (i - 1) * n >= 0
    BY SMT, <1>0, <1>1
  <2>3. (i - 1) * n <= (m - 1) * n
    BY SMT, <1>0, <1>1
  <2>4. (m - 1) * n = m * n - n
    BY SMT, <1>0, <1>1
  <2>. HIDE DEF f
  <2>5. f[i] \in 0 .. IntSize - 1 /\ f[i] < m * n
    BY SMT, <1>0, <1>1, <2>1, <2>2, <2>3, <2>4
  <2>6. i - 1 \in Int
    BY SMT, <1>1
  <2>7. ((i - 1) * n + r) % n = r /\ ((i - 1) * n + r) \div n = i - 1
    BY <1>0, <2>6, DivisionIsUnique
  <2>8. QED
    BY <2>1, <2>5, <2>7
<1>4. f \in [1 .. m -> S]
  BY <1>2, <1>3
<1>5. \A i, j \in 1 .. m : f[i] = f[j] => i = j
  <2>. HIDE DEF f
  <2>1. QED
    BY SMT, <1>1, <1>3
<1>6. \A v \in S : \E i \in 1 .. m : f[i] = v
  <2>. SUFFICES ASSUME NEW v \in S PROVE \E i \in 1 .. m : f[i] = v
    OBVIOUS
  <2>. DEFINE k == v \div n
  <2>1. v \in 0 .. IntSize - 1 /\ v < m * n /\ v % n = r
    BY <1>2
  <2>2. k \in Nat /\ v = k * n + r
    BY SMT, <1>0, <2>1
  <2>. HIDE DEF k, S
  <2>3. k < m
    <3>1. SUFFICES ASSUME k >= m PROVE FALSE
      BY SMT, <1>1, <2>2
    <3>2. k * n >= m * n
      BY SMT, <1>0, <1>1, <2>2, <3>1
    <3>3. QED
      BY SMT, <1>0, <1>1, <2>1, <2>2, <3>2
  <2>4. k + 1 \in 1 .. m /\ (k + 1) - 1 = k
    BY SMT, <1>1, <2>2, <2>3
  <2>5. f[k + 1] = v
    BY <2>2, <2>4
  <2>6. QED
    BY <2>4, <2>5
<1>7. ExistsBijection(1 .. m, S)
  <2>. HIDE DEF f, S
  <2>1. f \in Bijection(1 .. m, S)
    BY <1>4, <1>5, <1>6 DEF Bijection, Injection, Surjection, IsInjective
  <2>2. QED
    BY <2>1 DEF ExistsBijection
<1>8. QED
  BY <1>1, <1>7, FS_CountingElements DEF m

-----------------------------------------------------------------------------
(* The invariant of all calls, and the theorem about the generator.        *)

(* An output is what the functions make of the input.                      *)
GeneratorInv ==
    /\ input \in Input \cup {Pending}
    /\ output.of = "Seed" =>
          /\ input.of = "Seed"
          /\ output.value = SeedValue(input.seed) /\ output.next = SeedRand(output.value)
    /\ output.of = "Words" => input.of = "Words" /\ Lagged(output.rng)
    /\ output.of = "Below" =>
          /\ input.of = "Below"
          /\ output.drawn = [v \in 0 .. IntSize - 1 |-> Int31n(v, input.n)]

(* A call of a function that is not the generator's is not its concern.    *)
LEMMA OtherCalls ==
    ASSUME GeneratorInv, UNCHANGED input,
           output'.of \notin {"Seed", "Words", "Below"}
    PROVE  GeneratorInv'
BY DEF GeneratorInv

(* Every call keeps the invariant.                                         *)
LEMMA StepGenerator ==
    GeneratorInv /\ [Next]_vars => GeneratorInv'
<1>. SUFFICES ASSUME GeneratorInv, [Next]_vars PROVE GeneratorInv'
  OBVIOUS
<1>1. CASE Drain
  BY <1>1, OtherCalls DEF Drain, Returns
<1>2. CASE RouteKey
  BY <1>2, OtherCalls DEF RouteKey, Returns
<1>3. CASE RouteBatch
  BY <1>3, OtherCalls DEF RouteBatch, Returns
<1>4. CASE RouteWrite
  BY <1>4, OtherCalls DEF RouteWrite, Returns
<1>5. CASE DecodeBody
  BY <1>5, OtherCalls DEF DecodeBody, Returns
<1>6. CASE Announce
  BY <1>6, OtherCalls DEF Announce, Returns
<1>7. CASE ParseAnswer
  BY <1>7, OtherCalls DEF ParseAnswer, Returns
<1>8. CASE SeedOnce
  BY <1>8 DEF SeedOnce, Returns, GeneratorInv
<1>9. CASE Generate
  <2>. DEFINE rng == IF output.of = "Words" THEN output.rng ELSE Seeded(input.words)
  <2>1. input' = input /\ input.of = "Words" /\ output' = [of |-> "Words", rng |-> Uint64(rng)]
    BY <1>9 DEF Generate
  <2>2. Lagged(rng)
    <3>1. CASE output.of = "Words"
      BY <3>1 DEF GeneratorInv
    <3>2. CASE output.of # "Words"
      <4>1. input \in Input
        BY <2>1 DEF GeneratorInv, Pending
      <4>2. input.words \in [0 .. rng_len - 1 -> Word]
        BY <2>1, <4>1, InputAssumption DEF Word
      <4>3. QED
        BY <3>2, <4>2, SeededIsLagged
    <3>3. QED
      BY <3>1, <3>2
  <2>. HIDE DEF rng
  <2>3. Lagged(Uint64(rng))
    BY <2>2, CallKeepsLag
  <2>4. QED
    BY <2>1, <2>3 DEF GeneratorInv
<1>10. CASE DrawAll
  BY <1>10 DEF DrawAll, Returns, GeneratorInv
<1>11. CASE Loop \/ UNCHANGED vars
  BY <1>11 DEF Loop, vars, GeneratorInv
<1>12. QED
  BY <1>1, <1>2, <1>3, <1>4, <1>5, <1>6, <1>7, <1>8, <1>9, <1>10, <1>11 DEF Next

(* What the functions make of an input is sound.                           *)
LEMMA GeneratorInvSuffices ==
    GeneratorInv => GeneratorIsSound
<1>. SUFFICES ASSUME GeneratorInv PROVE GeneratorIsSound
  OBVIOUS
<1>0. output.of \in {"Seed", "Below"} => input \in Input
  BY DEF GeneratorInv, Pending
<1>1. SeedsDoNotStick
  <2>. SUFFICES ASSUME output.of = "Seed"
                PROVE  /\ output.value \in 1 .. int32_max - 1
                       /\ output.next = Lehmer(output.value)
                       /\ output.next # 0
    BY DEF SeedsDoNotStick
  <2>. DEFINE x == output.value
  <2>1. input.seed \in Int /\ x = SeedValue(input.seed) /\ output.next = SeedRand(x)
    BY <1>0, InputAssumption DEF GeneratorInv
  <2>2. x \in Int /\ 1 <= x /\ x < int32_max
    BY <2>1, SeedsInRange
  <2>3. int32_max \in Int
    BY SMT DEF int32_max
  <2>4. Residue(SeedRand(x), 48271, x) /\ SeedRand(x) # 0
    BY SMT, <2>2, SchrageIsExact
  <2>5. Residue(Lehmer(x), 48271, x)
    BY SMT, <2>2, LehmerIsExact
  <2>6. SeedRand(x) = Lehmer(x)
    BY SMT, <2>2, <2>4, <2>5, ResiduesAreUnique
  <2>7. x \in 1 .. int32_max - 1
    BY SMT, <2>2, <2>3
  <2>8. QED
    BY SMT, <2>1, <2>4, <2>6, <2>7
<1>2. WordsAreLagged
  BY DEF WordsAreLagged, GeneratorInv, Lagged
<1>3. DrawsAreFair
  <2>. SUFFICES ASSUME output.of = "Below", NEW r \in 0 .. input.n - 1
                PROVE  LET Ways(q) == Cardinality({v \in DOMAIN output.drawn : output.drawn[v] = q})
                       IN  Ways(r) = Ways(0) /\ Ways(r) > 0
    BY DEF DrawsAreFair
  <2>. DEFINE n == input.n
              Ways(q) == Cardinality({v \in DOMAIN output.drawn : output.drawn[v] = q})
  <2>1. n \in 1 .. IntSize - 1 /\ output.drawn = [v \in 0 .. IntSize - 1 |-> Int31n(v, n)]
    BY <1>0, InputAssumption DEF GeneratorInv
  <2>2. ASSUME NEW q \in 0 .. n - 1 PROVE Ways(q) = IntSize \div n
    <3>1. {v \in DOMAIN output.drawn : output.drawn[v] = q}
            = {v \in 0 .. IntSize - 1 : Int31n(v, n) = q}
      BY <2>1
    <3>2. QED
      BY <2>1, <3>1, DrawsAreEven
  <2>. HIDE DEF n, Ways
  <2>3. 0 \in 0 .. n - 1 /\ r \in 0 .. n - 1 /\ IntSize \div n > 0
    <3>1. IntSize \in Nat /\ n \in Nat \ {0} /\ n < IntSize
      BY SMT, <2>1, GeneratorAssumption
    <3>2. PICK q \in Int, s \in 0 .. n - 1 : q = IntSize \div n /\ IntSize = n * q + s
      BY SMT, <3>1
    <3>3. q > 0
      <4>1. SUFFICES ASSUME q <= 0 PROVE FALSE
        BY SMT
      <4>2. n * q <= 0
        BY SMT, <3>1, <4>1
      <4>3. QED
        BY SMT, <3>1, <3>2, <4>2
    <3>4. QED
      BY <3>1, <3>2, <3>3 DEF n
  <2>4. Ways(r) = Ways(0) /\ Ways(r) > 0
    BY <2>2, <2>3
  <2>5. QED
    BY <2>4 DEF Ways
<1>4. QED
  BY <1>1, <1>2, <1>3 DEF GeneratorIsSound

(* Theorem.  For every seed the seeding generator starts at a value it     *)
(* does not stick at and multiplies it exactly; every value of the         *)
(* generator is the sum of two earlier ones, at the distances rng_len and  *)
(* rng_tap, however many calls are made; and draws below any bound are     *)
(* fair (GeneratorIsSound).                                                *)
THEOREM GeneratorStaysSound ==
    Spec => []GeneratorIsSound
<1>1. Init => GeneratorInv
  BY DEF Init, GeneratorInv, Pending
<1>2. QED
  BY <1>1, StepGenerator, GeneratorInvSuffices, PTL DEF Spec

-----------------------------------------------------------------------------
(* Part 3.  Induction and folds.                                           *)

(* A set with 0 and with the successor of each of its numbers has all      *)
(* natural numbers.                                                        *)
LEMMA Induction ==
    ASSUME NEW S, 0 \in S, \A n \in Nat : n \in S => n + 1 \in S
    PROVE  \A n \in Nat : n \in S
<1> SUFFICES ASSUME ~(Nat \subseteq S) PROVE FALSE
  OBVIOUS
<1> DEFINE T == Nat \ S
           R == OpToRel(<, Nat)
<1>1. T \subseteq Nat /\ T # {}
  OBVIOUS
<1>2. PICK x \in T : \A y \in T : ~(<<y, x>> \in R)
  <2> HIDE DEF T
  <2>1. IsWellFoundedOn(R, Nat)
    BY NatLessThanWellFounded
  <2> HIDE DEF R
  <2>2. QED
    BY <1>1, <2>1, WFMin
<1>3. \A y \in T : ~(y < x)
  BY <1>2 DEF OpToRel
<1>4. x \in Nat /\ x \notin S
  BY <1>2
<1>5. x # 0 /\ x - 1 \in Nat /\ x - 1 < x
  BY <1>4
<1>6. x - 1 \notin S
  BY <1>4, <1>5
<1>7. QED
  BY <1>3, <1>5, <1>6

(* A nonempty set of natural numbers has a least one.                      *)
LEMMA HasLeast ==
    ASSUME NEW T \in SUBSET Nat, T # {}
    PROVE  \E x \in T : \A y \in T : x <= y
<1>1. \E x \in T : \A y \in T : ~(<<y, x>> \in OpToRel(<, Nat))
  <2> DEFINE R == OpToRel(<, Nat)
  <2>1. IsWellFoundedOn(R, Nat)
    BY NatLessThanWellFounded
  <2> HIDE DEF R
  <2>2. \E x \in T : \A y \in T : ~(<<y, x>> \in R)
    BY <2>1, WFMin
  <2>3. QED
    BY <2>2 DEF R
<1>2. \E x \in T : \A y \in T : ~(y < x)
  BY <1>1 DEF OpToRel
<1>3. \A x, y \in T : ~(y < x) => x <= y
  OBVIOUS
<1>4. QED
  BY <1>2, <1>3

(* Max of a nonempty set of numbers up to n.                               *)
LEMMA MaxIsIn ==
    ASSUME NEW n \in Nat, NEW s \in SUBSET (0 .. n), s # {}
    PROVE  Max(s) \in s /\ \A y \in s : Max(s) >= y
<1> DEFINE T == {n - y : y \in s}
<1>1. T \in SUBSET Nat /\ T # {}
  <2>1. \A y \in s : n - y \in Nat
    OBVIOUS
  <2>2. QED
    BY <2>1
<1>2. PICK x \in T : \A y \in T : x <= y
  <2> HIDE DEF T
  <2>1. QED
    BY <1>1, HasLeast
<1>3. PICK m \in s : x = n - m
  BY <1>2
<1>4. \A y \in s : m >= y
  BY <1>2, <1>3
<1>5. \E w \in s : \A y \in s : w >= y
  BY <1>4
<1>6. QED
  BY <1>5, Zenon DEF Max

(* The largest of a set of places, and what is left without it.            *)
LEMMA MaxIsAPlace ==
    ASSUME NEW n \in Nat, NEW s \in SUBSET (1 .. n), s # {}
    PROVE  Max(s) \in 1 .. n /\ s \ {Max(s)} \in SUBSET (1 .. n)
<1>1. s \in SUBSET (0 .. n)
  OBVIOUS
<1>2. Max(s) \in s
  BY <1>1, MaxIsIn
<1>3. QED
  BY <1>2

(* The largest of a set of numbers that has k + 1 and none above.          *)
LEMMA MaxIsLast ==
    ASSUME NEW k \in Nat, NEW s \in SUBSET (1 .. k + 1), k + 1 \in s
    PROVE  Max(s) = k + 1
<1>1. \A y \in s : k + 1 >= y
  OBVIOUS
<1>2. \A x \in s : (\A y \in s : x >= y) => x = k + 1
  OBVIOUS
<1>3. QED
  BY <1>1, <1>2, Zenon DEF Max

(* What MapThenFoldSet's function computes on the way to a sequence's fold *)
(* when F[k] is what the fold does with the k-th entry.                    *)
IsFold(f, n, base, F) ==
    \A s \in SUBSET (1 .. n) :
        f[s] = IF s = {} THEN base ELSE F[Max(s)][f[s \ {Max(s)}]]

(* The function that MapThenFoldSet chooses exists, for the sequence of    *)
(* the functions F that are applied one after the other.                   *)
LEMMA FoldExists ==
    ASSUME NEW n \in Nat, NEW T, NEW base \in T, NEW F \in [1 .. n -> [T -> T]]
    PROVE  \E f \in [SUBSET (1 .. n) -> T] : IsFold(f, n, base, F)
<1> DEFINE Ex(k) == \E f \in [SUBSET (1 .. k) -> T] : IsFold(f, k, base, F)
           S == {k \in Nat : k <= n => Ex(k)}
<1>1. 0 \in S
  <2> DEFINE f == [s \in SUBSET (1 .. 0) |-> base]
  <2>1. f \in [SUBSET (1 .. 0) -> T]
    OBVIOUS
  <2>2. \A s \in SUBSET (1 .. 0) : s = {}
    OBVIOUS
  <2>3. IsFold(f, 0, base, F)
    BY <2>2 DEF IsFold
  <2>4. QED
    BY <2>1, <2>3
<1>2. ASSUME NEW k \in Nat, k \in S PROVE k + 1 \in S
  <2> SUFFICES ASSUME k + 1 <= n
               PROVE  Ex(k + 1)
    <3> HIDE DEF Ex
    <3>1. QED
      OBVIOUS
  <2>0. Ex(k)
    <3> HIDE DEF Ex
    <3>1. QED
      BY <1>2
  <2>1. PICK f \in [SUBSET (1 .. k) -> T] : IsFold(f, k, base, F)
    BY <2>0
  <2> DEFINE g == [s \in SUBSET (1 .. k + 1) |->
                      IF k + 1 \in s THEN F[k + 1][f[s \ {k + 1}]] ELSE f[s]]
  <2>2. \A s \in SUBSET (1 .. k + 1) : k + 1 \notin s => s \in SUBSET (1 .. k)
    OBVIOUS
  <2>3. \A s \in SUBSET (1 .. k + 1) : s \ {k + 1} \in SUBSET (1 .. k)
    OBVIOUS
  <2>4. k + 1 \in 1 .. n
    OBVIOUS
  <2>5. F[k + 1] \in [T -> T]
    BY <2>4
  <2>6. g \in [SUBSET (1 .. k + 1) -> T]
    BY <2>2, <2>3, <2>5
  <2>7. ASSUME NEW s \in SUBSET (1 .. k + 1)
        PROVE  g[s] = IF s = {} THEN base ELSE F[Max(s)][g[s \ {Max(s)}]]
    <3>1. CASE k + 1 \in s
      <4>1. Max(s) = k + 1
        BY <3>1, MaxIsLast
      <4>2. g[s \ {k + 1}] = f[s \ {k + 1}]
        BY <2>3
      <4>3. g[s] = F[k + 1][f[s \ {k + 1}]]
        BY <3>1
      <4> HIDE DEF g
      <4>4. QED
        BY <3>1, <4>1, <4>2, <4>3
    <3>2. CASE k + 1 \notin s
      <4>1. s \in SUBSET (1 .. k)
        BY <3>2, <2>2
      <4>2. g[s] = f[s]
        BY <3>2
      <4>3. s \ {Max(s)} \in SUBSET (1 .. k + 1) /\ k + 1 \notin s \ {Max(s)}
        BY <3>2
      <4>4. g[s \ {Max(s)}] = f[s \ {Max(s)}]
        BY <4>3
      <4>5. f[s] = IF s = {} THEN base ELSE F[Max(s)][f[s \ {Max(s)}]]
        BY <2>1, <4>1 DEF IsFold
      <4> HIDE DEF g
      <4>6. QED
        BY <4>2, <4>4, <4>5
    <3>3. QED
      BY <3>1, <3>2
  <2>8. IsFold(g, k + 1, base, F)
    BY <2>7 DEF IsFold
  <2>9. QED
    BY <2>6, <2>8
<1>3. n \in S
  <2> HIDE DEF S
  <2>1. QED
    BY <1>1, <1>2, Induction
<1>4. Ex(n)
  <2> HIDE DEF Ex
  <2>1. QED
    BY <1>3
<1>5. QED
  BY <1>4

(* The same of a function of which only values in T are known.             *)
IsFoldIn(T, f, n, base, F) ==
    /\ f[{}] = base
    /\ \A s \in SUBSET (1 .. n) :
          s # {} /\ f[s \ {Max(s)}] \in T => f[s] = F[Max(s)][f[s \ {Max(s)}]]

(* The values of a fold after each of its n steps.                         *)
IsRun(h, n, base, F) == h[0] = base /\ \A k \in 1 .. n : h[k] = F[k][h[k - 1]]

RunsTo(T, n, base, F, last) ==
    \E h \in [0 .. n -> T] : IsRun(h, n, base, F) /\ h[n] = last

(* A function that computes a fold does so step by step.                   *)
LEMMA FoldSteps ==
    ASSUME NEW n \in Nat, NEW T, NEW base \in T, NEW F \in [1 .. n -> [T -> T]],
           NEW iter, IsFoldIn(T, iter, n, base, F)
    PROVE  RunsTo(T, n, base, F, iter[1 .. n])
<1> DEFINE h == [k \in 0 .. n |-> iter[1 .. k]]
<1>1. h[0] = base
  <2>1. 1 .. 0 = {} /\ 0 \in 0 .. n
    OBVIOUS
  <2>2. QED
    BY <2>1 DEF IsFoldIn
<1>2. ASSUME NEW k \in 1 .. n, h[k - 1] \in T
      PROVE  h[k] = F[k][h[k - 1]]
  <2>1. 1 .. k \in SUBSET (1 .. n) /\ 1 .. k # {}
    <3>1. 1 \in 1 .. k /\ \A i \in 1 .. k : i \in 1 .. n
      OBVIOUS
    <3>2. QED
      BY <3>1, Zenon
  <2>2. Max(1 .. k) = k
    <3>1. k - 1 \in Nat /\ (k - 1) + 1 = k /\ k \in 1 .. k
      OBVIOUS
    <3>2. QED
      BY <3>1, MaxIsLast
  <2>3. (1 .. k) \ {k} = 1 .. (k - 1)
    OBVIOUS
  <2>4. h[k] = iter[1 .. k] /\ h[k - 1] = iter[1 .. (k - 1)]
    OBVIOUS
  <2> DEFINE s == 1 .. k
  <2>5. s \in SUBSET (1 .. n) /\ s # {} /\ Max(s) = k /\ s \ {k} = 1 .. (k - 1)
    BY <2>1, <2>2, <2>3
  <2>6. h[k] = iter[s]
    BY <2>4
  <2> HIDE DEF h, s
  <2>7. QED
    BY <1>2, <2>4, <2>5, <2>6 DEF IsFoldIn
<1>3. \A k \in 0 .. n : h[k] \in T
  <2> DEFINE S == {k \in Nat : k <= n => h[k] \in T}
  <2> HIDE DEF h
  <2>1. 0 \in S
    BY <1>1
  <2>2. ASSUME NEW k \in Nat, k \in S PROVE k + 1 \in S
    <3>1. CASE k + 1 <= n
      <4>1. k + 1 \in 1 .. n /\ (k + 1) - 1 = k
        BY <3>1
      <4>2. h[k] \in T
        BY <2>2, <3>1
      <4>3. h[k + 1] \in T
        BY <4>1, <4>2, <1>2
      <4>4. QED
        BY <4>3
    <3>2. QED
      BY <3>1
  <2>3. \A k \in Nat : k \in S
    <3> HIDE DEF S
    <3>1. QED
      BY <2>1, <2>2, Induction
  <2>4. QED
    BY <2>3
<1>4. h \in [0 .. n -> T] /\ h[n] = iter[1 .. n]
  BY <1>3
<1>5. \A k \in 1 .. n : k - 1 \in 0 .. n
  OBVIOUS
<1> HIDE DEF h
<1>6. \A k \in 1 .. n : h[k] = F[k][h[k - 1]]
  BY <1>2, <1>3, <1>5
<1>7. IsRun(h, n, base, F)
  BY <1>1, <1>6 DEF IsRun
<1>8. QED
  BY <1>4, <1>7 DEF RunsTo

(* The lists on the way from out to what AppendNodes returns.              *)
Adding(h, out, nodes, present) ==
    /\ h \in [0 .. Len(nodes) -> Seq(Nat)]
    /\ h[0] = out
    /\ \A k \in 1 .. Len(nodes) : h[k] = AppendNode(h[k - 1], nodes[k], present)
    /\ AppendNodes(out, nodes, present) = h[Len(nodes)]

(* AppendNodes takes a step of AppendNode for every node.                  *)
LEMMA AppendNodesSteps ==
    ASSUME NEW out \in Seq(Nat), NEW nodes \in Seq(Nat), NEW present
    PROVE  \E h : Adding(h, out, nodes, present)
<1> DEFINE n == Len(nodes)
           T == Seq(Nat)
           F == [k \in 1 .. n |-> [acc \in T |-> AppendNode(acc, nodes[k], present)]]
           Is(f) == f = [s \in SUBSET (1 .. n) |->
                           IF s = {} THEN out
                           ELSE AppendNode(f[s \ {Max(s)}], nodes[Max(s)], present)]
           iter == CHOOSE f : Is(f)
<1>1. n \in Nat /\ DOMAIN nodes = 1 .. n /\ out \in T /\ \A k \in 1 .. n : nodes[k] \in Nat
  OBVIOUS
<1>2. \A acc \in T, node \in Nat : AppendNode(acc, node, present) \in T
  BY DEF AppendNode
<1>3. AppendNodes(out, nodes, present) = iter[1 .. n]
  BY <1>1, Zenon DEF AppendNodes, FoldLeft, MapThenFoldSet
<1> HIDE DEF n, T
<1>4. F \in [1 .. n -> [T -> T]]
  BY <1>1, <1>2
<1>5. \A k \in 1 .. n, x \in T : F[k][x] = AppendNode(x, nodes[k], present)
  OBVIOUS
<1>6. \A s \in SUBSET (1 .. n) : s # {} => Max(s) \in 1 .. n /\ s \ {Max(s)} \in SUBSET (1 .. n)
  BY <1>1, MaxIsAPlace
<1>7. \E f \in [SUBSET (1 .. n) -> T] : IsFold(f, n, out, F)
  <2> HIDE DEF F
  <2>1. QED
    BY <1>1, <1>4, FoldExists
<1>8. PICK f \in [SUBSET (1 .. n) -> T] : IsFold(f, n, out, F)
  BY <1>7
<1> HIDE DEF F
<1>9. Is(f)
  BY <1>5, <1>6, <1>8 DEF IsFold
<1>10. Is(iter)
  <2> HIDE DEF Is
  <2>1. QED
    BY <1>9
<1> HIDE DEF iter
<1>11. IsFoldIn(T, iter, n, out, F)
  BY <1>5, <1>6, <1>10 DEF IsFoldIn
<1>12. PICK h \in [0 .. n -> T] : IsRun(h, n, out, F) /\ h[n] = iter[1 .. n]
  <2>1. RunsTo(T, n, out, F, iter[1 .. n])
    BY <1>1, <1>4, <1>11, FoldSteps
  <2>2. QED
    BY <2>1 DEF RunsTo
<1>13. \A k \in 1 .. n : k - 1 \in 0 .. n
  BY <1>1
<1>14. h[0] = out /\ \A k \in 1 .. n : h[k] = AppendNode(h[k - 1], nodes[k], present)
  BY <1>5, <1>12, <1>13 DEF IsRun
<1>15. QED
  BY <1>3, <1>12, <1>14 DEF n, T, Adding

(* What AppendNodes has made of out after the first k nodes.               *)
Added(r, out, nodes, k, present) ==
    /\ r \in Seq(Url) /\ IsInjective(r)
    /\ Len(out) <= Len(r) /\ \A i \in 1 .. Len(out) : r[i] = out[i]
    /\ \A i \in 1 .. k : nodes[i] # EmptyUrl /\ ~Contains(present, nodes[i]) =>
          \E j \in 1 .. Len(r) : r[j] = nodes[i]
    /\ \A j \in Len(out) + 1 .. Len(r) :
          ~Contains(present, r[j]) /\ \E a \in 1 .. k : nodes[a] = r[j]
    /\ \A i, j \in Len(out) + 1 .. Len(r) :
          i < j => \E a, b \in 1 .. k : a < b /\ nodes[a] = r[i] /\ nodes[b] = r[j]

(* AppendNode goes on with it.                                             *)
LEMMA AppendNodeAdds ==
    ASSUME NEW out \in Seq(Url), NEW nodes \in Seq(Nat), NEW present,
           NEW k \in Nat, k + 1 <= Len(nodes), NEW r, Added(r, out, nodes, k, present)
    PROVE  Added(AppendNode(r, nodes[k + 1], present), out, nodes, k + 1, present)
<1> DEFINE n == nodes[k + 1]
           t == AppendNode(r, n, present)
<1>1. r \in Seq(Url) /\ Len(r) \in Nat /\ Len(out) \in Nat /\ IsInjective(r) /\ n \in Nat
  BY DEF Added
<1>2. CASE n = EmptyUrl \/ Contains(present, n) \/ Contains(r, n)
  <2>1. t = r
    BY <1>2 DEF AppendNode
  <2>2. \A i \in 1 .. k + 1 : nodes[i] # EmptyUrl /\ ~Contains(present, nodes[i]) =>
            \E j \in 1 .. Len(r) : r[j] = nodes[i]
    <3>1. \A i \in 1 .. k + 1 : i \in 1 .. k \/ i = k + 1
      OBVIOUS
    <3>2. QED
      BY <1>2, <3>1 DEF Added, Contains
  <2>3. \A i \in 1 .. k : i \in 1 .. k + 1
    OBVIOUS
  <2>4. \A i, j \in Len(out) + 1 .. Len(r) :
            i < j => \E a, b \in 1 .. k + 1 : a < b /\ nodes[a] = r[i] /\ nodes[b] = r[j]
    <3> SUFFICES ASSUME NEW i \in Len(out) + 1 .. Len(r), NEW j \in Len(out) + 1 .. Len(r), i < j
                 PROVE  \E a, b \in 1 .. k + 1 : a < b /\ nodes[a] = r[i] /\ nodes[b] = r[j]
      OBVIOUS
    <3>1. PICK a, b \in 1 .. k : a < b /\ nodes[a] = r[i] /\ nodes[b] = r[j]
      BY Zenon DEF Added
    <3>2. QED
      BY <2>3, <3>1
  <2>5. \A j \in Len(out) + 1 .. Len(r) :
            ~Contains(present, r[j]) /\ \E a \in 1 .. k + 1 : nodes[a] = r[j]
    <3>1. ASSUME NEW j \in Len(out) + 1 .. Len(r)
          PROVE  ~Contains(present, r[j]) /\ \E a \in 1 .. k : nodes[a] = r[j]
      BY Zenon DEF Added
    <3>2. QED
      BY <2>3, <3>1, Zenon
  <2>6. /\ r \in Seq(Url) /\ IsInjective(r)
        /\ Len(out) <= Len(r) /\ \A i \in 1 .. Len(out) : r[i] = out[i]
    BY Zenon DEF Added
  <2>7. Added(r, out, nodes, k + 1, present)
    BY <2>2, <2>4, <2>5, <2>6, Zenon DEF Added
  <2>8. QED
    BY <2>1, <2>7
<1>3. CASE ~(n = EmptyUrl \/ Contains(present, n) \/ Contains(r, n))
  <2>1. t = Append(r, n) /\ n \in Url
    BY <1>1, <1>3 DEF AppendNode, Url
  <2>2. /\ t \in Seq(Url) /\ Len(t) = Len(r) + 1 /\ t[Len(r) + 1] = n
        /\ \A i \in 1 .. Len(r) : t[i] = r[i]
    BY <1>1, <2>1
  <2> HIDE DEF t
  <2>3. IsInjective(t)
    <3>1. \A i \in 1 .. Len(r) : r[i] # n
      BY <1>3 DEF Contains
    <3>2. \A a, b \in 1 .. Len(r) : r[a] = r[b] => a = b
      BY <1>1 DEF IsInjective
    <3>3. DOMAIN t = 1 .. Len(r) + 1 /\ \A a \in 1 .. Len(r) + 1 : a \in 1 .. Len(r) \/ a = Len(r) + 1
      BY <1>1, <2>2
    <3>4. \A a, b \in 1 .. Len(r) + 1 : t[a] = t[b] => a = b
      BY <2>2, <3>1, <3>2, <3>3
    <3>5. QED
      BY <3>3, <3>4 DEF IsInjective
  <2>4. Len(out) <= Len(t) /\ \A i \in 1 .. Len(out) : t[i] = out[i]
    BY <1>1, <2>2 DEF Added
  <2>5. ASSUME NEW i \in 1 .. k + 1, nodes[i] # EmptyUrl, ~Contains(present, nodes[i])
        PROVE  \E j \in 1 .. Len(t) : t[j] = nodes[i]
    <3>1. CASE i = k + 1
      <4>1. Len(r) + 1 \in 1 .. Len(t)
        BY <1>1, <2>2
      <4>2. QED
        BY <2>2, <3>1, <4>1
    <3>2. CASE i \in 1 .. k
      <4>1. PICK j \in 1 .. Len(r) : r[j] = nodes[i]
        BY <2>5, <3>2 DEF Added
      <4>2. j \in 1 .. Len(t) /\ t[j] = nodes[i]
        BY <1>1, <2>2, <4>1
      <4>3. QED
        BY <4>2
    <3>3. QED
      BY <3>1, <3>2
  <2>6. ASSUME NEW j \in Len(out) + 1 .. Len(t)
        PROVE  ~Contains(present, t[j]) /\ \E a \in 1 .. k + 1 : nodes[a] = t[j]
    <3>1. CASE j = Len(r) + 1
      <4>1. k + 1 \in 1 .. k + 1 /\ nodes[k + 1] = t[j]
        BY <2>2, <3>1
      <4>2. QED
        BY <1>3, <4>1
    <3>2. CASE j \in Len(out) + 1 .. Len(r)
      <4>1. t[j] = r[j]
        BY <1>1, <2>2, <3>2
      <4>2. PICK a \in 1 .. k : nodes[a] = r[j]
        BY <3>2 DEF Added
      <4>3. a \in 1 .. k + 1
        OBVIOUS
      <4>4. QED
        BY <3>2, <4>1, <4>2, <4>3 DEF Added
    <3>3. QED
      BY <1>1, <2>2, <3>1, <3>2
  <2>7. ASSUME NEW i \in Len(out) + 1 .. Len(t), NEW j \in Len(out) + 1 .. Len(t), i < j
        PROVE  \E a, b \in 1 .. k + 1 : a < b /\ nodes[a] = t[i] /\ nodes[b] = t[j]
    <3>1. i \in Len(out) + 1 .. Len(r) /\ t[i] = r[i]
      BY <1>1, <2>2, <2>7
    <3>2. CASE j = Len(r) + 1
      <4>1. PICK a \in 1 .. k : nodes[a] = r[i]
        BY <3>1 DEF Added
      <4>2. a \in 1 .. k + 1 /\ k + 1 \in 1 .. k + 1 /\ a < k + 1
        OBVIOUS
      <4>3. QED
        BY <2>2, <3>1, <3>2, <4>1, <4>2
    <3>3. CASE j \in Len(out) + 1 .. Len(r)
      <4>1. PICK a, b \in 1 .. k : a < b /\ nodes[a] = r[i] /\ nodes[b] = r[j]
        BY <2>7, <3>1, <3>3, Zenon DEF Added
      <4>2. a \in 1 .. k + 1 /\ b \in 1 .. k + 1 /\ t[j] = r[j]
        BY <1>1, <2>2, <3>3
      <4>3. QED
        BY <3>1, <4>1, <4>2
    <3>4. QED
      BY <1>1, <2>2, <3>2, <3>3
  <2>8. Added(t, out, nodes, k + 1, present)
    BY <2>2, <2>3, <2>4, <2>5, <2>6, <2>7 DEF Added
  <2>9. QED
    BY <2>8 DEF t
<1>4. QED
  BY <1>2, <1>3

(* AppendNodes keeps out, adds every other node that is neither empty nor  *)
(* present, once, and keeps the order of the nodes.                        *)
LEMMA AppendNodesAdds ==
    ASSUME NEW out \in Seq(Url), IsInjective(out), NEW nodes \in Seq(Nat), NEW present
    PROVE  Added(AppendNodes(out, nodes, present), out, nodes, Len(nodes), present)
<1>1. out \in Seq(Nat) /\ Len(out) \in Nat /\ Len(nodes) \in Nat
  BY DEF Url
<1>2. PICK h : Adding(h, out, nodes, present)
  BY <1>1, AppendNodesSteps
<1> DEFINE S == {k \in Nat : k <= Len(nodes) => Added(h[k], out, nodes, k, present)}
<1>3. 0 \in S
  <2>1. Added(out, out, nodes, 0, present)
    BY <1>1 DEF Added
  <2>2. QED
    BY <1>2, <2>1 DEF Adding
<1>4. ASSUME NEW k \in Nat, k \in S PROVE k + 1 \in S
  <2>1. CASE k + 1 <= Len(nodes)
    <3>1. k <= Len(nodes) /\ k + 1 \in 1 .. Len(nodes) /\ (k + 1) - 1 = k
      BY <1>1, <2>1
    <3>2. Added(h[k], out, nodes, k, present) /\ h[k + 1] = AppendNode(h[k], nodes[k + 1], present)
      BY <1>2, <1>4, <3>1 DEF Adding
    <3>3. Added(h[k + 1], out, nodes, k + 1, present)
      BY <2>1, <3>2, AppendNodeAdds
    <3>4. QED
      BY <3>3
  <2>2. QED
    BY <2>1
<1>5. Len(nodes) \in S
  <2> HIDE DEF S
  <2>1. QED
    BY <1>1, <1>3, <1>4, Induction
<1>6. QED
  BY <1>1, <1>2, <1>5 DEF Adding

(* Appending nodes that are all new appends the list.                      *)
LEMMA AppendNewNodes ==
    ASSUME NEW out \in Seq(Url), NEW nodes \in Seq(Url), IsInjective(nodes),
           \A i \in 1 .. Len(out), j \in 1 .. Len(nodes) : out[i] # nodes[j]
    PROVE  AppendNodes(out, nodes, <<>>) = out \o nodes
<1>1. /\ out \in Seq(Nat) /\ nodes \in Seq(Nat) /\ Len(out) \in Nat /\ Len(nodes) \in Nat
      /\ \A i \in 1 .. Len(nodes) : nodes[i] \in Nat /\ nodes[i] # EmptyUrl
  BY DEF Url
<1>2. PICK h : Adding(h, out, nodes, <<>>)
  BY <1>1, AppendNodesSteps
<1> DEFINE Q(k) == /\ Len(h[k]) = Len(out) + k
                   /\ \A i \in 1 .. Len(out) : h[k][i] = out[i]
                   /\ \A i \in 1 .. k : h[k][Len(out) + i] = nodes[i]
           S == {k \in Nat : k <= Len(nodes) => Q(k)}
<1>3. 0 \in S
  BY <1>1, <1>2 DEF Adding
<1>4. ASSUME NEW k \in Nat, k \in S PROVE k + 1 \in S
  <2>1. CASE k + 1 <= Len(nodes)
    <3>1. k <= Len(nodes) /\ k + 1 \in 1 .. Len(nodes) /\ (k + 1) - 1 = k /\ k \in 0 .. Len(nodes)
      BY <1>1, <2>1
    <3> DEFINE r == h[k]
               n == nodes[k + 1]
    <3>2. r \in Seq(Nat) /\ h[k + 1] = AppendNode(r, n, <<>>) /\ n # EmptyUrl /\ n \in Nat
      BY <1>1, <1>2, <3>1 DEF Adding
    <3>3. Q(k)
      BY <1>4, <3>1
    <3>4. ~Contains(r, n)
      <4> SUFFICES ASSUME NEW i \in 1 .. Len(r), r[i] = n PROVE FALSE
        BY DEF Contains
      <4>1. CASE i <= Len(out)
        BY <1>1, <3>1, <3>3, <4>1
      <4>2. CASE i > Len(out)
        <5>1. i - Len(out) \in 1 .. k /\ i = Len(out) + (i - Len(out))
          BY <1>1, <3>3, <4>2
        <5>2. r[i] = nodes[i - Len(out)]
          BY <3>3, <5>1
        <5>3. i - Len(out) \in DOMAIN nodes /\ k + 1 \in DOMAIN nodes /\ i - Len(out) # k + 1
          BY <1>1, <3>1, <5>1
        <5>4. QED
          BY <5>2, <5>3 DEF IsInjective
      <4>3. QED
        BY <1>1, <4>1, <4>2
    <3>5. ~Contains(<<>>, n)
      BY DEF Contains
    <3>6. h[k + 1] = Append(r, n)
      BY <3>2, <3>4, <3>5 DEF AppendNode
    <3>7. Q(k + 1)
      <4> DEFINE q == Append(r, n)
      <4>1. /\ Len(q) = Len(r) + 1 /\ q[Len(r) + 1] = n
            /\ \A i \in 1 .. Len(r) : q[i] = r[i]
        <5> HIDE DEF r, n
        <5>1. QED
          BY <3>2
      <4>2. h[k + 1] = q
        BY <3>6
      <4>3. Len(r) = Len(out) + k
        BY <3>3
      <4>4. ASSUME NEW i \in 1 .. k + 1 PROVE q[Len(out) + i] = nodes[i]
        <5>1. CASE i = k + 1
          BY <1>1, <4>1, <4>3, <5>1
        <5>2. CASE i \in 1 .. k
          <6>1. Len(out) + i \in 1 .. Len(r)
            BY <1>1, <4>3, <5>2
          <6>2. r[Len(out) + i] = nodes[i]
            BY <3>3, <5>2
          <6> HIDE DEF q, r
          <6>3. QED
            BY <4>1, <6>1, <6>2
        <5>3. i = k + 1 \/ i \in 1 .. k
          OBVIOUS
        <5>4. QED
          BY <5>1, <5>2, <5>3
      <4>5. \A i \in 1 .. Len(out) : q[i] = out[i]
        <5>1. \A i \in 1 .. Len(out) : i \in 1 .. Len(r) /\ r[i] = out[i]
          BY <1>1, <3>3, <4>3
        <5> HIDE DEF q, r
        <5>2. QED
          BY <4>1, <5>1
      <4>6. Len(q) = Len(out) + (k + 1)
        BY <1>1, <4>1, <4>3
      <4> HIDE DEF q, r, n
      <4>7. QED
        BY <4>2, <4>4, <4>5, <4>6
    <3>8. QED
      BY <3>7
  <2>2. QED
    BY <2>1
<1>5. Len(nodes) \in S
  <2> HIDE DEF S
  <2>1. QED
    BY <1>1, <1>3, <1>4, Induction
<1> DEFINE r == AppendNodes(out, nodes, <<>>)
<1>6. r = h[Len(nodes)] /\ r \in Seq(Nat)
  BY <1>1, <1>2 DEF Adding
<1>7. /\ Len(r) = Len(out) + Len(nodes)
      /\ \A i \in 1 .. Len(out) : r[i] = out[i]
      /\ \A i \in 1 .. Len(nodes) : r[Len(out) + i] = nodes[i]
  BY <1>1, <1>5, <1>6, SMTT(30)
<1> HIDE DEF r, S, Q
<1> DEFINE t == out \o nodes
<1>8. /\ t \in Seq(Nat) /\ Len(t) = Len(out) + Len(nodes)
      /\ \A i \in 1 .. Len(out) : t[i] = out[i]
      /\ \A i \in 1 .. Len(nodes) : t[Len(out) + i] = nodes[i]
  BY <1>1
<1> HIDE DEF t
<1>9. ASSUME NEW i \in 1 .. Len(r) PROVE r[i] = t[i]
  <2>1. CASE i <= Len(out)
    BY <1>1, <1>7, <1>8, <2>1
  <2>2. CASE i > Len(out)
    <3>1. i - Len(out) \in 1 .. Len(nodes) /\ i = Len(out) + (i - Len(out))
      BY <1>1, <1>7, <2>2
    <3>2. QED
      BY <1>7, <1>8, <3>1
  <2>3. QED
    BY <1>1, <2>1, <2>2
<1>10. r = t
  BY <1>6, <1>7, <1>8, <1>9
<1>11. QED
  BY <1>10 DEF r, t

-----------------------------------------------------------------------------
(* Sorting.                                                                *)

(* s lists elements of S one behind the other in the order R.              *)
IsOrdered(s, S, R) ==
    /\ s \in [1 .. Cardinality(S) -> S]
    /\ \A i, j \in 1 .. Cardinality(S) : i < j => <<s[i], s[j]>> \in R

(* R is a strict order of S.                                               *)
Orders(R, S) ==
    /\ \A x \in S : <<x, x>> \notin R
    /\ \A x, y \in S : x # y => <<x, y>> \in R \/ <<y, x>> \in R
    /\ \A x, y, z \in S : <<x, y>> \in R /\ <<y, z>> \in R => <<x, z>> \in R

(* Every finite set can be sorted: one element after the other is inserted *)
(* in front of the first one it is to be before.                           *)
LEMMA CanBeOrdered ==
    ASSUME NEW S, IsFiniteSet(S), NEW R, Orders(R, S)
    PROVE  \E s : IsOrdered(s, S, R)
<1> DEFINE n == Cardinality(S)
<1>1. n \in Nat /\ ExistsBijection(1 .. n, S)
  BY FS_CardinalityType
<1>2. PICK e \in Bijection(1 .. n, S) : TRUE
  BY <1>1 DEF ExistsBijection
<1>3. e \in [1 .. n -> S] /\ \A i, j \in 1 .. n : e[i] = e[j] => i = j
  BY <1>2 DEF Bijection, Injection, IsInjective
<1> HIDE DEF n
<1> DEFINE Part(s, k) == /\ s \in [1 .. k -> S]
                         /\ \A i \in 1 .. k : \E l \in 1 .. k : s[i] = e[l]
                         /\ \A i, j \in 1 .. k : i < j => <<s[i], s[j]>> \in R
           Ex(k) == \E s : Part(s, k)
           Ks == {k \in Nat : k <= n => Ex(k)}
<1>4. 0 \in Ks
  <2>1. Part([i \in 1 .. 0 |-> e[i]], 0)
    OBVIOUS
  <2> HIDE DEF Part
  <2>2. QED
    BY <2>1
<1>5. ASSUME NEW k \in Nat, k \in Ks PROVE k + 1 \in Ks
  <2> SUFFICES ASSUME k + 1 <= n PROVE Ex(k + 1)
    <3> HIDE DEF Ex
    <3>1. QED
      OBVIOUS
  <2>1. Ex(k)
    <3> HIDE DEF Ex
    <3>1. QED
      BY <1>1, <1>5
  <2>2. PICK s : Part(s, k)
    BY <2>1, Zenon
  <2> DEFINE x == e[k + 1]
             T == {m \in 1 .. k + 1 : m = k + 1 \/ <<x, s[m]>> \in R}
  <2>3. x \in S /\ \A i \in 1 .. k : s[i] # x /\ s[i] \in S
    <3>1. k + 1 \in 1 .. n /\ \A l \in 1 .. k : l \in 1 .. n /\ l # k + 1
      BY <1>1
    <3>2. \A l \in 1 .. k : e[l] # x
      BY <1>3, <3>1
    <3>3. QED
      BY <1>3, <2>2, <3>1, <3>2
  <2>4. PICK m \in T : \A y \in T : m <= y
    <3>1. k + 1 \in T /\ T \in SUBSET Nat
      OBVIOUS
    <3> HIDE DEF T
    <3>2. QED
      BY <3>1, HasLeast
  <2>5. /\ m \in 1 .. k + 1
        /\ \A i \in 1 .. m - 1 : <<s[i], x>> \in R
    <3>1. m \in 1 .. k + 1
      BY <2>4
    <3>2. ASSUME NEW i \in 1 .. m - 1 PROVE <<s[i], x>> \in R
      <4>1. i \in 1 .. k /\ i < m /\ i \in 1 .. k + 1
        BY <3>1
      <4>2. i \notin T
        BY <2>4, <3>1, <4>1
      <4>3. ~(<<x, s[i]>> \in R)
        BY <4>1, <4>2
      <4>4. QED
        BY <2>3, <4>1, <4>3 DEF Orders
    <3>3. QED
      BY <3>1, <3>2
  <2>6. ASSUME NEW i \in m .. k PROVE <<x, s[i]>> \in R
    <3>1. i \in 1 .. k /\ m \in 1 .. k /\ m # k + 1
      BY <2>5
    <3>2. <<x, s[m]>> \in R
      BY <2>4, <3>1
    <3>3. i = m \/ <<s[m], s[i]>> \in R
      BY <2>2, <2>5, <3>1
    <3>4. QED
      BY <2>3, <3>1, <3>2, <3>3 DEF Orders
  <2> HIDE DEF T, x
  <2> DEFINE t == [i \in 1 .. k + 1 |-> IF i < m THEN s[i] ELSE IF i = m THEN x ELSE s[i - 1]]
  <2>7. \A i \in 1 .. k + 1 : \/ i < m /\ i \in 1 .. m - 1 /\ i \in 1 .. k /\ t[i] = s[i]
                              \/ i = m /\ t[i] = x
                              \/ i > m /\ i - 1 \in m .. k /\ i - 1 \in 1 .. k /\ t[i] = s[i - 1]
    BY <2>5
  <2>8. t \in [1 .. k + 1 -> S]
    <3>1. \A i \in 1 .. k + 1 : t[i] \in S
      <4> HIDE DEF t
      <4>1. QED
        BY <2>3, <2>7
    <3>2. QED
      BY <3>1
  <2> HIDE DEF t
  <2>9. ASSUME NEW i \in 1 .. k + 1 PROVE \E l \in 1 .. k + 1 : t[i] = e[l]
    <3>1. CASE t[i] = x
      <4>1. k + 1 \in 1 .. k + 1 /\ t[i] = e[k + 1]
        BY <3>1 DEF x
      <4>2. QED
        BY <4>1
    <3>2. CASE \E a \in 1 .. k : t[i] = s[a]
      <4>1. PICK a \in 1 .. k : t[i] = s[a]
        BY <3>2
      <4>2. PICK l \in 1 .. k : s[a] = e[l]
        BY <2>2, <4>1
      <4>3. l \in 1 .. k + 1
        OBVIOUS
      <4>4. QED
        BY <4>1, <4>2, <4>3
    <3>3. QED
      BY <2>7, <3>1, <3>2
  <2>10. ASSUME NEW i \in 1 .. k + 1, NEW j \in 1 .. k + 1, i < j PROVE <<t[i], t[j]>> \in R
    <3>1. \A a, b \in 1 .. k : a < b => <<s[a], s[b]>> \in R
      BY <2>2
    <3>2. CASE i < m /\ j < m
      <4>1. i \in 1 .. k /\ j \in 1 .. k /\ t[i] = s[i] /\ t[j] = s[j]
        BY <2>5, <2>7, <3>2
      <4>2. QED
        BY <2>10, <3>1, <4>1
    <3>3. CASE i < m /\ j = m
      BY <2>5, <2>7, <3>3
    <3>4. CASE i < m /\ j > m
      <4>1. i \in 1 .. k /\ j - 1 \in 1 .. k /\ i < j - 1
        BY <2>5, <2>7, <3>4
      <4>2. t[i] = s[i] /\ t[j] = s[j - 1]
        BY <2>5, <2>7, <3>4
      <4>3. QED
        BY <3>1, <4>1, <4>2
    <3>5. CASE i = m /\ j > m
      <4>1. j - 1 \in m .. k /\ t[j] = s[j - 1] /\ t[i] = x
        BY <2>5, <2>7, <3>5
      <4>2. QED
        BY <2>6, <4>1
    <3>6. CASE i > m /\ j > m
      <4>1. i - 1 \in 1 .. k /\ j - 1 \in 1 .. k /\ i - 1 < j - 1
        BY <2>5, <2>7, <2>10, <3>6
      <4>2. t[i] = s[i - 1] /\ t[j] = s[j - 1]
        BY <2>5, <2>7, <3>6
      <4>3. QED
        BY <3>1, <4>1, <4>2
    <3>7. QED
      BY <2>5, <2>10, <3>2, <3>3, <3>4, <3>5, <3>6
  <2>11. Part(t, k + 1)
    BY <2>8, <2>9, <2>10
  <2> HIDE DEF Part
  <2>12. QED
    BY <2>11
<1>6. Ex(n)
  <2>1. n \in Ks
    <3> HIDE DEF Ks
    <3>1. QED
      BY <1>1, <1>4, <1>5, Induction
  <2> HIDE DEF Ex
  <2>2. QED
    BY <1>1, <2>1
<1>7. PICK s : Part(s, n)
  BY <1>6, Zenon
<1>8. IsOrdered(s, S, R)
  BY <1>7 DEF IsOrdered, n
<1>9. QED
  BY <1>8

(* s has every element of S, once.                                         *)
Enumerates(s, S) ==
    /\ \A i, j \in 1 .. Cardinality(S) : s[i] = s[j] => i = j
    /\ \A x \in S : \E i \in 1 .. Cardinality(S) : s[i] = x

(* So it is with an ordered list.                                          *)
LEMMA OrderedHasAll ==
    ASSUME NEW S, IsFiniteSet(S), NEW R, Orders(R, S), NEW s, IsOrdered(s, S, R)
    PROVE  Enumerates(s, S)
<1> DEFINE n == Cardinality(S)
<1>1. n \in Nat
  BY FS_CardinalityType
<1>2. s \in [1 .. n -> S]
  BY DEF IsOrdered
<1>3. ASSUME NEW i \in 1 .. n, NEW j \in 1 .. n, s[i] = s[j] PROVE i = j
  <2>1. ~(i < j) /\ ~(j < i)
    BY <1>2, <1>3 DEF IsOrdered, Orders
  <2>2. QED
    BY <1>1, <2>1
<1>4. s \in Injection(1 .. n, S)
  BY <1>2, <1>3 DEF Injection, IsInjective
<1>5. Cardinality(1 .. n) = n
  BY <1>1, FS_Interval
<1>6. s \in Surjection(1 .. n, S)
  <2> HIDE DEF n
  <2>1. Cardinality(1 .. n) = Cardinality(S)
    BY <1>5 DEF n
  <2>2. QED
    BY <1>4, <2>1, FS_Injection
<1>7. \A x \in S : \E i \in 1 .. n : s[i] = x
  BY <1>6 DEF Surjection
<1>8. QED
  BY <1>3, <1>7 DEF Enumerates

(* The entries of a sequence are finitely many.                            *)
LEMMA EntriesAreFinite ==
    ASSUME NEW X, NEW s \in Seq(X)
    PROVE  IsFiniteSet(ToSet(s)) /\ ToSet(s) \subseteq X /\ ToSet(s) = {s[i] : i \in 1 .. Len(s)}
<1>1. Len(s) \in Nat /\ DOMAIN s = 1 .. Len(s) /\ s \in [1 .. Len(s) -> X]
  OBVIOUS
<1>2. ToSet(s) = {s[i] : i \in 1 .. Len(s)}
  BY <1>1 DEF ToSet
<1>3. s \in Surjection(1 .. Len(s), ToSet(s))
  BY <1>1, <1>2 DEF Surjection
<1>4. IsFiniteSet(1 .. Len(s))
  BY <1>1, FS_Interval
<1>5. IsFiniteSet(ToSet(s))
  BY <1>3, <1>4, FS_Surjection
<1>6. QED
  BY <1>1, <1>2, <1>5

Increasing(s) == \A i, j \in 1 .. Len(s) : i < j => s[i] < s[j]

(* SortAndDedupeNodes lists the same nodes in increasing order.            *)
LEMMA SortAndDedupeSorts ==
    ASSUME NEW X \in SUBSET Nat, NEW nodes \in Seq(X)
    PROVE  /\ SortAndDedupeNodes(nodes) \in Seq(X)
           /\ ToSet(SortAndDedupeNodes(nodes)) = ToSet(nodes)
           /\ Increasing(SortAndDedupeNodes(nodes))
           /\ Len(SortAndDedupeNodes(nodes)) <= Len(nodes)
<1> DEFINE S == ToSet(nodes)
           R == {p \in S \X S : p[1] < p[2]}
           Good(s) == \A i, j \in 1 .. Cardinality(S) : i < j => s[i] < s[j]
           t == SortAndDedupeNodes(nodes)
<1>1. IsFiniteSet(S) /\ S \subseteq X /\ S \subseteq Nat
  BY EntriesAreFinite
<1>2. t = CHOOSE s \in [1 .. Cardinality(S) -> S] : Good(s)
  BY DEF SortAndDedupeNodes, InOrder
<1>3. \A x, y \in S : <<x, y>> \in R <=> x < y
  OBVIOUS
<1>4. Orders(R, S)
  <2> HIDE DEF R, S
  <2>1. \A x, y \in S : x # y => x < y \/ y < x
    BY <1>1
  <2>2. \A x, y, z \in S : x < y /\ y < z => x < z
    BY <1>1
  <2>3. \A x \in S : ~(x < x)
    BY <1>1
  <2>4. QED
    BY <1>3, <2>1, <2>2, <2>3 DEF Orders
<1> HIDE DEF R, S, t
<1>5. PICK s : IsOrdered(s, S, R)
  BY <1>1, <1>4, CanBeOrdered
<1>6. s \in [1 .. Cardinality(S) -> S] /\ Good(s)
  BY <1>3, <1>5 DEF IsOrdered
<1>7. t \in [1 .. Cardinality(S) -> S] /\ Good(t)
  <2> HIDE DEF Good
  <2>1. QED
    BY <1>2, <1>6
<1>8. IsOrdered(t, S, R)
  BY <1>3, <1>7 DEF IsOrdered
<1>9. Enumerates(t, S)
  BY <1>1, <1>4, <1>8, OrderedHasAll
<1> DEFINE c == Cardinality(S)
<1>10. c \in Nat /\ t \in [1 .. c -> X]
  BY <1>1, <1>7, FS_CardinalityType
<1> HIDE DEF c
<1>11. t \in Seq(X) /\ Len(t) = c /\ DOMAIN t = 1 .. c
  BY <1>10
<1>12. ToSet(t) = S
  BY <1>7, <1>9, <1>11 DEF ToSet, Enumerates, c
<1>13. Increasing(t)
  BY <1>7, <1>11 DEF Increasing, c
<1>14. Cardinality(S) <= Len(nodes)
  <2>1. Len(nodes) \in Nat /\ nodes \in Surjection(1 .. Len(nodes), S)
    BY EntriesAreFinite DEF S, Surjection
  <2>2. QED
    BY <2>1, FS_SurjCardinalityBound DEF ExistsSurjection
<1>15. QED
  BY <1>11, <1>12, <1>13, <1>14 DEF t, S, c

(* There is one increasing list of the same nodes.                         *)
LEMMA IncreasingIsUnique ==
    ASSUME NEW s \in Seq(Nat), NEW t \in Seq(Nat), Len(s) = Len(t),
           Increasing(s), Increasing(t), ToSet(s) = ToSet(t)
    PROVE  s = t
<1>1. /\ Len(s) \in Nat
      /\ \A i \in 1 .. Len(s) : s[i] \in Nat /\ t[i] \in Nat
      /\ \A i \in 1 .. Len(s) : \E k \in 1 .. Len(s) : s[i] = t[k]
      /\ \A i \in 1 .. Len(s) : \E k \in 1 .. Len(s) : t[i] = s[k]
  <2>1. /\ Len(s) \in Nat /\ DOMAIN s = 1 .. Len(s) /\ DOMAIN t = 1 .. Len(s)
        /\ \A i \in 1 .. Len(s) : s[i] \in Nat /\ t[i] \in Nat
    OBVIOUS
  <2>2. QED
    BY <2>1, Zenon DEF ToSet
<1> DEFINE T == {i \in 1 .. Len(s) : s[i] # t[i]}
<1>2. SUFFICES ASSUME T # {} PROVE FALSE
  <2>1. (\A i \in 1 .. Len(s) : s[i] = t[i]) => s = t
    OBVIOUS
  <2>2. QED
    BY <2>1
<1>3. PICK i \in T : \A k \in T : i <= k
  <2>1. T \in SUBSET Nat
    OBVIOUS
  <2> HIDE DEF T
  <2>2. QED
    BY <1>2, <2>1, HasLeast
<1>4. i \in 1 .. Len(s) /\ s[i] # t[i] /\ \A k \in 1 .. Len(s) : k < i => s[k] = t[k]
  BY <1>1, <1>3
<1>5. \A k \in 1 .. Len(s) : s[k] \in Nat /\ t[k] \in Nat /\ k \in Nat
  BY <1>1
<1>6. \A k, l \in 1 .. Len(s) : k < l => s[k] < s[l] /\ t[k] < t[l]
  BY DEF Increasing
<1> HIDE DEF T
<1>7. CASE s[i] < t[i]
  <2>1. PICK k \in 1 .. Len(s) : s[i] = t[k]
    BY <1>1, <1>4
  <2>2. k < i \/ k = i \/ i < k
    BY <1>4, <1>5
  <2>3. QED
    BY <1>4, <1>5, <1>6, <1>7, <2>1, <2>2
<1>8. CASE t[i] < s[i]
  <2>1. PICK k \in 1 .. Len(s) : t[i] = s[k]
    BY <1>1, <1>4
  <2>2. k < i \/ k = i \/ i < k
    BY <1>4, <1>5
  <2>3. QED
    BY <1>4, <1>5, <1>6, <1>8, <2>1, <2>2
<1>9. QED
  BY <1>4, <1>5, <1>7, <1>8

(* s has the entries of t, in some order.                                  *)
IsPermutation(p, n) ==
    /\ p \in [1 .. n -> 1 .. n]
    /\ \A i, j \in 1 .. n : p[i] = p[j] => i = j
    /\ \A j \in 1 .. n : \E i \in 1 .. n : p[i] = j

Permuted(s, t) ==
    /\ Len(s) = Len(t)
    /\ \E p : IsPermutation(p, Len(t)) /\ \A i \in 1 .. Len(t) : s[i] = t[p[i]]

(* Sorting a list permutes it, and leaves no node before a lesser one.     *)
LEMMA SortNodesPermutes ==
    ASSUME NEW X \in SUBSET Nat, NEW nodes \in Seq(X)
    PROVE  /\ SortNodes(nodes) \in Seq(X) /\ Permuted(SortNodes(nodes), nodes)
           /\ \A i, j \in 1 .. Len(nodes) : i < j => SortNodes(nodes)[i] <= SortNodes(nodes)[j]
<1> DEFINE S == DOMAIN nodes
           Before(a, b) == nodes[a] < nodes[b] \/ (nodes[a] = nodes[b] /\ a < b)
           R == {p \in S \X S : Before(p[1], p[2])}
           Good(s) == \A i, j \in 1 .. Cardinality(S) : i < j => Before(s[i], s[j])
           order == CHOOSE s \in [1 .. Cardinality(S) -> S] : Good(s)
           t == SortNodes(nodes)
           n == Len(nodes)
<1>1. /\ n \in Nat /\ S = 1 .. n /\ IsFiniteSet(S) /\ Cardinality(S) = n
      /\ \A i \in S : nodes[i] \in Nat /\ nodes[i] \in X /\ i \in Nat
  <2>1. n \in Nat /\ S = 1 .. n
    OBVIOUS
  <2>2. \A i \in S : nodes[i] \in Nat /\ nodes[i] \in X /\ i \in Nat
    <3>1. \A i \in 1 .. n : nodes[i] \in X /\ i \in Nat
      BY <2>1
    <3>2. \A x \in X : x \in Nat
      OBVIOUS
    <3> HIDE DEF n, S
    <3>3. QED
      BY <2>1, <3>1, <3>2
  <2> HIDE DEF n, S
  <2>3. IsFiniteSet(1 .. n) /\ Cardinality(1 .. n) = n
    BY <2>1, FS_Interval
  <2>4. QED
    BY <2>1, <2>2, <2>3
<1>2. t = [i \in S |-> nodes[order[i]]]
  BY DEF SortNodes, InOrder
<1>3. \A x, y \in S : <<x, y>> \in R <=> Before(x, y)
  OBVIOUS
<1>4. Orders(R, S)
  <2> HIDE DEF R, S
  <2>1. \A x, y \in S : x # y => Before(x, y) \/ Before(y, x)
    BY <1>1
  <2>2. \A x, y, z \in S : Before(x, y) /\ Before(y, z) => Before(x, z)
    BY <1>1
  <2>3. \A x \in S : ~Before(x, x)
    BY <1>1
  <2> HIDE DEF Before
  <2>4. QED
    BY <1>3, <2>1, <2>2, <2>3 DEF Orders
<1> HIDE DEF R, S, t, n, Before
<1>5. PICK s : IsOrdered(s, S, R)
  BY <1>1, <1>4, CanBeOrdered
<1>6. s \in [1 .. Cardinality(S) -> S] /\ Good(s)
  BY <1>3, <1>5 DEF IsOrdered
<1>7. order \in [1 .. Cardinality(S) -> S] /\ Good(order)
  <2> HIDE DEF Good
  <2>1. QED
    BY <1>6
<1> HIDE DEF order
<1>8. IsOrdered(order, S, R)
  BY <1>3, <1>7 DEF IsOrdered
<1>9. Enumerates(order, S)
  BY <1>1, <1>4, <1>8, OrderedHasAll
<1>10. IsPermutation(order, n)
  BY <1>1, <1>7, <1>9 DEF IsPermutation, Enumerates
<1>11. t \in Seq(X) /\ Len(t) = n /\ \A i \in 1 .. n : t[i] = nodes[order[i]]
  BY <1>1, <1>2, <1>7, SMTT(30)
<1>12. Permuted(t, nodes)
  BY <1>10, <1>11 DEF Permuted, n
<1>13. ASSUME NEW i \in 1 .. n, NEW j \in 1 .. n, i < j PROVE t[i] <= t[j]
  <2>1. order[i] \in S /\ order[j] \in S /\ Before(order[i], order[j])
    BY <1>1, <1>7, <1>13
  <2>2. nodes[order[i]] \in Nat /\ nodes[order[j]] \in Nat
    BY <1>1, <2>1
  <2>3. QED
    BY <1>11, <2>1, <2>2 DEF Before
<1>14. QED
  BY <1>11, <1>12, <1>13 DEF t, n

(* Permuting twice is permuting.                                           *)
LEMMA PermutedTwice ==
    ASSUME NEW s, NEW t, NEW u, Permuted(s, t), Permuted(t, u)
    PROVE  Permuted(s, u)
<1> DEFINE n == Len(u)
<1>1. Len(s) = n /\ Len(t) = n
  BY DEF Permuted
<1>2. PICK p : IsPermutation(p, n) /\ \A i \in 1 .. n : s[i] = t[p[i]]
  BY <1>1 DEF Permuted
<1>3. PICK q : IsPermutation(q, n) /\ \A i \in 1 .. n : t[i] = u[q[i]]
  BY <1>1 DEF Permuted
<1> HIDE DEF n
<1> DEFINE r == [i \in 1 .. n |-> q[p[i]]]
<1>4. \A i \in 1 .. n : p[i] \in 1 .. n /\ q[i] \in 1 .. n
  BY <1>2, <1>3 DEF IsPermutation
<1>5. r \in [1 .. n -> 1 .. n] /\ \A i \in 1 .. n : r[i] = q[p[i]]
  BY <1>4
<1> HIDE DEF r
<1>6. IsPermutation(r, n)
  <2>1. ASSUME NEW i \in 1 .. n, NEW j \in 1 .. n, r[i] = r[j] PROVE i = j
    <3>1. q[p[i]] = q[p[j]] /\ p[i] \in 1 .. n /\ p[j] \in 1 .. n
      BY <1>4, <1>5, <2>1
    <3>2. p[i] = p[j]
      BY <1>3, <3>1 DEF IsPermutation
    <3>3. QED
      BY <1>2, <3>2 DEF IsPermutation
  <2>2. ASSUME NEW j \in 1 .. n PROVE \E i \in 1 .. n : r[i] = j
    <3>1. PICK k \in 1 .. n : q[k] = j
      BY <1>3 DEF IsPermutation
    <3>2. PICK i \in 1 .. n : p[i] = k
      BY <1>2 DEF IsPermutation
    <3>3. QED
      BY <1>5, <3>1, <3>2
  <2>3. QED
    BY <1>5, <2>1, <2>2 DEF IsPermutation
<1>7. \A i \in 1 .. n : s[i] = u[r[i]]
  BY <1>2, <1>3, <1>4, <1>5
<1>8. QED
  BY <1>1, <1>6, <1>7 DEF Permuted, n

(* A list is a permutation of itself.                                      *)
LEMMA PermutedSame ==
    ASSUME NEW s, Len(s) \in Nat
    PROVE  Permuted(s, s)
<1> DEFINE p == [i \in 1 .. Len(s) |-> i]
<1>1. IsPermutation(p, Len(s)) /\ \A i \in 1 .. Len(s) : s[i] = s[p[i]]
  BY DEF IsPermutation
<1> HIDE DEF p
<1>2. QED
  BY <1>1 DEF Permuted

(* A permutation has the same entries as often.                            *)
LEMMA PermutedBags ==
    ASSUME NEW X, NEW s \in Seq(X), NEW t \in Seq(X), Permuted(s, t)
    PROVE  /\ ToBag(s) = ToBag(t)
           /\ ToSet(s) = ToSet(t)
           /\ IsInjective(t) => IsInjective(s)
<1> DEFINE n == Len(t)
<1>1. n \in Nat /\ Len(s) = n /\ DOMAIN s = 1 .. n /\ DOMAIN t = 1 .. n
  BY DEF Permuted
<1>2. PICK p : IsPermutation(p, n) /\ \A i \in 1 .. n : s[i] = t[p[i]]
  BY DEF Permuted
<1> HIDE DEF n
<1>3. /\ p \in [1 .. n -> 1 .. n]
      /\ \A i, j \in 1 .. n : p[i] = p[j] => i = j
      /\ \A j \in 1 .. n : \E i \in 1 .. n : p[i] = j
  BY <1>2 DEF IsPermutation
<1>4. ToSet(s) = ToSet(t) /\ Range(s) = Range(t)
  <2>1. ASSUME NEW i \in 1 .. n PROVE \E j \in 1 .. n : s[i] = t[j]
    BY <1>2, <1>3
  <2>2. ASSUME NEW j \in 1 .. n PROVE \E i \in 1 .. n : t[j] = s[i]
    <3>1. PICK i \in 1 .. n : p[i] = j
      BY <1>3
    <3>2. QED
      BY <1>2, <3>1
  <2>3. {s[i] : i \in 1 .. n} = {t[i] : i \in 1 .. n}
    <3> DEFINE A == {s[i] : i \in 1 .. n}
               B == {t[i] : i \in 1 .. n}
    <3>1. ASSUME NEW x \in A PROVE x \in B
      BY <2>1
    <3>2. ASSUME NEW x \in B PROVE x \in A
      BY <2>2
    <3> HIDE DEF A, B
    <3>3. A = B
      BY <3>1, <3>2
    <3>4. QED
      BY <3>3 DEF A, B
  <2>4. QED
    BY <1>1, <2>3, Zenon DEF ToSet, Range
<1>5. ASSUME NEW x
      PROVE  Cardinality({i \in DOMAIN s : s[i] = x}) = Cardinality({i \in DOMAIN t : t[i] = x})
  <2> DEFINE A == {i \in 1 .. n : s[i] = x}
             B == {i \in 1 .. n : t[i] = x}
             f == [i \in A |-> p[i]]
  <2>1. f \in [A -> B] /\ \A i \in A : f[i] = p[i]
    BY <1>2, <1>3
  <2>2. \A i, j \in A : f[i] = f[j] => i = j
    BY <1>3, <2>1
  <2>3. ASSUME NEW j \in B PROVE \E i \in A : f[i] = j
    <3>1. PICK i \in 1 .. n : p[i] = j
      BY <1>3
    <3>2. i \in A
      BY <1>2, <3>1
    <3>3. QED
      BY <2>1, <3>1, <3>2
  <2>4. f \in Bijection(A, B)
    <3> HIDE DEF f, A, B
    <3>1. f \in Injection(A, B)
      BY <2>1, <2>2 DEF Injection, IsInjective
    <3>2. f \in Surjection(A, B)
      BY <2>1, <2>3 DEF Surjection
    <3>3. QED
      BY <3>1, <3>2 DEF Bijection
  <2>5. IsFiniteSet(A)
    <3>1. IsFiniteSet(1 .. n) /\ A \in SUBSET (1 .. n)
      BY <1>1, FS_Interval
    <3> HIDE DEF A
    <3>2. QED
      BY <3>1, FS_Subset
  <2>6. Cardinality(A) = Cardinality(B)
    <3> HIDE DEF f, A, B
    <3>1. ExistsBijection(A, B)
      BY <2>4 DEF ExistsBijection
    <3>2. QED
      BY <2>5, <3>1, FS_Bijection
  <2>7. QED
    BY <1>1, <2>6
<1>6. ToBag(s) = ToBag(t)
  BY <1>4, <1>5, Zenon DEF ToBag
<1>7. ASSUME IsInjective(t) PROVE IsInjective(s)
  BY <1>1, <1>2, <1>3, <1>7, SMTT(30) DEF IsInjective
<1>8. QED
  BY <1>4, <1>6, <1>7

(* rest is left without one occurrence of node, in any order.              *)
TakesOne(node, left, rest) ==
    /\ Len(left) = Len(rest) + 1
    /\ \E p : /\ IsPermutation(p, Len(left))
              /\ left[p[1]] = node
              /\ \A i \in 1 .. Len(rest) : rest[i] = left[p[i + 1]]

(* The entries of a list with one more.                                    *)
LEMMA Appended ==
    ASSUME NEW X, NEW s \in Seq(X), NEW x \in X
    PROVE  /\ Append(s, x) \in Seq(X) /\ Len(Append(s, x)) = Len(s) + 1
           /\ Append(s, x)[Len(s) + 1] = x
           /\ \A i \in 1 .. Len(s) : Append(s, x)[i] = s[i]
  OBVIOUS

(* The entries of two lists, one behind the other.                         *)
LEMMA Joined ==
    ASSUME NEW X, NEW s \in Seq(X), NEW t \in Seq(X)
    PROVE  /\ s \o t \in Seq(X) /\ Len(s \o t) = Len(s) + Len(t)
           /\ \A i \in 1 .. Len(s) : (s \o t)[i] = s[i]
           /\ \A i \in 1 .. Len(t) : (s \o t)[Len(s) + i] = t[i]
  OBVIOUS

(* Giving out a node permutes what is given out and what is left.          *)
LEMMA GivingPermutes ==
    ASSUME NEW X, NEW out \in Seq(X), NEW left \in Seq(X), NEW rest \in Seq(X), NEW node \in X,
           TakesOne(node, left, rest)
    PROVE  Permuted(Append(out, node) \o rest, out \o left)
<1> DEFINE m == Len(out)
           l == Len(left)
           s == Append(out, node) \o rest
           t == out \o left
<1>1. m \in Nat /\ l \in Nat /\ Len(rest) \in Nat /\ l = Len(rest) + 1
  BY DEF TakesOne
<1>2. PICK p : /\ IsPermutation(p, l)
               /\ left[p[1]] = node
               /\ \A i \in 1 .. Len(rest) : rest[i] = left[p[i + 1]]
  BY DEF TakesOne
<1>3. /\ p \in [1 .. l -> 1 .. l]
      /\ \A i, j \in 1 .. l : p[i] = p[j] => i = j
      /\ \A j \in 1 .. l : \E i \in 1 .. l : p[i] = j
  BY <1>2 DEF IsPermutation
<1>4. /\ Len(t) = m + l
      /\ \A i \in 1 .. m : t[i] = out[i]
      /\ \A i \in 1 .. l : t[m + i] = left[i]
  BY Joined
<1>5. /\ Append(out, node) \in Seq(X) /\ Len(Append(out, node)) = m + 1
      /\ Append(out, node)[m + 1] = node /\ \A i \in 1 .. m : Append(out, node)[i] = out[i]
  BY Appended
<1>6. /\ Len(s) = (m + 1) + Len(rest)
      /\ \A i \in 1 .. m + 1 : s[i] = Append(out, node)[i]
      /\ \A i \in 1 .. Len(rest) : s[(m + 1) + i] = rest[i]
  BY <1>5, Joined
<1> HIDE DEF m, l, s, t
<1>7. Len(s) = m + l /\ \A i \in 1 .. m : s[i] = out[i]
  BY <1>1, <1>5, <1>6
<1>8. ASSUME NEW i \in 1 .. l PROVE s[m + i] = left[p[i]]
  <2>1. CASE i = 1
    BY <1>1, <1>2, <1>5, <1>6, <2>1
  <2>2. CASE i > 1
    <3>1. i - 1 \in 1 .. Len(rest) /\ (m + 1) + (i - 1) = m + i /\ (i - 1) + 1 = i
      BY <1>1, <2>2
    <3>2. QED
      BY <1>2, <1>6, <3>1
  <2>3. QED
    BY <1>1, <2>1, <2>2
<1> DEFINE q == [i \in 1 .. m + l |-> IF i <= m THEN i ELSE m + p[i - m]]
<1>9. \A i \in 1 .. m + l : /\ i <= m => q[i] = i
                            /\ i > m => i - m \in 1 .. l /\ p[i - m] \in 1 .. l /\ q[i] = m + p[i - m]
  <2>1. \A i \in 1 .. m + l : i > m => i - m \in 1 .. l
    BY <1>1
  <2>2. ASSUME NEW i \in 1 .. m + l, i <= m PROVE q[i] = i
    BY <2>2
  <2>3. ASSUME NEW i \in 1 .. m + l, i > m PROVE p[i - m] \in 1 .. l /\ q[i] = m + p[i - m]
    <3>1. i - m \in 1 .. l /\ ~(i <= m)
      BY <1>1, <2>1, <2>3
    <3>2. p[i - m] \in 1 .. l
      BY <1>3, <3>1
    <3>3. QED
      BY <3>1, <3>2
  <2> HIDE DEF q
  <2>4. QED
    BY <2>1, <2>2, <2>3
<1>10. q \in [1 .. m + l -> 1 .. m + l]
  <2>1. \A i \in 1 .. m + l : q[i] \in 1 .. m + l
    <3> HIDE DEF q
    <3>1. QED
      BY <1>1, <1>9
  <2>2. QED
    BY <2>1
<1> HIDE DEF q
<1>11. ASSUME NEW i \in 1 .. m + l, NEW j \in 1 .. m + l, q[i] = q[j] PROVE i = j
  <2>1. CASE i <= m /\ j <= m
    BY <1>9, <1>11, <2>1
  <2>2. CASE i > m /\ j > m
    <3>1. p[i - m] = p[j - m] /\ i - m \in 1 .. l /\ j - m \in 1 .. l
      BY <1>1, <1>9, <1>11, <2>2, SMTT(30)
    <3>2. i - m = j - m
      BY <1>3, <3>1
    <3>3. QED
      BY <1>1, <3>2
  <2>3. CASE (i <= m /\ j > m) \/ (i > m /\ j <= m)
    BY <1>1, <1>9, <1>11, <2>3, SMTT(30)
  <2>4. QED
    BY <1>1, <2>1, <2>2, <2>3
<1>12. ASSUME NEW j \in 1 .. m + l PROVE \E i \in 1 .. m + l : q[i] = j
  <2>1. CASE j <= m
    BY <1>9, <2>1
  <2>2. CASE j > m
    <3>1. j - m \in 1 .. l
      BY <1>1, <2>2
    <3>2. PICK i \in 1 .. l : p[i] = j - m
      BY <1>3, <3>1
    <3>3. m + i \in 1 .. m + l /\ m + i > m /\ (m + i) - m = i /\ m + (j - m) = j
      BY <1>1
    <3>4. q[m + i] = j
      BY <1>9, <3>2, <3>3
    <3>5. QED
      BY <3>3, <3>4
  <2>3. QED
    BY <1>1, <2>1, <2>2
<1>13. ASSUME NEW i \in 1 .. m + l PROVE s[i] = t[q[i]]
  <2>1. CASE i <= m
    <3>1. i \in 1 .. m /\ q[i] = i
      BY <1>1, <1>9, <2>1
    <3>2. QED
      BY <1>4, <1>7, <3>1
  <2>2. CASE i > m
    <3>1. i - m \in 1 .. l /\ p[i - m] \in 1 .. l /\ q[i] = m + p[i - m] /\ m + (i - m) = i
      BY <1>1, <1>9, <2>2
    <3>2. s[i] = left[p[i - m]] /\ t[q[i]] = left[p[i - m]]
      BY <1>4, <1>8, <3>1
    <3>3. QED
      BY <3>2
  <2>3. QED
    BY <1>1, <2>1, <2>2
<1>14. IsPermutation(q, m + l)
  BY <1>10, <1>11, <1>12 DEF IsPermutation
<1>15. Permuted(s, t)
  BY <1>4, <1>7, <1>13, <1>14 DEF Permuted
<1>16. QED
  BY <1>15 DEF s, t

-----------------------------------------------------------------------------
(* Part 4.  One call of Next.                                              *)

(* Min of a nonempty set of numbers.                                       *)
LEMMA MinIsLeast ==
    ASSUME NEW I \in SUBSET Nat, I # {}
    PROVE  Min(I) \in I /\ \A y \in I : Min(I) <= y
<1>1. \E x \in I : \A y \in I : x <= y
  BY HasLeast
<1>2. QED
  BY <1>1, Zenon DEF Min

(* Closing the gap behind a removed entry takes that entry.                *)
LEMMA ShiftTakesOne ==
    ASSUME NEW left, NEW rest, NEW i, Len(rest) \in Nat, Len(left) = Len(rest) + 1,
           i \in 1 .. Len(left),
           \A j \in 1 .. Len(rest) : rest[j] = IF j < i THEN left[j] ELSE left[j + 1]
    PROVE  TakesOne(left[i], left, rest)
<1> DEFINE m == Len(rest)
           p == [k \in 1 .. m + 1 |-> IF k = 1 THEN i ELSE IF k - 1 < i THEN k - 1 ELSE k]
<1>1. m \in Nat /\ Len(left) = m + 1 /\ i \in 1 .. m + 1
  OBVIOUS
<1> HIDE DEF m
<1>2. p[1] = i /\ \A k \in 1 .. m + 1 : k # 1 => p[k] = IF k - 1 < i THEN k - 1 ELSE k
  BY <1>1
<1>3. p \in [1 .. m + 1 -> 1 .. m + 1]
  <2>1. \A k \in 1 .. m + 1 : (IF k = 1 THEN i ELSE IF k - 1 < i THEN k - 1 ELSE k) \in 1 .. m + 1
    BY <1>1
  <2>2. QED
    BY <2>1
<1> HIDE DEF p
<1>4. ASSUME NEW a \in 1 .. m + 1, NEW b \in 1 .. m + 1, p[a] = p[b] PROVE a = b
  BY <1>1, <1>2, <1>4
<1>5. ASSUME NEW b \in 1 .. m + 1 PROVE \E a \in 1 .. m + 1 : p[a] = b
  <2>1. CASE b = i
    BY <1>1, <1>2, <2>1
  <2>2. CASE b < i
    <3>1. b + 1 \in 1 .. m + 1 /\ b + 1 # 1 /\ (b + 1) - 1 = b
      BY <1>1, <2>2
    <3>2. p[b + 1] = b
      BY <1>2, <2>2, <3>1
    <3>3. QED
      BY <3>1, <3>2
  <2>3. CASE b > i
    <3>1. b # 1 /\ ~(b - 1 < i)
      BY <1>1, <2>3
    <3>2. QED
      BY <1>2, <3>1
  <2>4. QED
    BY <1>1, <2>1, <2>2, <2>3
<1>6. IsPermutation(p, m + 1)
  BY <1>3, <1>4, <1>5 DEF IsPermutation
<1>7. ASSUME NEW j \in 1 .. m PROVE rest[j] = left[p[j + 1]]
  <2>1. j + 1 \in 1 .. m + 1 /\ j + 1 # 1 /\ (j + 1) - 1 = j
    BY <1>1
  <2>2. p[j + 1] = IF j < i THEN j ELSE j + 1
    BY <1>2, <2>1
  <2>3. QED
    BY <2>2 DEF m
<1>8. QED
  BY <1>1, <1>2, <1>6, <1>7 DEF TakesOne, m

(* So does moving the last entry into the gap.                             *)
LEMMA MoveTakesOne ==
    ASSUME NEW left, NEW rest, NEW i, Len(rest) \in Nat, Len(left) = Len(rest) + 1,
           i \in 1 .. Len(left),
           \A j \in 1 .. Len(rest) : rest[j] = IF j = i THEN left[Len(left)] ELSE left[j]
    PROVE  TakesOne(left[i], left, rest)
<1> DEFINE m == Len(rest)
           p == [k \in 1 .. m + 1 |-> IF k = 1 THEN i ELSE IF k - 1 = i THEN m + 1 ELSE k - 1]
<1>1. m \in Nat /\ Len(left) = m + 1 /\ i \in 1 .. m + 1
  OBVIOUS
<1> HIDE DEF m
<1>2. p[1] = i /\ \A k \in 1 .. m + 1 : k # 1 => p[k] = IF k - 1 = i THEN m + 1 ELSE k - 1
  BY <1>1
<1>3. p \in [1 .. m + 1 -> 1 .. m + 1]
  <2>1. \A k \in 1 .. m + 1 : (IF k = 1 THEN i ELSE IF k - 1 = i THEN m + 1 ELSE k - 1) \in 1 .. m + 1
    BY <1>1
  <2>2. QED
    BY <2>1
<1> HIDE DEF p
<1>4. ASSUME NEW a \in 1 .. m + 1, NEW b \in 1 .. m + 1, p[a] = p[b] PROVE a = b
  BY <1>1, <1>2, <1>4
<1>5. ASSUME NEW b \in 1 .. m + 1 PROVE \E a \in 1 .. m + 1 : p[a] = b
  <2>1. CASE b = i
    BY <1>1, <1>2, <2>1
  <2>2. CASE b # i /\ b # m + 1
    <3>1. b + 1 \in 1 .. m + 1 /\ b + 1 # 1 /\ (b + 1) - 1 = b
      BY <1>1, <2>2
    <3>2. p[b + 1] = b
      BY <1>2, <2>2, <3>1
    <3>3. QED
      BY <3>1, <3>2
  <2>3. CASE b # i /\ b = m + 1
    <3>1. i + 1 \in 1 .. m + 1 /\ i + 1 # 1 /\ (i + 1) - 1 = i
      BY <1>1, <2>3
    <3>2. p[i + 1] = m + 1
      BY <1>2, <3>1
    <3>3. QED
      BY <2>3, <3>1, <3>2
  <2>4. QED
    BY <1>1, <2>1, <2>2, <2>3
<1>6. IsPermutation(p, m + 1)
  BY <1>3, <1>4, <1>5 DEF IsPermutation
<1>7. ASSUME NEW j \in 1 .. m PROVE rest[j] = left[p[j + 1]]
  <2>1. j + 1 \in 1 .. m + 1 /\ j + 1 # 1 /\ (j + 1) - 1 = j
    BY <1>1
  <2>2. p[j + 1] = IF j = i THEN m + 1 ELSE j
    BY <1>2, <2>1
  <2>3. QED
    BY <1>1, <2>2 DEF m
<1>8. QED
  BY <1>1, <1>2, <1>6, <1>7 DEF TakesOne, m

(* RemoveFirst removes one entry.                                          *)
LEMMA RemoveFirstTakesOne ==
    ASSUME NEW X, NEW s \in Seq(X), NEW e, Contains(s, e)
    PROVE  RemoveFirst(s, e) \in Seq(X) /\ TakesOne(e, s, RemoveFirst(s, e))
<1> DEFINE I == {i \in 1 .. Len(s) : s[i] = e}
           k == Min(I)
           rest == SubSeq(s, 1, k - 1) \o SubSeq(s, k + 1, Len(s))
<1>1. I \in SUBSET Nat /\ I # {}
  BY DEF Contains
<1>2. RemoveFirst(s, e) = rest
  BY <1>1, Zenon DEF RemoveFirst, RemoveAt, SelectInSeq, Contains
<1>3. k \in I
  <2> HIDE DEF I
  <2>1. QED
    BY <1>1, MinIsLeast
<1>4. k \in 1 .. Len(s) /\ s[k] = e
  BY <1>3
<1> HIDE DEF k
<1> DEFINE a == SubSeq(s, 1, k - 1)
           b == SubSeq(s, k + 1, Len(s))
<1>5. /\ a \in Seq(X) /\ Len(a) = k - 1 /\ \A j \in 1 .. k - 1 : a[j] = s[j]
      /\ b \in Seq(X) /\ Len(b) = Len(s) - k
      /\ \A j \in 1 .. Len(s) - k : b[j] = s[k + j]
  BY <1>4
<1>6. rest = a \o b
  OBVIOUS
<1> HIDE DEF a, b, rest
<1>7. rest \in Seq(X) /\ Len(rest) = Len(a) + Len(b)
  BY <1>5, <1>6, Joined
<1>8. /\ \A j \in 1 .. Len(a) : rest[j] = a[j]
      /\ \A j \in 1 .. Len(b) : rest[Len(a) + j] = b[j]
  BY <1>5, <1>6, Joined
<1>9. Len(rest) \in Nat /\ Len(s) = Len(rest) + 1
  <2> DEFINE n == Len(s)
             r == Len(rest)
  <2>1. n \in Nat /\ r \in Nat
    BY <1>7
  <2>2. r = (k - 1) + (n - k)
    BY <1>5, <1>7, Zenon
  <2>3. k \in Int
    BY <1>4
  <2> HIDE DEF n, r
  <2>4. n = r + 1
    BY <2>1, <2>2, <2>3
  <2>5. QED
    BY <2>1, <2>4 DEF n, r
<1>10. ASSUME NEW j \in 1 .. Len(rest)
       PROVE  rest[j] = IF j < k THEN s[j] ELSE s[j + 1]
  <2>1. CASE j < k
    <3>1. j \in 1 .. k - 1 /\ j \in 1 .. Len(a)
      BY <1>4, <1>5, <2>1
    <3>2. QED
      BY <1>5, <1>8, <2>1, <3>1
  <2>2. CASE ~(j < k)
    <3>1. /\ j - (k - 1) \in 1 .. Len(s) - k /\ Len(a) + (j - (k - 1)) = j
          /\ k + (j - (k - 1)) = j + 1
      BY <1>4, <1>5, <1>9, <2>2
    <3>2. QED
      BY <1>5, <1>8, <2>2, <3>1
  <2>3. QED
    BY <2>1, <2>2
<1>11. TakesOne(s[k], s, rest)
  BY <1>4, <1>9, <1>10, ShiftTakesOne
<1>12. QED
  BY <1>2, <1>4, <1>7, <1>11

(* A plan that is not deterministic has a draw for each of its nodes: the  *)
(* generator is never exhausted.                                           *)
HasDraws(plan) == plan.deterministic_order \/ Len(plan.nodes) <= Len(plan.draws)

(* Prepare permutes the nodes and leaves the rest of the plan alone.       *)
LEMMA PreparePermutes ==
    ASSUME NEW plan \in Plan, HasDraws(plan)
    PROVE  /\ Prepare(plan) \in Plan /\ HasDraws(Prepare(plan)) /\ Prepare(plan).prepared
           /\ Permuted(Prepare(plan).nodes, plan.nodes)
           /\ Prepare(plan).preferred_nodes = plan.preferred_nodes
           /\ Prepare(plan).deterministic_order = plan.deterministic_order
           /\ Prepare(plan).sort_nodes = plan.sort_nodes
           /\ Prepare(plan).draws = plan.draws
           /\ ~plan.sort_nodes \/ plan.prepared => Prepare(plan).nodes = plan.nodes
           /\ plan.sort_nodes /\ ~plan.prepared => Prepare(plan).nodes = SortNodes(plan.nodes)
<1> DEFINE new == IF plan.sort_nodes /\ ~plan.prepared THEN SortNodes(plan.nodes) ELSE plan.nodes
           q == Prepare(plan)
<1>1. plan.nodes \in Seq(Url) /\ Len(plan.nodes) \in Nat /\ Url \in SUBSET Nat
  BY DEF Plan, Url
<1>2. new \in Seq(Url) /\ Permuted(new, plan.nodes)
  <2>1. CASE plan.sort_nodes /\ ~plan.prepared
    BY <1>1, <2>1, SortNodesPermutes
  <2>2. CASE ~(plan.sort_nodes /\ ~plan.prepared)
    BY <1>1, <2>2, PermutedSame
  <2>3. QED
    BY <2>1, <2>2
<1>3. q = [plan EXCEPT !.prepared = TRUE, !.nodes = new]
  BY DEF Prepare
<1>4. Len(new) = Len(plan.nodes)
  BY <1>2 DEF Permuted
<1>5. ~plan.sort_nodes \/ plan.prepared => new = plan.nodes
  OBVIOUS
<1>6. plan.sort_nodes /\ ~plan.prepared => new = SortNodes(plan.nodes)
  OBVIOUS
<1> HIDE DEF new, q
<1>7. /\ q \in Plan /\ q.nodes = new /\ q.prepared /\ q.preferred_nodes = plan.preferred_nodes
      /\ q.deterministic_order = plan.deterministic_order /\ q.sort_nodes = plan.sort_nodes
      /\ q.draws = plan.draws
  BY <1>2, <1>3 DEF Plan
<1>8. HasDraws(q)
  BY <1>4, <1>7 DEF HasDraws
<1>9. QED
  BY <1>2, <1>5, <1>6, <1>7, <1>8 DEF q

(* The parts of a plan that no call of Next changes, and what it keeps of  *)
(* the others.                                                             *)
GoesOn(next, plan) ==
    /\ next \in Plan /\ HasDraws(next) /\ next.prepared = plan.prepared
    /\ next.deterministic_order = plan.deterministic_order /\ next.sort_nodes = plan.sort_nodes

(* PickAndRemove gives out one entry of the list: of an ordered plan the   *)
(* first, else the drawn one.                                              *)
LEMMA PickTakesOne ==
    ASSUME NEW plan \in Plan, HasDraws(plan), plan.nodes # <<>>
    PROVE  LET r == PickAndRemove(plan)
           IN  /\ r.node \in Url /\ GoesOn(r.plan, plan)
               /\ TakesOne(r.node, plan.nodes, r.plan.nodes)
               /\ r.plan.preferred_nodes = plan.preferred_nodes
               /\ plan.deterministic_order => r.node = plan.nodes[1] /\ r.plan.nodes = Tail(plan.nodes)
               /\ ~plan.deterministic_order =>
                     r.node = plan.nodes[DrawBelow(Head(plan.draws), Len(plan.nodes)) + 1]
<1> DEFINE r == PickAndRemove(plan)
           nodes == plan.nodes
           draws == plan.draws
           n == Len(nodes)
<1>1. nodes \in Seq(Url) /\ n \in Nat /\ n # 0 /\ draws \in Seq(Nat) /\ Len(draws) \in Nat
  BY DEF Plan
<1>2. CASE plan.deterministic_order
  <2>1. r.node = nodes[1] /\ r.plan = [plan EXCEPT !.nodes = Tail(@)]
    BY <1>2 DEF PickAndRemove
  <2> HIDE DEF r
  <2>2. /\ Tail(nodes) \in Seq(Url) /\ Len(Tail(nodes)) \in Nat /\ n = Len(Tail(nodes)) + 1
        /\ 1 \in 1 .. n /\ nodes[1] \in Url
        /\ \A j \in 1 .. Len(Tail(nodes)) : Tail(nodes)[j] = nodes[j + 1] /\ ~(j < 1)
    BY <1>1
  <2>3. TakesOne(nodes[1], nodes, Tail(nodes))
    BY <2>2, ShiftTakesOne
  <2>4. /\ r.plan \in Plan /\ r.plan.nodes = Tail(nodes) /\ r.plan.prepared = plan.prepared
        /\ r.plan.deterministic_order = plan.deterministic_order
        /\ r.plan.sort_nodes = plan.sort_nodes /\ r.plan.preferred_nodes = plan.preferred_nodes
    BY <2>1, <2>2 DEF Plan
  <2>5. HasDraws(r.plan)
    BY <1>2, <2>4 DEF HasDraws
  <2>6. QED
    BY <1>2, <2>1, <2>2, <2>3, <2>4, <2>5 DEF r, GoesOn
<1>3. CASE ~plan.deterministic_order
  <2> DEFINE idx == DrawBelow(Head(draws), n) + 1
             moved == [nodes EXCEPT ![idx] = Last(nodes)]
             rest == Front(moved)
  <2>1. r.node = nodes[idx] /\ r.plan = [plan EXCEPT !.draws = Tail(@), !.nodes = rest]
    BY <1>3, Zenon DEF PickAndRemove
  <2> HIDE DEF r
  <2>2. n <= Len(draws) /\ Len(draws) # 0
    BY <1>1, <1>3 DEF HasDraws
  <2>3. Head(draws) \in Nat /\ Tail(draws) \in Seq(Nat) /\ Len(Tail(draws)) = Len(draws) - 1
    BY <1>1, <2>2
  <2>4. idx \in 1 .. n
    <3> DEFINE v == Head(draws)
    <3> HIDE DEF v
    <3>1. v \in Nat /\ n \in Nat /\ n > 0
      BY <1>1, <2>3 DEF v
    <3> HIDE DEF n
    <3>2. (v % n) \in 0 .. n - 1
      BY <3>1
    <3>3. idx = (v % n) + 1
      BY DEF DrawBelow, v
    <3> HIDE DEF idx
    <3>4. QED
      BY <3>1, <3>2, <3>3
  <2> HIDE DEF idx
  <2>5. /\ moved \in Seq(Url) /\ Len(moved) = n /\ nodes[idx] \in Url
        /\ \A j \in 1 .. n : moved[j] = IF j = idx THEN nodes[n] ELSE nodes[j]
    BY <1>1, <2>4 DEF Last
  <2> HIDE DEF moved
  <2>6. /\ rest \in Seq(Url) /\ Len(rest) = n - 1 /\ \A j \in 1 .. n - 1 : rest[j] = moved[j]
    BY <1>1, <2>5 DEF Front
  <2> HIDE DEF rest
  <2>7. Len(rest) \in Nat /\ n = Len(rest) + 1
    BY <1>1, <2>6
  <2>8. \A j \in 1 .. Len(rest) : rest[j] = IF j = idx THEN nodes[n] ELSE nodes[j]
    BY <1>1, <2>5, <2>6
  <2>9. TakesOne(nodes[idx], nodes, rest)
    BY <2>4, <2>7, <2>8, MoveTakesOne
  <2>10. /\ r.plan \in Plan /\ r.plan.nodes = rest /\ r.plan.prepared = plan.prepared
         /\ r.plan.draws = Tail(draws)
         /\ r.plan.deterministic_order = plan.deterministic_order
         /\ r.plan.sort_nodes = plan.sort_nodes /\ r.plan.preferred_nodes = plan.preferred_nodes
    BY <2>1, <2>3, <2>6 DEF Plan
  <2>11. HasDraws(r.plan)
    BY <1>1, <2>2, <2>3, <2>6, <2>10 DEF HasDraws
  <2>12. QED
    BY <1>3, <2>1, <2>5, <2>9, <2>10, <2>11 DEF r, idx, GoesOn
<1>4. QED
  BY <1>2, <1>3

(* hit is the first of the preferred nodes that is in the list.            *)
IsHit(hit, preferred, nodes) ==
    /\ hit \in 1 .. Len(preferred)
    /\ preferred[hit] # EmptyUrl /\ Contains(nodes, preferred[hit])
    /\ \A k \in 1 .. hit - 1 : preferred[k] = EmptyUrl \/ ~Contains(nodes, preferred[k])

NoHit(preferred, nodes) ==
    \A k \in 1 .. Len(preferred) : preferred[k] = EmptyUrl \/ ~Contains(nodes, preferred[k])

(* What Next gives out of a prepared plan with nodes left.                 *)
Gives(node, next, plan) ==
    /\ node \in Url /\ GoesOn(next, plan)
    /\ TakesOne(node, plan.nodes, next.nodes)
    /\ \/ \E hit : /\ IsHit(hit, plan.preferred_nodes, plan.nodes)
                   /\ node = plan.preferred_nodes[hit]
                   /\ next.preferred_nodes =
                        SubSeq(plan.preferred_nodes, hit + 1, Len(plan.preferred_nodes))
       \/ NoHit(plan.preferred_nodes, plan.nodes) /\ next.preferred_nodes = <<>>
    /\ plan.preferred_nodes = <<>> =>
          /\ next.preferred_nodes = <<>>
          /\ plan.deterministic_order => node = plan.nodes[1] /\ next.nodes = Tail(plan.nodes)
          /\ ~plan.deterministic_order =>
                node = plan.nodes[DrawBelow(Head(plan.draws), Len(plan.nodes)) + 1]

(* Next gives out an entry of the list as long as there is one.            *)
LEMMA NextGives ==
    ASSUME NEW unprepared \in Plan, HasDraws(unprepared)
    PROVE  LET r == NextInPlan(unprepared)
               plan == Prepare(unprepared)
           IN  /\ plan.nodes = <<>> => r.node = EmptyUrl
               /\ plan.nodes # <<>> => Gives(r.node, r.plan, plan)
<1> DEFINE r == NextInPlan(unprepared)
           plan == Prepare(unprepared)
           P == plan.preferred_nodes
           I == {i \in 1 .. Len(P) : P[i] # EmptyUrl /\ Contains(plan.nodes, P[i])}
           hit == IF I # {} THEN Min(I) ELSE 0
           left == [plan EXCEPT !.preferred_nodes =
                       IF hit = 0 THEN <<>> ELSE SubSeq(@, hit + 1, Len(@))]
<1>1. plan \in Plan /\ HasDraws(plan)
  BY PreparePermutes
<1>2. r = CASE hit # 0 ->
                 [node |-> P[hit], plan |-> [left EXCEPT !.nodes = RemoveFirst(@, P[hit])]]
            [] hit = 0 /\ plan.nodes # <<>> -> PickAndRemove(left)
            [] OTHER -> [node |-> EmptyUrl, plan |-> left]
  BY Zenon DEF NextInPlan, SelectInSeq
<1> HIDE DEF plan
<1>3. P \in Seq(Nat) /\ Len(P) \in Nat /\ plan.nodes \in Seq(Url)
  BY <1>1 DEF Plan
<1>4. CASE I = {}
  <2>1. hit = 0 /\ left = [plan EXCEPT !.preferred_nodes = <<>>]
    BY <1>4
  <2>2. NoHit(P, plan.nodes)
    BY <1>4 DEF NoHit
  <2> HIDE DEF hit, left, I
  <2>3. CASE plan.nodes = <<>>
    <3>1. r = [node |-> EmptyUrl, plan |-> left]
      BY <1>2, <2>1, <2>3
    <3>2. QED
      BY <2>3, <3>1 DEF plan
  <2>4. CASE plan.nodes # <<>>
    <3>1. r = PickAndRemove(left)
      BY <1>2, <2>1, <2>4
    <3> HIDE DEF r
    <3>2. /\ left \in Plan /\ left.nodes = plan.nodes /\ left.draws = plan.draws
          /\ left.preferred_nodes = <<>> /\ left.prepared = plan.prepared
          /\ left.deterministic_order = plan.deterministic_order
          /\ left.sort_nodes = plan.sort_nodes
      <4> DEFINE none == <<>>
      <4>1. none \in Seq(Nat) /\ left = [plan EXCEPT !.preferred_nodes = none]
        BY <2>1
      <4> HIDE DEF none
      <4>2. /\ left \in Plan /\ left.nodes = plan.nodes /\ left.draws = plan.draws
            /\ left.preferred_nodes = none /\ left.prepared = plan.prepared
            /\ left.deterministic_order = plan.deterministic_order
            /\ left.sort_nodes = plan.sort_nodes
        BY <1>1, <4>1 DEF Plan
      <4>3. QED
        BY <4>2 DEF none
    <3>3. HasDraws(left)
      BY <1>1, <3>2 DEF HasDraws
    <3>4. /\ r.node \in Url /\ GoesOn(r.plan, left)
          /\ TakesOne(r.node, left.nodes, r.plan.nodes)
          /\ r.plan.preferred_nodes = left.preferred_nodes
          /\ left.deterministic_order => r.node = left.nodes[1] /\ r.plan.nodes = Tail(left.nodes)
          /\ ~left.deterministic_order =>
                r.node = left.nodes[DrawBelow(Head(left.draws), Len(left.nodes)) + 1]
      BY <2>4, <3>1, <3>2, <3>3, PickTakesOne
    <3>5. GoesOn(r.plan, plan)
      BY <3>2, <3>4 DEF GoesOn
    <3>6. Gives(r.node, r.plan, plan)
      BY <2>2, <3>2, <3>4, <3>5 DEF Gives
    <3>7. QED
      BY <2>4, <3>6 DEF r, plan
  <2>5. QED
    BY <2>3, <2>4
<1>5. CASE I # {}
  <2>1. I \in SUBSET Nat
    OBVIOUS
  <2>2. hit \in I /\ \A y \in I : hit <= y
    <3> HIDE DEF I
    <3>1. QED
      BY <1>5, <2>1, MinIsLeast
  <2>3. /\ hit \in 1 .. Len(P) /\ hit # 0
        /\ P[hit] # EmptyUrl /\ Contains(plan.nodes, P[hit])
    BY <2>2
  <2>4. \A k \in 1 .. hit - 1 : P[k] = EmptyUrl \/ ~Contains(plan.nodes, P[k])
    <3> HIDE DEF hit
    <3>1. \A k \in 1 .. hit - 1 : k \in 1 .. Len(P) /\ ~(hit <= k)
      BY <1>3, <2>3
    <3>2. \A k \in 1 .. hit - 1 : k \notin I
      BY <2>2, <3>1
    <3>3. QED
      BY <3>1, <3>2
  <2>5. left = [plan EXCEPT !.preferred_nodes = SubSeq(P, hit + 1, Len(P))]
    BY <2>3
  <2> HIDE DEF hit, left, I
  <2>6. r = [node |-> P[hit], plan |-> [left EXCEPT !.nodes = RemoveFirst(@, P[hit])]]
    BY <1>2, <2>3
  <2>7. IsHit(hit, P, plan.nodes)
    BY <2>3, <2>4 DEF IsHit
  <2>8. SubSeq(P, hit + 1, Len(P)) \in Seq(Nat) /\ P[hit] \in Url
    BY <1>3, <2>3 DEF Url
  <2>9. RemoveFirst(plan.nodes, P[hit]) \in Seq(Url) /\ TakesOne(P[hit], plan.nodes, RemoveFirst(plan.nodes, P[hit]))
    BY <1>3, <2>3, RemoveFirstTakesOne
  <2> DEFINE rest == RemoveFirst(plan.nodes, P[hit])
             Q == SubSeq(P, hit + 1, Len(P))
  <2>10. rest \in Seq(Url) /\ Q \in Seq(Nat) /\ Len(rest) \in Nat
    BY <2>8, <2>9
  <2>11. left = [plan EXCEPT !.preferred_nodes = Q] /\ left.nodes = plan.nodes
    BY <2>5, <1>1 DEF Plan
  <2>12. r.plan = [left EXCEPT !.nodes = rest] /\ r.node = P[hit]
    BY <2>6, <2>11
  <2> HIDE DEF rest, Q, r
  <2>13. /\ r.plan \in Plan /\ r.plan.nodes = rest /\ r.plan.draws = plan.draws
         /\ r.plan.preferred_nodes = Q /\ r.plan.prepared = plan.prepared
         /\ r.plan.deterministic_order = plan.deterministic_order
         /\ r.plan.sort_nodes = plan.sort_nodes
    BY <1>1, <2>10, <2>11, <2>12 DEF Plan
  <2>14. TakesOne(P[hit], plan.nodes, rest) /\ Len(plan.nodes) = Len(rest) + 1
    BY <2>9 DEF rest, TakesOne
  <2>15. HasDraws(r.plan)
    <3>1. plan.draws \in Seq(Nat) /\ Len(plan.draws) \in Nat
      BY <1>1 DEF Plan
    <3>2. QED
      BY <1>1, <2>10, <2>13, <2>14, <3>1 DEF HasDraws
  <2>16. GoesOn(r.plan, plan)
    BY <2>13, <2>15 DEF GoesOn
  <2>17. P # <<>>
    BY <2>3
  <2>18. Gives(r.node, r.plan, plan)
    BY <2>7, <2>8, <2>12, <2>13, <2>14, <2>16, <2>17 DEF Gives, Q
  <2>19. plan.nodes # <<>>
    BY <2>3 DEF Contains
  <2>20. QED
    BY <2>18, <2>19 DEF r, plan
<1>6. QED
  BY <1>4, <1>5

-----------------------------------------------------------------------------
(* Next until nothing is left.                                             *)

(* Permuted lists have the same entries.                                   *)
LEMMA PermutedContains ==
    ASSUME NEW s, NEW t, Permuted(s, t), NEW x
    PROVE  Contains(s, x) <=> Contains(t, x)
<1> DEFINE n == Len(t)
<1>1. Len(s) = n
  BY DEF Permuted
<1>2. PICK p : IsPermutation(p, n) /\ \A i \in 1 .. n : s[i] = t[p[i]]
  BY DEF Permuted
<1> HIDE DEF n
<1>3. p \in [1 .. n -> 1 .. n] /\ \A j \in 1 .. n : \E i \in 1 .. n : p[i] = j
  BY <1>2 DEF IsPermutation
<1>4. ASSUME NEW i \in 1 .. n, s[i] = x PROVE \E j \in 1 .. n : t[j] = x
  BY <1>2, <1>3, <1>4
<1>5. ASSUME NEW j \in 1 .. n, t[j] = x PROVE \E i \in 1 .. n : s[i] = x
  <2>1. PICK i \in 1 .. n : p[i] = j
    BY <1>3
  <2>2. QED
    BY <1>2, <1>5, <2>1
<1>6. QED
  BY <1>1, <1>4, <1>5 DEF Contains, n

(* What is taken of a permutation is taken of the list.                    *)
LEMMA TakesOneOfPermuted ==
    ASSUME NEW s, NEW t, NEW rest, NEW node, Permuted(s, t), TakesOne(node, s, rest),
           Len(rest) \in Nat
    PROVE  TakesOne(node, t, rest)
<1> DEFINE n == Len(t)
           m == Len(rest)
<1>1. Len(s) = n /\ n = m + 1
  BY DEF Permuted, TakesOne
<1>2. PICK q : IsPermutation(q, n) /\ \A i \in 1 .. n : s[i] = t[q[i]]
  BY DEF Permuted
<1>3. PICK p : /\ IsPermutation(p, n) /\ s[p[1]] = node
               /\ \A i \in 1 .. m : rest[i] = s[p[i + 1]]
  BY <1>1 DEF TakesOne
<1>4. m \in Nat
  OBVIOUS
<1> HIDE DEF n, m
<1> DEFINE r == [i \in 1 .. n |-> q[p[i]]]
<1>5. \A i \in 1 .. n : p[i] \in 1 .. n /\ q[i] \in 1 .. n
  BY <1>2, <1>3 DEF IsPermutation
<1>6. r \in [1 .. n -> 1 .. n] /\ \A i \in 1 .. n : r[i] = q[p[i]]
  BY <1>5
<1> HIDE DEF r
<1>7. IsPermutation(r, n)
  <2>1. ASSUME NEW i \in 1 .. n, NEW j \in 1 .. n, r[i] = r[j] PROVE i = j
    <3>1. q[p[i]] = q[p[j]] /\ p[i] \in 1 .. n /\ p[j] \in 1 .. n
      BY <1>5, <1>6, <2>1
    <3>2. p[i] = p[j]
      BY <1>2, <3>1 DEF IsPermutation
    <3>3. QED
      BY <1>3, <3>2 DEF IsPermutation
  <2>2. ASSUME NEW j \in 1 .. n PROVE \E i \in 1 .. n : r[i] = j
    <3>1. PICK k \in 1 .. n : q[k] = j
      BY <1>2 DEF IsPermutation
    <3>2. PICK i \in 1 .. n : p[i] = k
      BY <1>3 DEF IsPermutation
    <3>3. QED
      BY <1>6, <3>1, <3>2
  <2>3. QED
    BY <1>6, <2>1, <2>2 DEF IsPermutation
<1>8. \A i \in 1 .. m : i + 1 \in 1 .. n
  BY <1>1, <1>4
<1>9. 1 \in 1 .. n
  BY <1>1, <1>4
<1>10. t[r[1]] = node
  BY <1>2, <1>3, <1>5, <1>6, <1>9
<1>11. ASSUME NEW i \in 1 .. m PROVE rest[i] = t[r[i + 1]]
  BY <1>2, <1>3, <1>5, <1>6, <1>8
<1>12. QED
  BY <1>1, <1>7, <1>10, <1>11 DEF TakesOne, n, m

(* What a list and the rest of it contain.                                 *)
LEMMA TakesOneContains ==
    ASSUME NEW left, NEW rest, NEW node, TakesOne(node, left, rest), Len(rest) \in Nat
    PROVE  /\ Contains(left, node)
           /\ \A x : Contains(rest, x) => Contains(left, x)
           /\ (\A i, j \in 1 .. Len(left) : left[i] = left[j] => i = j) => ~Contains(rest, node)
<1> DEFINE m == Len(rest)
<1>1. m \in Nat /\ Len(left) = m + 1
  BY DEF TakesOne
<1>2. PICK p : /\ IsPermutation(p, m + 1) /\ left[p[1]] = node
               /\ \A i \in 1 .. m : rest[i] = left[p[i + 1]]
  BY <1>1 DEF TakesOne
<1>3. p \in [1 .. m + 1 -> 1 .. m + 1] /\ \A i, j \in 1 .. m + 1 : p[i] = p[j] => i = j
  BY <1>2 DEF IsPermutation
<1> HIDE DEF m
<1>4. 1 \in 1 .. m + 1 /\ \A i \in 1 .. m : i + 1 \in 1 .. m + 1 /\ i + 1 # 1
  BY <1>1
<1>5. p[1] \in 1 .. m + 1 /\ \A i \in 1 .. m : p[i + 1] \in 1 .. m + 1 /\ p[i + 1] # p[1]
  BY <1>3, <1>4
<1>6. Contains(left, node)
  BY <1>1, <1>2, <1>5 DEF Contains
<1>7. ASSUME NEW x, Contains(rest, x) PROVE Contains(left, x)
  BY <1>1, <1>2, <1>5, <1>7 DEF Contains, m
<1>8. ASSUME \A i, j \in 1 .. Len(left) : left[i] = left[j] => i = j, Contains(rest, node)
      PROVE  FALSE
  <2>1. PICK i \in 1 .. m : rest[i] = node
    BY <1>8 DEF Contains, m
  <2>2. left[p[i + 1]] = left[p[1]]
    BY <1>2, <2>1
  <2>3. QED
    BY <1>1, <1>5, <1>8, <2>2
<1>9. QED
  BY <1>6, <1>7, <1>8

(* Two nodes of out, and a node of out and one of left, are in the order   *)
(* of P.                                                                   *)
OutIsOrdered(out, P) ==
    \A i, j \in 1 .. Len(out), m \in 1 .. Len(P) :
        i < j /\ P[m] = out[j] => \E l \in 1 .. m - 1 : P[l] = out[i]

OutIsPreferred(out, left, P) ==
    \A i \in 1 .. Len(out), m \in 1 .. Len(P) :
        Contains(left, P[m]) => \E l \in 1 .. m - 1 : P[l] = out[i]

(* The nodes given out so far, out, and those left are in the order of P,  *)
(* of which the nodes in front of Q have been looked at.                   *)
InPreferredOrder(out, left, Q, P) ==
    /\ \E k \in 0 .. Len(P) : /\ Q = SubSeq(P, k + 1, Len(P))
                              /\ \A l \in 1 .. k : ~Contains(left, P[l])
    /\ OutIsOrdered(out, P)
    /\ OutIsPreferred(out, left, P)

(* The rest of the rest of a list.                                         *)
LEMMA RestOfRest ==
    ASSUME NEW X, NEW P \in Seq(X), NEW k \in 0 .. Len(P), NEW Q, Q = SubSeq(P, k + 1, Len(P)),
           NEW hit \in 1 .. Len(P) - k
    PROVE  SubSeq(Q, hit + 1, Len(Q)) = SubSeq(P, (k + hit) + 1, Len(P))
<1> DEFINE p == Len(P)
           R == SubSeq(Q, hit + 1, Len(Q))
           S == SubSeq(P, (k + hit) + 1, Len(P))
           r == p - (k + hit)
<1>1. p \in Nat /\ k \in Nat /\ hit \in Nat /\ k + hit \in Nat /\ k + hit <= p /\ hit <= p - k
  OBVIOUS
<1>2. Q \in Seq(X) /\ Len(Q) = p - k /\ \A i \in 1 .. p - k : Q[i] = P[k + i]
  <2>1. SubSeq(P, k + 1, Len(P)) \in Seq(X)
    BY <1>1
  <2>2. QED
    BY <1>1, <2>1
<1>3. R \in Seq(X) /\ Len(R) = r /\ \A i \in 1 .. r : R[i] = Q[hit + i]
  <2>1. Len(Q) = p - k
    BY <1>2
  <2> HIDE DEF p
  <2>2. QED
    BY <1>1, <1>2, <2>1
<1>4. S \in Seq(X) /\ Len(S) = r /\ \A i \in 1 .. r : S[i] = P[(k + hit) + i]
  <2> DEFINE c == k + hit
  <2>1. c \in Nat /\ c <= Len(P)
    BY <1>1
  <2> HIDE DEF c
  <2>2. /\ SubSeq(P, c + 1, Len(P)) \in Seq(X) /\ Len(SubSeq(P, c + 1, Len(P))) = Len(P) - c
        /\ \A i \in 1 .. Len(P) - c : SubSeq(P, c + 1, Len(P))[i] = P[c + i]
    BY <2>1
  <2>3. QED
    BY <2>2 DEF c
<1> HIDE DEF p, R, S
<1>5. \A i \in 1 .. r : hit + i \in 1 .. p - k /\ k + (hit + i) = (k + hit) + i
  BY <1>1
<1>6. \A i \in 1 .. r : R[i] = S[i]
  BY <1>2, <1>3, <1>4, <1>5
<1> HIDE DEF r
<1>7. R = S
  BY <1>3, <1>4, <1>6
<1>8. QED
  BY <1>7 DEF R, S

(* A call of Next keeps them so.                                           *)
LEMMA NextKeepsPreferredOrder ==
    ASSUME NEW out \in Seq(Url), NEW left \in Seq(Url), NEW rest \in Seq(Url), NEW node \in Url,
           NEW P \in Seq(Nat), NEW Q, NEW R, TakesOne(node, left, rest),
           \A i, j \in 1 .. Len(left) : left[i] = left[j] => i = j,
           InPreferredOrder(out, left, Q, P),
           \/ \E hit : /\ IsHit(hit, Q, left) /\ node = Q[hit]
                       /\ R = SubSeq(Q, hit + 1, Len(Q))
           \/ NoHit(Q, left) /\ R = <<>>
    PROVE  InPreferredOrder(Append(out, node), rest, R, P)
<1> DEFINE p == Len(P)
           n == Len(out)
           new == Append(out, node)
<1>1. p \in Nat /\ n \in Nat
  OBVIOUS
<1>2. PICK k \in 0 .. p : /\ Q = SubSeq(P, k + 1, p)
                          /\ \A l \in 1 .. k : ~Contains(left, P[l])
  BY DEF InPreferredOrder
<1>0. \A l \in 1 .. k : ~Contains(left, P[l])
  BY <1>2
<1>11. ASSUME NEW i \in 1 .. n, NEW j \in 1 .. n, NEW m \in 1 .. p, i < j, P[m] = new[j]
       PROVE  \E l \in 1 .. m - 1 : P[l] = new[i]
  <2>1. new[i] = out[i] /\ new[j] = out[j]
    BY Appended
  <2>2. OutIsOrdered(out, P)
    BY DEF InPreferredOrder
  <2>3. QED
    BY <1>11, <2>1, <2>2 DEF OutIsOrdered
<1>12. ASSUME NEW i \in 1 .. n, NEW m \in 1 .. p, Contains(left, P[m])
       PROVE  \E l \in 1 .. m - 1 : P[l] = new[i]
  <2>1. new[i] = out[i]
    BY Appended
  <2>2. OutIsPreferred(out, left, P)
    BY DEF InPreferredOrder
  <2>3. QED
    BY <1>12, <2>1, <2>2 DEF OutIsPreferred
<1>3. Len(new) = n + 1 /\ new[n + 1] = node /\ \A i \in 1 .. n : new[i] = out[i]
  BY Appended
<1>4. Len(Q) = p - k /\ \A i \in 1 .. p - k : Q[i] = P[k + i]
  BY <1>1, <1>2
<1>5. Len(rest) \in Nat /\ ~Contains(left, EmptyUrl)
  <2>1. \A i \in 1 .. Len(left) : left[i] # EmptyUrl
    BY DEF Url
  <2>2. QED
    BY <2>1 DEF Contains
<1>6. Contains(left, node) /\ ~Contains(rest, node) /\ \A x : Contains(rest, x) => Contains(left, x)
  BY <1>5, TakesOneContains
<1> HIDE DEF p, n, new
<1>7. \A i \in 1 .. n + 1 : i \in 1 .. n \/ i = n + 1
  BY <1>1
<1>8. CASE NoHit(Q, left) /\ R = <<>>
  <2>1. ASSUME NEW m \in 1 .. p PROVE ~Contains(left, P[m])
    <3>1. CASE m <= k
      <4>1. m \in 1 .. k
        BY <1>1, <3>1
      <4>2. QED
        BY <1>0, <4>1
    <3>2. CASE m > k
      <4>1. m - k \in 1 .. p - k /\ k + (m - k) = m
        BY <1>1, <3>2
      <4>2. Q[m - k] = P[m] /\ m - k \in 1 .. Len(Q)
        BY <1>4, <4>1
      <4>3. QED
        BY <1>5, <1>8, <4>2 DEF NoHit
    <3>3. QED
      BY <1>1, <3>1, <3>2
  <2>2. ASSUME NEW i \in 1 .. n + 1, NEW j \in 1 .. n + 1, NEW m \in 1 .. p, i < j, P[m] = new[j]
        PROVE  \E l \in 1 .. m - 1 : P[l] = new[i]
    <3>1. CASE j = n + 1
      BY <1>3, <1>6, <2>1, <2>2, <3>1
    <3>2. CASE j \in 1 .. n
      <4>1. i \in 1 .. n
        BY <1>1, <2>2, <3>2
      <4>2. QED
        BY <1>11, <2>2, <3>2, <4>1
    <3>3. QED
      BY <1>7, <3>1, <3>2
  <2>3. \A m \in 1 .. p : ~Contains(rest, P[m])
    BY <1>6, <2>1
  <2>4. p \in 0 .. p /\ R = SubSeq(P, p + 1, p)
    <3>1. SubSeq(P, p + 1, p) = <<>>
      BY <1>1
    <3>2. QED
      BY <1>1, <1>8, <3>1
  <2>5. OutIsOrdered(new, P)
    BY <1>3, <2>2 DEF OutIsOrdered, p
  <2>6. OutIsPreferred(new, rest, P)
    BY <2>3 DEF OutIsPreferred, p
  <2>7. InPreferredOrder(new, rest, R, P)
    BY <2>3, <2>4, <2>5, <2>6 DEF InPreferredOrder, p
  <2>8. QED
    BY <2>7 DEF new
<1>9. CASE \E hit : IsHit(hit, Q, left) /\ node = Q[hit] /\ R = SubSeq(Q, hit + 1, Len(Q))
  <2>1. PICK hit : IsHit(hit, Q, left) /\ node = Q[hit] /\ R = SubSeq(Q, hit + 1, Len(Q))
    BY <1>9
  <2>2. hit \in 1 .. p - k /\ k + hit \in 1 .. p /\ node = P[k + hit]
    <3>1. hit \in 1 .. p - k
      BY <1>4, <2>1 DEF IsHit
    <3>2. QED
      BY <1>1, <1>4, <2>1, <3>1
  <2>3. R = SubSeq(P, (k + hit) + 1, p)
    <3>1. hit \in 1 .. Len(P) - k /\ k \in 0 .. Len(P) /\ Q = SubSeq(P, k + 1, Len(P))
      BY <1>2, <2>2 DEF p
    <3>2. SubSeq(Q, hit + 1, Len(Q)) = SubSeq(P, (k + hit) + 1, Len(P))
      BY <3>1, RestOfRest
    <3>3. QED
      BY <2>1, <3>2 DEF p
  <2>4. ASSUME NEW l \in 1 .. k + hit PROVE ~Contains(rest, P[l])
    <3>1. CASE l <= k
      <4>1. l \in 1 .. k
        BY <1>1, <3>1
      <4>2. QED
        BY <1>0, <1>6, <4>1
    <3>2. CASE l = k + hit
      BY <1>6, <2>2, <3>2
    <3>3. CASE l > k /\ l < k + hit
      <4>1. l - k \in 1 .. hit - 1 /\ l - k \in 1 .. p - k /\ k + (l - k) = l
        BY <1>1, <2>2, <3>3, SMTT(30)
      <4>2. Q[l - k] = P[l]
        BY <1>4, <4>1
      <4>3. P[l] = EmptyUrl \/ ~Contains(left, P[l])
        BY <2>1, <4>1, <4>2 DEF IsHit
      <4>4. QED
        BY <1>5, <1>6, <4>3
    <3>4. QED
      BY <1>1, <2>2, <3>1, <3>2, <3>3
  <2>5. ASSUME NEW i \in 1 .. n + 1, NEW j \in 1 .. n + 1, NEW m \in 1 .. p, i < j, P[m] = new[j]
        PROVE  \E l \in 1 .. m - 1 : P[l] = new[i]
    <3>1. i \in 1 .. n
      BY <1>1, <2>5
    <3>2. CASE j = n + 1
      <4>1. Contains(left, P[m])
        BY <1>3, <1>6, <2>5, <3>2
      <4>2. QED
        BY <1>12, <3>1, <4>1
    <3>3. CASE j \in 1 .. n
      BY <1>11, <2>5, <3>1, <3>3
    <3>4. QED
      BY <1>7, <3>2, <3>3
  <2>6. ASSUME NEW i \in 1 .. n + 1, NEW m \in 1 .. p, Contains(rest, P[m])
        PROVE  \E l \in 1 .. m - 1 : P[l] = new[i]
    <3>1. CASE i \in 1 .. n
      BY <1>6, <1>12, <2>6, <3>1
    <3>2. CASE i = n + 1
      <4>1. ~(m \in 1 .. k + hit)
        BY <2>4, <2>6
      <4>2. k + hit \in 1 .. m - 1
        BY <1>1, <2>2, <4>1
      <4>3. QED
        BY <1>3, <2>2, <3>2, <4>2
    <3>3. QED
      BY <1>7, <3>1, <3>2
  <2>7. k + hit \in 0 .. p
    BY <2>2
  <2>8. OutIsOrdered(new, P)
    BY <1>3, <2>5 DEF OutIsOrdered, p
  <2>9. OutIsPreferred(new, rest, P)
    BY <1>3, <2>6 DEF OutIsPreferred, p
  <2>10. InPreferredOrder(new, rest, R, P)
    BY <2>3, <2>4, <2>7, <2>8, <2>9 DEF InPreferredOrder, p
  <2>11. QED
    BY <2>10 DEF new
<1>10. QED
  BY <1>8, <1>9

(* The accumulator of DrainPlan.                                           *)
Accumulator == [plan : Plan, out : Seq(Url), ended : BOOLEAN]

(* A plan that only takes from the front of its list.                      *)
IsOrderedPlan(plan) ==
    plan.deterministic_order /\ ~plan.sort_nodes /\ plan.preferred_nodes = <<>>

(* What DrainPlan has made of start after some calls of Next.              *)
Draining(acc, start) ==
    /\ HasDraws(acc.plan)
    /\ Permuted(acc.out \o acc.plan.nodes, start.nodes)
    /\ acc.ended => acc.plan.nodes = <<>>
    /\ acc.out = <<>> => acc.plan = start
    /\ acc.out # <<>> => acc.out[1] = NextInPlan(start).node
    /\ IsInjective(start.nodes) =>
          InPreferredOrder(acc.out, acc.plan.nodes, acc.plan.preferred_nodes, start.preferred_nodes)
    /\ IsOrderedPlan(start) =>
          IsOrderedPlan(acc.plan) /\ acc.out \o acc.plan.nodes = start.nodes

(* It starts with start.                                                   *)
LEMMA DrainingStarts ==
    ASSUME NEW start \in Plan, HasDraws(start)
    PROVE  LET acc == [plan |-> start, out |-> <<>>, ended |-> FALSE]
           IN  acc \in Accumulator /\ Draining(acc, start)
<1> DEFINE acc == [plan |-> start, out |-> <<>>, ended |-> FALSE]
           P == start.preferred_nodes
           left == start.nodes
<1>1. left \in Seq(Url) /\ Len(left) \in Nat /\ P \in Seq(Nat) /\ Len(P) \in Nat
  BY DEF Plan
<1>2. acc \in Accumulator
  BY DEF Accumulator
<1>3. <<>> \o left = left
  BY <1>1
<1>4. Permuted(left, left)
  BY <1>1, PermutedSame
<1>5. InPreferredOrder(<<>>, left, P, P)
  <2>1. 0 \in 0 .. Len(P) /\ 1 .. 0 = {} /\ Len(<<>>) = 0
    BY <1>1
  <2>2. P = SubSeq(P, 0 + 1, Len(P))
    BY <1>1
  <2>3. \E k \in 0 .. Len(P) : /\ P = SubSeq(P, k + 1, Len(P))
                               /\ \A l \in 1 .. k : ~Contains(left, P[l])
    BY <2>1, <2>2
  <2>4. OutIsOrdered(<<>>, P) /\ OutIsPreferred(<<>>, left, P)
    BY <2>1 DEF OutIsOrdered, OutIsPreferred
  <2>5. QED
    BY <2>3, <2>4 DEF InPreferredOrder
<1>6. Draining(acc, start)
  BY <1>3, <1>4, <1>5 DEF Draining
<1>7. QED
  BY <1>2, <1>6

(* The head of a list put at the end of another one.                       *)
LEMMA HeadMoves ==
    ASSUME NEW X, NEW out \in Seq(X), NEW left \in Seq(X), left # <<>>
    PROVE  Append(out, left[1]) \o Tail(left) = out \o left
<1> DEFINE m == Len(out)
           l == Len(left)
           a == Append(out, left[1])
           b == Tail(left)
           s == a \o b
           t == out \o left
<1>1. m \in Nat /\ l \in Nat /\ l # 0 /\ left[1] \in X
  OBVIOUS
<1>2. a \in Seq(X) /\ Len(a) = m + 1 /\ a[m + 1] = left[1] /\ \A i \in 1 .. m : a[i] = out[i]
  BY <1>1, Appended
<1>3. b \in Seq(X) /\ Len(b) = l - 1 /\ \A i \in 1 .. l - 1 : b[i] = left[i + 1]
  BY <1>1
<1> HIDE DEF a, b
<1>4. /\ s \in Seq(X) /\ Len(s) = Len(a) + Len(b)
      /\ \A i \in 1 .. Len(a) : s[i] = a[i]
      /\ \A i \in 1 .. Len(b) : s[Len(a) + i] = b[i]
  <2>1. a \in Seq(X) /\ b \in Seq(X)
    BY <1>2, <1>3
  <2>2. QED
    BY <2>1, Joined
<1>5. /\ t \in Seq(X) /\ Len(t) = m + l
      /\ \A i \in 1 .. m : t[i] = out[i]
      /\ \A i \in 1 .. l : t[m + i] = left[i]
  BY Joined
<1> HIDE DEF m, l, s, t
<1>6. Len(s) = m + l /\ m + l \in Nat
  BY <1>1, <1>2, <1>3, <1>4
<1>7. ASSUME NEW i \in 1 .. m + l PROVE s[i] = t[i]
  <2>1. CASE i \in 1 .. m
    <3>1. i \in 1 .. Len(a)
      BY <1>1, <1>2, <2>1
    <3>2. QED
      BY <1>2, <1>4, <1>5, <2>1, <3>1
  <2>2. CASE i = m + 1
    <3>1. m + 1 \in 1 .. Len(a) /\ 1 \in 1 .. l
      BY <1>1, <1>2
    <3>2. QED
      BY <1>2, <1>4, <1>5, <2>2, <3>1
  <2>3. CASE i > m + 1
    <3>1. /\ i - (m + 1) \in 1 .. l - 1 /\ (m + 1) + (i - (m + 1)) = i
          /\ (i - (m + 1)) + 1 = i - m /\ i - m \in 1 .. l /\ m + (i - m) = i
      BY <1>1, <2>3
    <3>2. s[i] = b[i - (m + 1)]
      BY <1>2, <1>3, <1>4, <3>1, SMTT(30)
    <3>3. QED
      BY <1>3, <1>5, <3>1, <3>2
  <2>4. QED
    BY <1>1, <2>1, <2>2, <2>3
<1>8. s = t
  BY <1>4, <1>5, <1>6, <1>7
<1>9. QED
  BY <1>8 DEF s, t, a, b

(* A call of Next and the end of the loop.                                 *)
LEMMA DrainStepDrains ==
    ASSUME NEW start \in Plan, HasDraws(start), NEW acc \in Accumulator, Draining(acc, start)
    PROVE  /\ DrainStep(acc) \in Accumulator /\ Draining(DrainStep(acc), start)
           /\ DrainStep(acc).ended \/ Len(DrainStep(acc).out) = Len(acc.out) + 1
<1> DEFINE r == NextInPlan(acc.plan)
           plan == Prepare(acc.plan)
           out == acc.out
           left == acc.plan.nodes
           new == Append(out, r.node)
           rest == r.plan.nodes
           next == DrainStep(acc)
           P == start.preferred_nodes
<1>1. /\ acc.plan \in Plan /\ out \in Seq(Url) /\ acc.ended \in BOOLEAN /\ HasDraws(acc.plan)
      /\ left \in Seq(Url) /\ Len(left) \in Nat /\ Len(out) \in Nat
      /\ start.nodes \in Seq(Url) /\ P \in Seq(Nat)
  BY DEF Accumulator, Plan, Draining
<1>2. /\ plan \in Plan /\ Permuted(plan.nodes, left)
      /\ plan.preferred_nodes = acc.plan.preferred_nodes
      /\ plan.deterministic_order = acc.plan.deterministic_order
      /\ plan.sort_nodes = acc.plan.sort_nodes
      /\ ~acc.plan.sort_nodes => plan.nodes = left
  BY <1>1, PreparePermutes
<1>3. /\ plan.nodes = <<>> => r.node = EmptyUrl
      /\ plan.nodes # <<>> => Gives(r.node, r.plan, plan)
  BY <1>1, NextGives
<1>4. plan.nodes = <<>> <=> left = <<>>
  <2>1. Len(plan.nodes) = Len(left) /\ plan.nodes \in Seq(Url)
    BY <1>2 DEF Permuted, Plan
  <2>2. QED
    BY <1>1, <2>1
<1>5. CASE acc.ended \/ r.node = EmptyUrl
  <2>1. next = [acc EXCEPT !.ended = TRUE]
    BY <1>5 DEF DrainStep
  <2>2. left = <<>>
    <3>1. CASE acc.ended
      BY <3>1 DEF Draining
    <3>2. CASE r.node = EmptyUrl
      BY <1>3, <1>4, <3>2 DEF Gives, Url
    <3>3. QED
      BY <1>5, <3>1, <3>2
  <2>3. next \in Accumulator /\ next.plan = acc.plan /\ next.out = acc.out /\ next.ended
    BY <1>1, <2>1 DEF Accumulator
  <2>4. Draining(next, start)
    <3> HIDE DEF next
    <3>1. QED
      BY <2>2, <2>3 DEF Draining
  <2>5. QED
    BY <2>3, <2>4
<1>6. CASE ~(acc.ended \/ r.node = EmptyUrl)
  <2>1. next = [acc EXCEPT !.plan = r.plan, !.out = new]
    BY <1>6 DEF DrainStep
  <2>2. Gives(r.node, r.plan, plan)
    BY <1>3, <1>6
  <2>3. /\ r.node \in Url /\ r.plan \in Plan /\ HasDraws(r.plan) /\ GoesOn(r.plan, plan)
        /\ TakesOne(r.node, plan.nodes, rest)
    BY <2>2 DEF Gives, GoesOn
  <2>4. rest \in Seq(Url) /\ Len(rest) \in Nat
    BY <2>3 DEF Plan
  <2>5. new \in Seq(Url) /\ Len(new) = Len(out) + 1 /\ \A i \in 1 .. Len(out) : new[i] = out[i]
    BY <1>1, <2>3, Appended
  <2>6. new[Len(out) + 1] = r.node
    BY <1>1, <2>3, Appended
  <2>7. TakesOne(r.node, left, rest)
    BY <1>2, <2>3, <2>4, TakesOneOfPermuted
  <2> HIDE DEF r, new, rest, next, plan
  <2>8. /\ next \in Accumulator /\ next.plan = r.plan /\ next.out = new
        /\ next.ended = acc.ended
    BY <1>1, <2>1, <2>3, <2>5 DEF Accumulator
  <2>9. Permuted(new \o rest, start.nodes)
    <3>1. Permuted(new \o rest, out \o left)
      BY <1>1, <2>3, <2>4, <2>7, GivingPermutes DEF new
    <3>2. Permuted(out \o left, start.nodes)
      BY DEF Draining
    <3>3. QED
      BY <3>1, <3>2, PermutedTwice
  <2>10. new # <<>>
    BY <1>1, <2>5
  <2>11. new[1] = NextInPlan(start).node
    <3>1. CASE out = <<>>
      <4>1. acc.plan = start /\ Len(out) = 0
        BY <3>1 DEF Draining
      <4>2. QED
        BY <2>6, <4>1 DEF r
    <3>2. CASE out # <<>>
      <4>1. 1 \in 1 .. Len(out)
        BY <1>1, <3>2
      <4>2. QED
        BY <2>5, <3>2, <4>1 DEF Draining
    <3>3. QED
      BY <3>1, <3>2
  <2>12. ASSUME IsInjective(start.nodes)
         PROVE  InPreferredOrder(new, rest, r.plan.preferred_nodes, P)
    <3> DEFINE Q == acc.plan.preferred_nodes
               R == r.plan.preferred_nodes
               all == out \o left
    <3>1. InPreferredOrder(out, left, Q, P)
      BY <2>12 DEF Draining
    <3>2. \A i, j \in 1 .. Len(left) : left[i] = left[j] => i = j
      <4>1. /\ all \in Seq(Url) /\ Len(all) = Len(out) + Len(left)
            /\ \A i \in 1 .. Len(left) : all[Len(out) + i] = left[i]
        <5> HIDE DEF out, left
        <5>1. QED
          BY <1>1, Joined
      <4>2. Permuted(all, start.nodes)
        BY DEF Draining
      <4> HIDE DEF all, out, left
      <4>3. IsInjective(all) /\ DOMAIN all = 1 .. Len(out) + Len(left)
        BY <1>1, <2>12, <4>1, <4>2, PermutedBags
      <4> SUFFICES ASSUME NEW i \in 1 .. Len(left), NEW j \in 1 .. Len(left), left[i] = left[j]
                   PROVE  i = j
        OBVIOUS
      <4>4. /\ Len(out) + i \in 1 .. Len(out) + Len(left) /\ Len(out) + j \in 1 .. Len(out) + Len(left)
            /\ all[Len(out) + i] = all[Len(out) + j]
        <5>1. /\ Len(out) + i \in 1 .. Len(out) + Len(left)
              /\ Len(out) + j \in 1 .. Len(out) + Len(left)
          BY <1>1
        <5>2. all[Len(out) + i] = left[i] /\ all[Len(out) + j] = left[j]
          BY <4>1
        <5>3. QED
          BY <5>1, <5>2
      <4>5. Len(out) + i = Len(out) + j
        BY <4>3, <4>4 DEF IsInjective
      <4>6. QED
        BY <1>1, <4>5
    <3>3. \A x : Contains(plan.nodes, x) <=> Contains(left, x)
      BY <1>2, PermutedContains
    <3>4. \/ \E hit : /\ IsHit(hit, Q, left) /\ r.node = Q[hit]
                      /\ R = SubSeq(Q, hit + 1, Len(Q))
          \/ NoHit(Q, left) /\ R = <<>>
      <4>1. \/ \E hit : /\ IsHit(hit, Q, plan.nodes) /\ r.node = Q[hit]
                        /\ R = SubSeq(Q, hit + 1, Len(Q))
            \/ NoHit(Q, plan.nodes) /\ R = <<>>
        BY <1>2, <2>2 DEF Gives
      <4>2. \A hit : IsHit(hit, Q, plan.nodes) => IsHit(hit, Q, left)
        BY <3>3 DEF IsHit
      <4>3. NoHit(Q, plan.nodes) => NoHit(Q, left)
        BY <3>3 DEF NoHit
      <4> HIDE DEF Q, R
      <4>4. QED
        BY <4>1, <4>2, <4>3
    <3> HIDE DEF Q, R, P
    <3>5. InPreferredOrder(Append(out, r.node), rest, R, P)
      BY <1>1, <2>3, <2>4, <2>7, <3>1, <3>2, <3>4, NextKeepsPreferredOrder
    <3>6. QED
      BY <3>5 DEF new, R
  <2>13. ASSUME IsOrderedPlan(start)
         PROVE  IsOrderedPlan(r.plan) /\ new \o rest = start.nodes
    <3>1. IsOrderedPlan(acc.plan) /\ out \o left = start.nodes
      BY <2>13 DEF Draining
    <3>2. /\ plan.nodes = left /\ plan.preferred_nodes = <<>> /\ plan.deterministic_order
          /\ ~plan.sort_nodes
      BY <1>2, <3>1 DEF IsOrderedPlan
    <3>3. r.plan.preferred_nodes = <<>> /\ r.node = left[1] /\ rest = Tail(left)
      BY <2>2, <3>2 DEF Gives, rest
    <3>4. IsOrderedPlan(r.plan)
      BY <2>3, <3>2, <3>3 DEF IsOrderedPlan, GoesOn
    <3>5. left # <<>>
      BY <1>1, <2>7 , <2>4 DEF TakesOne
    <3>6. Append(out, left[1]) \o Tail(left) = out \o left
      BY <1>1, <3>5, HeadMoves
    <3>7. QED
      BY <3>1, <3>3, <3>4, <3>6 DEF new
  <2>14. Draining(next, start)
    BY <1>6, <2>3, <2>8, <2>9, <2>10, <2>11, <2>12, <2>13 DEF Draining, rest
  <2>15. QED
    BY <2>5, <2>8, <2>14 DEF next
<1>7. QED
  BY <1>5, <1>6

(* What DrainPlan returns.                                                 *)
Drained(out, start) ==
    /\ out \in Seq(Url) /\ Permuted(out, start.nodes)
    /\ start.nodes # <<>> => out[1] = NextInPlan(start).node
    /\ IsInjective(start.nodes) => OutIsOrdered(out, start.preferred_nodes)
    /\ IsOrderedPlan(start) => out = start.nodes

(* The loop ends with its nodes given out, once Next has returned the      *)
(* empty URL.                                                              *)
LEMMA DrainPlanDrains ==
    ASSUME NEW start \in Plan, HasDraws(start)
    PROVE  Drained(DrainPlan(start), start)
<1> DEFINE n == Len(start.nodes) + 1
           T == {acc \in Accumulator : Draining(acc, start)}
           base == [plan |-> start, out |-> <<>>, ended |-> FALSE]
           F == [k \in 1 .. n |-> [acc \in T |-> DrainStep(acc)]]
           Is(f) == f = [s \in SUBSET (1 .. n) |->
                           IF s = {} THEN base ELSE DrainStep(f[s \ {Max(s)}])]
           iter == CHOOSE f : Is(f)
           nodes == start.nodes
<1>1. nodes \in Seq(Url) /\ Len(nodes) \in Nat /\ n \in Nat /\ start.preferred_nodes \in Seq(Nat)
  BY DEF Plan
<1>2. base \in T
  BY DrainingStarts
<1>3. \A acc \in T : /\ DrainStep(acc) \in T
                     /\ DrainStep(acc).ended \/ Len(DrainStep(acc).out) = Len(acc.out) + 1
  BY DrainStepDrains
<1>4. DrainPlan(start) = iter[1 .. n].out
  <2> DEFINE turns == [i \in 1 .. n |-> i]
  <2>1. DOMAIN turns = 1 .. n
    OBVIOUS
  <2>2. DrainPlan(start) = FoldLeft(LAMBDA acc, i : DrainStep(acc), base, turns).out
    BY Zenon DEF DrainPlan
  <2> HIDE DEF turns, n, base
  <2>3. FoldLeft(LAMBDA acc, i : DrainStep(acc), base, turns) = iter[1 .. n]
    BY <2>1, Zenon DEF FoldLeft, MapThenFoldSet
  <2>4. QED
    BY <2>2, <2>3
<1>5. base.out = <<>> /\ ~base.ended
  OBVIOUS
<1> HIDE DEF n, T, base
<1>6. F \in [1 .. n -> [T -> T]]
  BY <1>3
<1>7. \A k \in 1 .. n, x \in T : F[k][x] = DrainStep(x)
  OBVIOUS
<1>8. \A s \in SUBSET (1 .. n) : s # {} => Max(s) \in 1 .. n /\ s \ {Max(s)} \in SUBSET (1 .. n)
  BY <1>1, MaxIsAPlace
<1>9. \E f \in [SUBSET (1 .. n) -> T] : IsFold(f, n, base, F)
  <2> HIDE DEF F
  <2>1. QED
    BY <1>1, <1>2, <1>6, FoldExists
<1>10. PICK f \in [SUBSET (1 .. n) -> T] : IsFold(f, n, base, F)
  BY <1>9
<1> HIDE DEF F
<1>11. Is(f)
  BY <1>7, <1>8, <1>10 DEF IsFold
<1>12. Is(iter)
  <2> HIDE DEF Is
  <2>1. QED
    BY <1>11
<1> HIDE DEF iter
<1>13. IsFoldIn(T, iter, n, base, F)
  BY <1>7, <1>8, <1>12 DEF IsFoldIn
<1>14. PICK h \in [0 .. n -> T] : IsRun(h, n, base, F) /\ h[n] = iter[1 .. n]
  <2>1. RunsTo(T, n, base, F, iter[1 .. n])
    BY <1>1, <1>2, <1>6, <1>13, FoldSteps
  <2>2. QED
    BY <2>1 DEF RunsTo
<1>15. \A k \in 1 .. n : k - 1 \in 0 .. n
  BY <1>1
<1>16. h[0] = base /\ \A k \in 1 .. n : h[k] = DrainStep(h[k - 1]) /\ h[k - 1] \in T
  BY <1>7, <1>14, <1>15 DEF IsRun
<1> DEFINE S == {k \in Nat : k <= n => h[k].ended \/ Len(h[k].out) = k}
<1>17. 0 \in S
  BY <1>5, <1>16
<1>18. ASSUME NEW k \in Nat, k \in S PROVE k + 1 \in S
  <2>1. CASE k + 1 <= n
    <3>1. k + 1 \in 1 .. n /\ (k + 1) - 1 = k /\ k <= n /\ k \in 0 .. n
      BY <1>1, <2>1
    <3>2. h[k + 1] = DrainStep(h[k]) /\ h[k] \in T
      BY <1>16, <3>1
    <3>3. h[k].ended \/ Len(h[k].out) = k
      BY <1>18, <3>1
    <3>4. h[k].ended => h[k + 1].ended
      <4>1. ASSUME h[k].ended PROVE DrainStep(h[k]) = [h[k] EXCEPT !.ended = TRUE]
        BY <4>1 DEF DrainStep
      <4>2. h[k] \in Accumulator
        BY <3>2 DEF T
      <4>3. QED
        BY <3>2, <4>1, <4>2 DEF Accumulator
    <3>5. h[k + 1].ended \/ Len(h[k + 1].out) = Len(h[k].out) + 1
      BY <1>3, <3>2
    <3>6. h[k + 1].ended \/ Len(h[k + 1].out) = k + 1
      BY <3>3, <3>4, <3>5
    <3>7. QED
      BY <3>6
  <2>2. QED
    BY <2>1
<1>19. h[n].ended \/ Len(h[n].out) = n
  <2> HIDE DEF S
  <2>1. \A k \in Nat : k \in S
    BY <1>17, <1>18, Induction
  <2>2. QED
    BY <1>1, <2>1 DEF S
<1> DEFINE acc == h[n]
           out == acc.out
           left == acc.plan.nodes
<1>20. acc \in Accumulator /\ Draining(acc, start)
  BY <1>1, <1>14 DEF T
<1> HIDE DEF acc
<1>21. out \in Seq(Url) /\ left \in Seq(Url) /\ Len(out) \in Nat /\ Len(left) \in Nat
  BY <1>20 DEF Accumulator, Plan
<1>22. Permuted(out \o left, nodes)
  BY <1>20 DEF Draining
<1> HIDE DEF out, left
<1>23. Len(out) + Len(left) = Len(nodes)
  <2>1. Len(out \o left) = Len(out) + Len(left)
    BY <1>21, Joined
  <2>2. QED
    BY <1>22, <2>1 DEF Permuted
<1>24. left = <<>>
  <2>1. Len(out) # n
    BY <1>1, <1>21, <1>23 DEF n
  <2>2. acc.ended
    BY <1>19, <2>1 DEF acc, out
  <2>3. QED
    BY <1>20, <2>2 DEF Draining, left
<1>25. out \o left = out
  BY <1>21, <1>24
<1>26. DrainPlan(start) = out
  BY <1>4, <1>14 DEF out, acc
<1>27. Permuted(out, nodes)
  BY <1>22, <1>25
<1>28. nodes # <<>> => out # <<>>
  <2>1. Len(left) = 0
    BY <1>24
  <2>2. QED
    BY <1>1, <1>21, <1>23, <2>1
<1>29. nodes # <<>> => out[1] = NextInPlan(start).node
  BY <1>20, <1>28 DEF Draining, out
<1>30. IsInjective(nodes) => OutIsOrdered(out, start.preferred_nodes)
  BY <1>20 DEF Draining, InPreferredOrder, out
<1>31. IsOrderedPlan(start) => out = nodes
  BY <1>20, <1>25 DEF Draining, out, left
<1>32. QED
  BY <1>21, <1>26, <1>27, <1>29, <1>30, <1>31 DEF Drained

(* What the property says of a drained plan.                               *)
LEMMA DrainedVisitsEveryEntryOnce ==
    ASSUME NEW plan \in Plan, NEW nodes, Drained(nodes, plan)
    PROVE  /\ ToBag(nodes) = ToBag(plan.nodes)
           /\ IsInjective(plan.nodes) =>
                 \A i, j \in DOMAIN nodes : \A k \in DOMAIN plan.preferred_nodes :
                    i < j /\ plan.preferred_nodes[k] = nodes[j] =>
                       \E l \in 1 .. k - 1 : plan.preferred_nodes[l] = nodes[i]
<1>1. nodes \in Seq(Url) /\ plan.nodes \in Seq(Url) /\ plan.preferred_nodes \in Seq(Nat)
  BY DEF Drained, Plan
<1>2. ToBag(nodes) = ToBag(plan.nodes)
  BY <1>1, PermutedBags DEF Drained
<1>3. DOMAIN nodes = 1 .. Len(nodes) /\ DOMAIN plan.preferred_nodes = 1 .. Len(plan.preferred_nodes)
  BY <1>1
<1>4. ASSUME IsInjective(plan.nodes)
      PROVE  \A i, j \in DOMAIN nodes : \A k \in DOMAIN plan.preferred_nodes :
                i < j /\ plan.preferred_nodes[k] = nodes[j] =>
                   \E l \in 1 .. k - 1 : plan.preferred_nodes[l] = nodes[i]
  <2>1. OutIsOrdered(nodes, plan.preferred_nodes)
    BY <1>4 DEF Drained
  <2>2. QED
    BY <1>3, <2>1, Zenon DEF OutIsOrdered
<1>5. QED
  BY <1>2, <1>4

-----------------------------------------------------------------------------
(* Part 5.  Plans of a key.                                                *)

(* A plan the constructors make is a plan.                                 *)
LEMMA ConstructedIsPlan ==
    ASSUME NEW nodes \in Seq(Url), NEW draws \in Seq(Nat), NEW d \in BOOLEAN, NEW s \in BOOLEAN,
           NEW preferred \in Seq(Nat), d \/ Len(nodes) <= Len(draws)
    PROVE  LET plan == Constructed(nodes, draws, d, s, preferred)
           IN  /\ plan \in Plan /\ HasDraws(plan) /\ plan.nodes = nodes /\ plan.draws = draws
               /\ plan.deterministic_order = d /\ plan.sort_nodes = s
               /\ plan.preferred_nodes = preferred /\ ~plan.prepared
  BY DEF Constructed, Plan, HasDraws

(* An ordered plan gives out the list it was made of, when that has every  *)
(* node once.                                                              *)
LEMMA OrderedPlanDrains ==
    ASSUME NEW nodes \in Seq(Url), IsInjective(nodes)
    PROVE  DrainPlan(FromOrderedNodes(nodes)) = nodes
<1> DEFINE none == <<>>
<1>1. none \in Seq(Url) /\ none \in Seq(Nat) /\ Len(none) = 0 /\ none \o nodes = nodes
  OBVIOUS
<1>2. AppendNodes(none, nodes, <<>>) = none \o nodes
  <2>1. \A i \in 1 .. Len(none), j \in 1 .. Len(nodes) : none[i] # nodes[j]
    BY <1>1
  <2> HIDE DEF none
  <2>2. QED
    BY <1>1, <2>1, AppendNewNodes
<1>3. DedupePreservingOrder(nodes) = nodes
  BY <1>1, <1>2 DEF DedupePreservingOrder
<1> DEFINE plan == FromOrderedNodes(nodes)
<1>4. plan = Constructed(nodes, none, TRUE, FALSE, none)
  BY <1>3 DEF FromOrderedNodes
<1> HIDE DEF plan, none
<1>5. plan \in Plan /\ HasDraws(plan) /\ plan.nodes = nodes
  BY <1>1, <1>4 DEF Constructed, Plan, HasDraws
<1>6. plan.deterministic_order /\ ~plan.sort_nodes /\ plan.preferred_nodes = none
  BY <1>1, <1>4 DEF Constructed
<1>7. IsOrderedPlan(plan)
  BY <1>6 DEF IsOrderedPlan, none
<1>8. Drained(DrainPlan(plan), plan)
  BY <1>5, DrainPlanDrains
<1>9. QED
  BY <1>5, <1>7, <1>8 DEF Drained, plan

(* Increasing lists have every node once.                                  *)
LEMMA IncreasingIsInjective ==
    ASSUME NEW s \in Seq(Nat), Increasing(s)
    PROVE  IsInjective(s)
<1>1. DOMAIN s = 1 .. Len(s) /\ \A i \in 1 .. Len(s) : s[i] \in Nat /\ i \in Nat
  OBVIOUS
<1>2. ASSUME NEW a \in 1 .. Len(s), NEW b \in 1 .. Len(s), s[a] = s[b] PROVE a = b
  <2>1. s[a] \in Nat /\ ~(a < b) /\ ~(b < a)
    BY <1>1, <1>2 DEF Increasing
  <2>2. QED
    BY <1>1, <2>1
<1>3. QED
  BY <1>1, <1>2 DEF IsInjective

(* A list with every node once has as many entries as nodes.               *)
LEMMA InjectiveCount ==
    ASSUME NEW X, NEW s \in Seq(X), IsInjective(s)
    PROVE  Cardinality(ToSet(s)) = Len(s)
<1>1. Len(s) \in Nat /\ DOMAIN s = 1 .. Len(s) /\ ToSet(s) = {s[i] : i \in 1 .. Len(s)}
  BY EntriesAreFinite
<1> DEFINE A == 1 .. Len(s)
           B == ToSet(s)
<1>2. s \in [A -> B] /\ \A b \in B : \E a \in A : s[a] = b
  BY <1>1
<1>3. IsFiniteSet(A) /\ Cardinality(A) = Len(s)
  BY <1>1, FS_Interval
<1> HIDE DEF A, B
<1>4. s \in Bijection(A, B)
  BY <1>2 DEF Bijection, Injection, Surjection
<1>5. ExistsBijection(A, B)
  BY <1>4 DEF ExistsBijection
<1>6. QED
  BY <1>3, <1>5, FS_Bijection DEF B

(* Sorting an increasing list leaves it as it is.                          *)
LEMMA SortedAlready ==
    ASSUME NEW s \in Seq(Nat), Increasing(s)
    PROVE  SortNodes(s) = s /\ SortAndDedupeNodes(s) = s
<1> DEFINE t == SortNodes(s)
           u == SortAndDedupeNodes(s)
<1>1. IsInjective(s)
  BY IncreasingIsInjective
<1>2. /\ t \in Seq(Nat) /\ Permuted(t, s)
      /\ \A i, j \in 1 .. Len(s) : i < j => t[i] <= t[j]
  BY SortNodesPermutes
<1>3. u \in Seq(Nat) /\ ToSet(u) = ToSet(s) /\ Increasing(u)
  BY SortAndDedupeSorts
<1> HIDE DEF t, u
<1>4. Len(t) = Len(s) /\ ToSet(t) = ToSet(s) /\ IsInjective(t)
  BY <1>1, <1>2, PermutedBags DEF Permuted
<1>5. Increasing(t)
  <2>1. DOMAIN t = 1 .. Len(s) /\ \A i \in 1 .. Len(s) : t[i] \in Nat /\ i \in Nat
    BY <1>2, <1>4
  <2>2. ASSUME NEW i \in 1 .. Len(s), NEW j \in 1 .. Len(s), i < j PROVE t[i] < t[j]
    <3>1. t[i] # t[j]
      BY <1>4, <2>1, <2>2 DEF IsInjective
    <3>2. QED
      BY <1>2, <2>1, <2>2, <3>1
  <2>3. QED
    BY <1>4, <2>2 DEF Increasing
<1>6. t = s
  BY <1>2, <1>4, <1>5, IncreasingIsUnique
<1>7. Len(u) = Len(s)
  <2>1. IsInjective(u)
    BY <1>3, IncreasingIsInjective
  <2>2. Cardinality(ToSet(s)) = Len(s) /\ Cardinality(ToSet(u)) = Len(u)
    BY <1>1, <1>3, <2>1, InjectiveCount
  <2>3. QED
    BY <1>3, <2>2
<1>8. u = s
  BY <1>3, <1>7, IncreasingIsUnique
<1>9. QED
  BY <1>6, <1>8 DEF t, u

(* The entries of two lists, one behind the other, are those of both.      *)
LEMMA JoinedEntries ==
    ASSUME NEW X, NEW s \in Seq(X), NEW t \in Seq(X)
    PROVE  /\ ToSet(s \o t) = ToSet(s) \cup ToSet(t)
           /\ IsInjective(s) /\ IsInjective(t) /\ ToSet(s) \cap ToSet(t) = {} => IsInjective(s \o t)
<1> DEFINE u == s \o t
           m == Len(s)
           l == Len(t)
<1>1. /\ m \in Nat /\ l \in Nat /\ u \in Seq(X) /\ Len(u) = m + l
      /\ \A i \in 1 .. m : u[i] = s[i]
      /\ \A i \in 1 .. l : u[m + i] = t[i]
  BY Joined
<1>2. DOMAIN u = 1 .. m + l /\ DOMAIN s = 1 .. m /\ DOMAIN t = 1 .. l
  BY <1>1
<1> HIDE DEF u, m, l
<1>3. ASSUME NEW i \in 1 .. m + l
      PROVE  \/ i \in 1 .. m /\ u[i] = s[i]
             \/ i - m \in 1 .. l /\ m + (i - m) = i /\ u[i] = t[i - m]
  <2>1. i \in 1 .. m \/ (i - m \in 1 .. l /\ m + (i - m) = i)
    BY <1>1
  <2>2. QED
    BY <1>1, <2>1
<1>4. ToSet(s) = {s[i] : i \in 1 .. m} /\ ToSet(t) = {t[i] : i \in 1 .. l}
  BY <1>2 DEF ToSet
<1>5. ToSet(u) = {u[i] : i \in 1 .. m + l}
  BY <1>2 DEF ToSet
<1> DEFINE A == ToSet(s)
           B == ToSet(t)
           C == ToSet(u)
<1>6. \A i \in 1 .. m : s[i] \in A /\ i \in 1 .. m + l
  BY <1>1, <1>4
<1>7. \A i \in 1 .. l : t[i] \in B /\ m + i \in 1 .. m + l
  BY <1>1, <1>4
<1>8. ASSUME NEW x \in A \cup B PROVE x \in C
  <2>1. CASE x \in A
    <3>1. PICK i \in 1 .. m : x = s[i]
      BY <1>4, <2>1
    <3>2. QED
      BY <1>1, <1>5, <1>6, <3>1
  <2>2. CASE x \in B
    <3>1. PICK i \in 1 .. l : x = t[i]
      BY <1>4, <2>2
    <3>2. QED
      BY <1>1, <1>5, <1>7, <3>1
  <2>3. QED
    BY <2>1, <2>2
<1>9. ASSUME NEW x \in C PROVE x \in A \cup B
  <2>1. PICK i \in 1 .. m + l : x = u[i]
    BY <1>5
  <2>2. QED
    BY <1>3, <1>6, <1>7, <2>1
<1>10. ASSUME IsInjective(s), IsInjective(t), A \cap B = {},
              NEW a \in 1 .. m + l, NEW b \in 1 .. m + l, u[a] = u[b]
       PROVE  a = b
  <2>1. \A i \in 1 .. m, j \in 1 .. l : s[i] # t[j]
    BY <1>6, <1>7, <1>10
  <2> HIDE DEF A, B
  <2>2. CASE a \in 1 .. m /\ b \in 1 .. m
    BY <1>1, <1>2, <1>10, <2>2 DEF IsInjective
  <2>3. CASE a \in 1 .. m /\ b \notin 1 .. m
    BY <1>1, <1>3, <1>10, <2>1, <2>3
  <2>4. CASE a \notin 1 .. m /\ b \in 1 .. m
    BY <1>1, <1>3, <1>10, <2>1, <2>4
  <2>5. CASE a \notin 1 .. m /\ b \notin 1 .. m
    <3>1. a - m \in 1 .. l /\ b - m \in 1 .. l /\ t[a - m] = t[b - m]
      BY <1>3, <1>10, <2>5
    <3>2. a - m = b - m
      BY <1>2, <1>10, <3>1 DEF IsInjective
    <3>3. QED
      BY <1>1, <3>2
  <2>6. QED
    BY <2>2, <2>3, <2>4, <2>5
<1>11. C = A \cup B
  <2> HIDE DEF A, B, C
  <2>1. QED
    BY <1>8, <1>9
<1>12. IsInjective(s) /\ IsInjective(t) /\ A \cap B = {} => IsInjective(u)
  BY <1>2, <1>10 DEF IsInjective
<1>13. QED
  BY <1>11, <1>12 DEF u

(* The active nodes, sorted and in the order a seed draws.                 *)
SeededActive(source, hash) ==
    DrainPlan(WithSortedSeed(SortAndDedupeNodes(source.active), Draws(hash)))

(* They are the active nodes, each once, and the first is the one that     *)
(* FirstNodeWithSeed names.                                                *)
LEMMA SeededActiveNodes ==
    ASSUME NEW source, NEW hash, IsSource(source, {hash}), source.active # <<>>
    PROVE  LET D == SeededActive(source, hash)
           IN  /\ D \in Seq(Url) /\ IsInjective(D) /\ ToSet(D) = ToSet(source.active)
               /\ Len(D) > 0
               /\ D[1] = FirstNodeWithSeed(source.active, Draws(hash))
<1> DEFINE a == source.active
           d == Draws(hash)
           act == SortAndDedupeNodes(a)
           plan == WithSortedSeed(act, d)
           D == SeededActive(source, hash)
           none == <<>>
<1>1. a \in Seq(Url) /\ d \in Seq(Nat) /\ Len(a) <= Len(d) /\ Len(a) \in Nat /\ Len(d) \in Nat
      /\ Len(a) # 0
  BY DEF IsSource
<1>2. act \in Seq(Url) /\ ToSet(act) = ToSet(a) /\ Increasing(act) /\ Len(act) <= Len(a)
  <2>1. Url \in SUBSET Nat
    BY DEF Url
  <2>2. QED
    BY <1>1, <2>1, SortAndDedupeSorts
<1>3. plan = Constructed(act, d, FALSE, TRUE, none) /\ none \in Seq(Nat)
  BY DEF WithSortedSeed
<1>4. D = DrainPlan(plan)
  BY DEF SeededActive
<1>5. FirstNodeWithSeed(a, d) =
        IF act = <<>> THEN EmptyUrl ELSE act[DrawBelow(Head(d), Len(act)) + 1]
  BY DEF FirstNodeWithSeed
<1> HIDE DEF a, d, act, plan, D, none
<1>6. Len(act) \in Nat /\ act \in Seq(Nat) /\ IsInjective(act)
  <2>1. act \in Seq(Nat)
    BY <1>2 DEF Url
  <2>2. QED
    BY <1>2, <2>1, IncreasingIsInjective
<1>7. plan \in Plan /\ HasDraws(plan) /\ plan.nodes = act /\ plan.draws = d /\ ~plan.deterministic_order
      /\ plan.sort_nodes /\ plan.preferred_nodes = none /\ ~plan.prepared
  BY <1>1, <1>2, <1>3, <1>6 DEF Constructed, Plan, HasDraws
<1>8. Drained(D, plan)
  BY <1>4, <1>7, DrainPlanDrains
<1>9. D \in Seq(Url) /\ Permuted(D, act)
  BY <1>7, <1>8 DEF Drained
<1>10. IsInjective(D) /\ ToSet(D) = ToSet(a) /\ Len(D) = Len(act)
  BY <1>2, <1>6, <1>9, PermutedBags DEF Permuted
<1>11. act # <<>> /\ Len(act) # 0
  <2>1. a[1] \in ToSet(a)
    BY <1>1 DEF ToSet
  <2>2. DOMAIN act # {}
    BY <1>2, <2>1 DEF ToSet
  <2>3. QED
    BY <1>6, <2>2
<1>12. D[1] = NextInPlan(plan).node
  BY <1>7, <1>8, <1>11 DEF Drained
<1> DEFINE q == Prepare(plan)
<1>13. q.nodes = SortNodes(act) /\ q.preferred_nodes = none /\ ~q.deterministic_order /\ q.draws = d
  BY <1>7, PreparePermutes
<1>14. q.nodes = act
  BY <1>2, <1>6, <1>13, SortedAlready
<1>15. Gives(NextInPlan(plan).node, NextInPlan(plan).plan, q)
  BY <1>7, <1>11, <1>14, NextGives
<1> HIDE DEF q
<1>16. NextInPlan(plan).node = act[DrawBelow(Head(d), Len(act)) + 1]
  BY <1>13, <1>14, <1>15 DEF Gives, none
<1>17. QED
  BY <1>5, <1>6, <1>9, <1>10, <1>11, <1>12, <1>16 DEF a, d, D

(* NodesMissingFrom keeps the nodes that are not present, each once.       *)
LEMMA MissingNodes ==
    ASSUME NEW nodes \in Seq(Url), NEW present \in Seq(Url)
    PROVE  LET missing == NodesMissingFrom(nodes, present)
           IN  /\ missing \in Seq(Url) /\ IsInjective(missing)
               /\ ToSet(missing) = ToSet(nodes) \ ToSet(present)
<1> DEFINE none == <<>>
           missing == NodesMissingFrom(nodes, present)
<1>1. none \in Seq(Url) /\ IsInjective(none) /\ Len(none) = 0
  BY DEF IsInjective
<1>2. missing = AppendNodes(none, nodes, present)
  BY DEF NodesMissingFrom
<1>3. nodes \in Seq(Nat) /\ Len(nodes) \in Nat /\ \A i \in 1 .. Len(nodes) : nodes[i] # EmptyUrl
  BY DEF Url
<1> HIDE DEF none, missing
<1>4. Added(missing, none, nodes, Len(nodes), present)
  BY <1>1, <1>2, <1>3, AppendNodesAdds
<1>5. missing \in Seq(Url) /\ IsInjective(missing)
  BY <1>4 DEF Added
<1>6. /\ DOMAIN missing = 1 .. Len(missing) /\ DOMAIN nodes = 1 .. Len(nodes)
      /\ DOMAIN present = 1 .. Len(present)
  BY <1>5
<1>7. \A x : (x \in ToSet(present) <=> Contains(present, x))
  BY <1>6 DEF ToSet, Contains
<1>8. ASSUME NEW i \in 1 .. Len(nodes), ~Contains(present, nodes[i])
      PROVE  \E j \in 1 .. Len(missing) : missing[j] = nodes[i]
  BY <1>3, <1>4, <1>8 DEF Added
<1>9. ASSUME NEW j \in 1 .. Len(missing)
      PROVE  ~Contains(present, missing[j]) /\ \E a \in 1 .. Len(nodes) : nodes[a] = missing[j]
  <2>1. j \in Len(none) + 1 .. Len(missing)
    BY <1>1
  <2>2. QED
    BY <1>4, <2>1 DEF Added
<1> DEFINE A == ToSet(missing)
           B == ToSet(nodes) \ ToSet(present)
<1>10. ASSUME NEW x \in A PROVE x \in B
  <2>1. PICK j \in 1 .. Len(missing) : x = missing[j]
    BY <1>6 DEF ToSet
  <2>2. PICK a \in 1 .. Len(nodes) : nodes[a] = x
    BY <1>9, <2>1
  <2>3. x \in ToSet(nodes)
    BY <1>6, <2>2 DEF ToSet
  <2>4. QED
    BY <1>7, <1>9, <2>1, <2>3
<1>11. ASSUME NEW x \in B PROVE x \in A
  <2>1. PICK i \in 1 .. Len(nodes) : x = nodes[i]
    BY <1>6 DEF ToSet
  <2>2. ~Contains(present, nodes[i])
    BY <1>7, <2>1
  <2>3. PICK j \in 1 .. Len(missing) : missing[j] = x
    BY <1>8, <2>1, <2>2
  <2>4. QED
    BY <1>6, <2>3 DEF ToSet
<1>12. A = B
  <2> HIDE DEF A, B
  <2>1. QED
    BY <1>10, <1>11
<1>13. QED
  BY <1>5, <1>12 DEF missing

(* Lists without a common node have no equal entries.                      *)
LEMMA DisjointEntries ==
    ASSUME NEW X, NEW s \in Seq(X), NEW t \in Seq(X), ToSet(s) \cap ToSet(t) = {}
    PROVE  \A i \in 1 .. Len(s), j \in 1 .. Len(t) : s[i] # t[j]
<1>1. DOMAIN s = 1 .. Len(s) /\ DOMAIN t = 1 .. Len(t)
  OBVIOUS
<1>2. \A i \in 1 .. Len(s), j \in 1 .. Len(t) : s[i] \in ToSet(s) /\ t[j] \in ToSet(t)
  BY <1>1 DEF ToSet
<1>3. QED
  BY <1>2

(* The nodes that only the later read has.                                 *)
SampledFor(source, hash) ==
    NodesMissingFrom(source.for_hash[hash], SortAndDedupeNodes(source.active))

(* A key's plan gives out the nodes only the later read has, and then the  *)
(* active nodes as the seed draws them.                                    *)
LEMMA KeyedPlanNodes ==
    ASSUME NEW source, NEW hash, IsSource(source, {hash}), source.active # <<>>
    PROVE  LET M == SampledFor(source, hash)
               D == SeededActive(source, hash)
           IN  /\ DrainPlan(QueryPlanForPartitionKey(source, hash)) = M \o D
               /\ M \in Seq(Url) /\ IsInjective(M)
               /\ ToSet(M) = ToSet(source.for_hash[hash]) \ ToSet(source.active)
               /\ IsInjective(M \o D) /\ M \o D \in Seq(Url)
<1> DEFINE M == SampledFor(source, hash)
           D == SeededActive(source, hash)
           f == source.for_hash[hash]
           act == SortAndDedupeNodes(source.active)
           plan == QueryPlanForPartitionKey(source, hash)
<1>1. f \in Seq(Url) /\ source.active \in Seq(Url)
  BY DEF IsSource, IsRead
<1>2. act \in Seq(Url) /\ ToSet(act) = ToSet(source.active)
  <2>1. Url \in SUBSET Nat
    BY DEF Url
  <2>2. QED
    BY <1>1, <2>1, SortAndDedupeSorts
<1>3. plan = FromOrderedNodes(AppendMissing(M, D))
  BY DEF QueryPlanForPartitionKey, SampledFor, SeededActive
<1>4. D \in Seq(Url) /\ IsInjective(D) /\ ToSet(D) = ToSet(source.active)
  BY SeededActiveNodes
<1>5. M \in Seq(Url) /\ IsInjective(M) /\ ToSet(M) = ToSet(f) \ ToSet(source.active)
  <2> HIDE DEF f, act
  <2>1. M = NodesMissingFrom(f, act)
    BY DEF SampledFor, f, act
  <2>2. QED
    BY <1>1, <1>2, <2>1, MissingNodes
<1> HIDE DEF M, D, plan
<1>6. ToSet(M) \cap ToSet(D) = {}
  BY <1>4, <1>5
<1>7. AppendMissing(M, D) = M \o D
  <2>1. \A i \in 1 .. Len(M), j \in 1 .. Len(D) : M[i] # D[j]
    BY <1>4, <1>5, <1>6, DisjointEntries
  <2>2. QED
    BY <1>4, <1>5, <2>1, AppendNewNodes DEF AppendMissing
<1>8. M \o D \in Seq(Url)
  BY <1>4, <1>5
<1>9. IsInjective(M \o D)
  BY <1>4, <1>5, <1>6, JoinedEntries
<1>10. DrainPlan(plan) = M \o D
  <2> DEFINE s == M \o D
  <2>1. s \in Seq(Url) /\ IsInjective(s) /\ plan = FromOrderedNodes(s)
    BY <1>3, <1>7, <1>8, <1>9
  <2> HIDE DEF s
  <2>2. DrainPlan(plan) = s
    BY <2>1, OrderedPlanDrains
  <2>3. QED
    BY <2>2 DEF s
<1>11. QED
  BY <1>5, <1>8, <1>9, <1>10 DEF M, D, plan, f

(* The first node of S in a list that has such nodes only behind M.        *)
LEMMA FirstInJoined ==
    ASSUME NEW X, NEW M \in Seq(X), NEW D \in Seq(X), NEW S, Len(D) > 0, D[1] \in S,
           ToSet(M) \cap S = {}
    PROVE  FirstIn(M \o D, S) = D[1]
<1> DEFINE s == M \o D
           m == Len(M)
           I == {i \in 1 .. Len(s) : s[i] \in S}
<1>1. /\ m \in Nat /\ Len(D) \in Nat /\ Len(s) = m + Len(D)
      /\ \A i \in 1 .. m : s[i] = M[i]
      /\ \A i \in 1 .. Len(D) : s[m + i] = D[i]
  BY Joined
<1>2. \A i \in 1 .. m : M[i] \notin S
  <2>1. DOMAIN M = 1 .. m
    OBVIOUS
  <2>2. \A i \in 1 .. m : M[i] \in ToSet(M)
    BY <2>1 DEF ToSet
  <2>3. QED
    BY <2>2
<1> HIDE DEF s, m
<1>3. s[m + 1] = D[1] /\ m + 1 \in I
  BY <1>1
<1>4. I \in SUBSET Nat /\ I # {}
  BY <1>1, <1>3
<1>5. Min(I) \in I /\ \A y \in I : Min(I) <= y
  <2> HIDE DEF I
  <2>1. QED
    BY <1>4, MinIsLeast
<1>6. FirstIn(s, S) = s[Min(I)]
  BY <1>4, Zenon DEF FirstIn, SelectInSeq
<1> DEFINE k == Min(I)
<1>7. k \in 1 .. Len(s) /\ s[k] \in S /\ k <= m + 1
  BY <1>3, <1>5
<1> HIDE DEF k, I
<1>8. ~(k \in 1 .. m)
  BY <1>1, <1>2, <1>7
<1>9. k = m + 1
  BY <1>1, <1>7, <1>8
<1>10. QED
  BY <1>3, <1>6, <1>9 DEF k, s

(* The node a key is sent to is the one FirstNodeWithSeed names.           *)
LEMMA NodeOfKeyIsFirst ==
    ASSUME NEW source, NEW hash, IsSource(source, {hash}), source.active # <<>>
    PROVE  NodeOfKey(source, hash) = FirstNodeWithSeed(source.active, Draws(hash))
<1> DEFINE M == SampledFor(source, hash)
           D == SeededActive(source, hash)
           S == ToSet(source.active)
<1>1. DrainPlan(QueryPlanForPartitionKey(source, hash)) = M \o D
  BY KeyedPlanNodes
<1>2. M \in Seq(Url) /\ ToSet(M) \cap S = {}
  BY KeyedPlanNodes
<1>3. /\ D \in Seq(Url) /\ ToSet(D) = S /\ Len(D) > 0
      /\ D[1] = FirstNodeWithSeed(source.active, Draws(hash))
  BY SeededActiveNodes
<1> HIDE DEF M, D, S
<1>4. D[1] \in S
  <2>1. 1 \in DOMAIN D
    BY <1>3
  <2>2. D[1] \in ToSet(D)
    BY <2>1 DEF ToSet
  <2>3. QED
    BY <1>3, <2>2
<1>5. FirstIn(M \o D, S) = D[1]
  BY <1>2, <1>3, <1>4, FirstInJoined
<1>6. QED
  BY <1>1, <1>3, <1>5 DEF NodeOfKey, S

(* What the property says of a key's plan.                                 *)
LEMMA KeyedPlanKeepsEveryNode ==
    ASSUME NEW source, NEW hash, IsSource(source, {hash})
    PROVE  LET active == ToSet(source.active)
               nodes == DrainPlan(QueryPlanForPartitionKey(source, hash))
           IN  /\ IsInjective(nodes)
               /\ ToSet(nodes) = active \cup ToSet(source.for_hash[hash])
               /\ \A i, j \in DOMAIN nodes : nodes[i] \notin active /\ nodes[j] \in active => i < j
               /\ active # {} =>
                     FirstIn(nodes, active) = FirstNodeWithSeed(source.active, Draws(hash))
<1> DEFINE active == ToSet(source.active)
           nodes == DrainPlan(QueryPlanForPartitionKey(source, hash))
           f == source.for_hash[hash]
           d == Draws(hash)
<1>1. f \in Seq(Url) /\ IsInjective(f) /\ d \in Seq(Nat) /\ Len(f) <= Len(d)
  BY DEF IsSource, IsRead
<1>2. CASE source.active = <<>>
  <2>1. active = {}
    BY <1>2 DEF ToSet
  <2> DEFINE none == <<>>
             plan == WithSortedSeed(f, d)
  <2>2. plan = Constructed(f, d, FALSE, TRUE, none) /\ none \in Seq(Nat)
    BY DEF WithSortedSeed
  <2>3. nodes = DrainPlan(plan)
    BY <1>2 DEF QueryPlanForPartitionKey
  <2> HIDE DEF f, d, plan, none, nodes
  <2>4. plan \in Plan /\ HasDraws(plan) /\ plan.nodes = f
    BY <1>1, <2>2 DEF Constructed, Plan, HasDraws
  <2>5. nodes \in Seq(Url) /\ Permuted(nodes, f)
    BY <2>3, <2>4, DrainPlanDrains DEF Drained
  <2>6. IsInjective(nodes) /\ ToSet(nodes) = ToSet(f)
    BY <1>1, <2>5, PermutedBags
  <2>7. QED
    BY <2>1, <2>6 DEF nodes, f
<1>3. CASE source.active # <<>>
  <2> DEFINE M == SampledFor(source, hash)
             D == SeededActive(source, hash)
  <2>1. /\ nodes = M \o D /\ M \in Seq(Url) /\ ToSet(M) = ToSet(f) \ active
        /\ IsInjective(nodes)
    BY <1>3, KeyedPlanNodes
  <2>2. D \in Seq(Url) /\ ToSet(D) = active
    BY <1>3, SeededActiveNodes
  <2>3. FirstIn(nodes, active) = FirstNodeWithSeed(source.active, d)
    BY <1>3, NodeOfKeyIsFirst DEF NodeOfKey
  <2> HIDE DEF nodes, M, D, active, f, d
  <2>4. ToSet(nodes) = active \cup ToSet(f)
    <3>1. ToSet(nodes) = ToSet(M) \cup ToSet(D)
      BY <2>1, <2>2, JoinedEntries
    <3>2. QED
      BY <2>1, <2>2, <3>1
  <2>5. /\ Len(M) \in Nat /\ Len(D) \in Nat /\ Len(nodes) = Len(M) + Len(D)
        /\ \A i \in 1 .. Len(M) : nodes[i] = M[i]
        /\ \A i \in 1 .. Len(D) : nodes[Len(M) + i] = D[i]
    BY <2>1, <2>2, Joined
  <2>6. /\ DOMAIN nodes = 1 .. Len(M) + Len(D) /\ DOMAIN M = 1 .. Len(M) /\ DOMAIN D = 1 .. Len(D)
    BY <2>1, <2>2, <2>5
  <2>7. ASSUME NEW i \in DOMAIN nodes, NEW j \in DOMAIN nodes, nodes[i] \notin active, nodes[j] \in active
        PROVE  i < j
    <3>1. i \in 1 .. Len(M)
      <4>1. CASE i > Len(M)
        <5>1. i - Len(M) \in 1 .. Len(D) /\ Len(M) + (i - Len(M)) = i
          BY <2>5, <2>6, <4>1
        <5>2. nodes[i] = D[i - Len(M)]
          BY <2>5, <5>1
        <5>3. nodes[i] \in ToSet(D)
          BY <2>6, <5>1, <5>2 DEF ToSet
        <5>4. QED
          BY <2>2, <2>7, <5>3
      <4>2. QED
        BY <2>5, <2>6, <4>1
    <3>2. ~(j \in 1 .. Len(M))
      <4>1. ASSUME j \in 1 .. Len(M) PROVE FALSE
        <5>1. nodes[j] \in ToSet(M)
          BY <2>5, <2>6, <4>1 DEF ToSet
        <5>2. QED
          BY <2>1, <2>7, <5>1
      <4>2. QED
        BY <4>1
    <3>3. QED
      BY <2>5, <2>6, <3>1, <3>2
  <2>8. QED
    BY <2>1, <2>3, <2>4, <2>7 DEF nodes, active, f, d
<1>4. QED
  BY <1>2, <1>3

-----------------------------------------------------------------------------
(* Plans of a batch.                                                       *)

BatchWrite == [first : Nat \cup {NoHash}, second : Nat \cup {NoHash}]

(* hashes are those of the first k writes whose key is known from the      *)
(* start.                                                                  *)
HashesOf(hashes, writes, k) ==
    /\ \A i \in 1 .. k : writes[i].first # NoHash => Contains(hashes, writes[i].first)
    /\ \A j \in 1 .. Len(hashes) :
          \E i \in 1 .. k : writes[i].first # NoHash /\ hashes[j] = writes[i].first

(* BatchWriteHashes has the hashes of the writes whose key is known from   *)
(* the start.                                                              *)
LEMMA BatchHashes ==
    ASSUME NEW writes \in Seq(BatchWrite)
    PROVE  /\ BatchWriteHashes(writes) \in Seq(Int)
           /\ HashesOf(BatchWriteHashes(writes), writes, Len(writes))
<1> DEFINE n == Len(writes)
           T == Seq(Int)
           none == <<>>
           Step(acc, w) == IF w.first # NoHash THEN Append(acc, w.first) ELSE acc
           F == [k \in 1 .. n |-> [acc \in T |-> Step(acc, writes[k])]]
           Is(f) == f = [s \in SUBSET (1 .. n) |->
                           IF s = {} THEN none ELSE Step(f[s \ {Max(s)}], writes[Max(s)])]
           iter == CHOOSE f : Is(f)
<1>1. /\ n \in Nat /\ DOMAIN writes = 1 .. n /\ none \in T /\ Len(none) = 0
      /\ \A k \in 1 .. n : writes[k] \in BatchWrite
  OBVIOUS
<1>2. \A acc \in T, w \in BatchWrite : Step(acc, w) \in T
  BY DEF BatchWrite, NoHash
<1>3. BatchWriteHashes(writes) = iter[1 .. n]
  BY <1>1, Zenon DEF BatchWriteHashes, FoldLeft, MapThenFoldSet
<1> HIDE DEF n, T, none, Step
<1>4. F \in [1 .. n -> [T -> T]]
  BY <1>1, <1>2
<1>5. \A k \in 1 .. n, x \in T : F[k][x] = Step(x, writes[k])
  OBVIOUS
<1>6. \A s \in SUBSET (1 .. n) : s # {} => Max(s) \in 1 .. n /\ s \ {Max(s)} \in SUBSET (1 .. n)
  BY <1>1, MaxIsAPlace
<1>7. \E f \in [SUBSET (1 .. n) -> T] : IsFold(f, n, none, F)
  <2> HIDE DEF F
  <2>1. QED
    BY <1>1, <1>4, FoldExists
<1>8. PICK f \in [SUBSET (1 .. n) -> T] : IsFold(f, n, none, F)
  BY <1>7
<1> HIDE DEF F
<1>9. Is(f)
  BY <1>5, <1>6, <1>8 DEF IsFold
<1>10. Is(iter)
  <2> HIDE DEF Is
  <2>1. QED
    BY <1>9
<1> HIDE DEF iter
<1>11. IsFoldIn(T, iter, n, none, F)
  BY <1>5, <1>6, <1>10 DEF IsFoldIn
<1>12. PICK h \in [0 .. n -> T] : IsRun(h, n, none, F) /\ h[n] = iter[1 .. n]
  <2>1. RunsTo(T, n, none, F, iter[1 .. n])
    BY <1>1, <1>4, <1>11, FoldSteps
  <2>2. QED
    BY <2>1 DEF RunsTo
<1>13. \A k \in 1 .. n : k - 1 \in 0 .. n
  BY <1>1
<1>14. h[0] = none /\ \A k \in 1 .. n : h[k] = Step(h[k - 1], writes[k])
  BY <1>5, <1>12, <1>13 DEF IsRun
<1> DEFINE S == {k \in Nat : k <= n => HashesOf(h[k], writes, k)}
<1>15. 0 \in S
  BY <1>1, <1>14 DEF HashesOf
<1>16. ASSUME NEW k \in Nat, k \in S PROVE k + 1 \in S
  <2> SUFFICES ASSUME k + 1 <= n PROVE HashesOf(h[k + 1], writes, k + 1)
    OBVIOUS
  <2>1. k + 1 \in 1 .. n /\ (k + 1) - 1 = k /\ k \in 0 .. n
    BY <1>1
  <2> DEFINE w == writes[k + 1]
             old == h[k]
             new == h[k + 1]
  <2>2. /\ new = Step(old, w) /\ old \in T /\ w \in BatchWrite /\ HashesOf(old, writes, k)
    BY <1>1, <1>12, <1>14, <1>16, <2>1
  <2> HIDE DEF new, old
  <2>3. \A i \in 1 .. k + 1 : i \in 1 .. k \/ i = k + 1
    OBVIOUS
  <2>4. \A i \in 1 .. k : i \in 1 .. k + 1
    OBVIOUS
  <2>5. CASE w.first # NoHash
    <3>1. new = Append(old, w.first) /\ old \in Seq(Int) /\ w.first \in Int
      BY <2>2, <2>5 DEF Step, T, BatchWrite, NoHash
    <3>2. /\ Len(old) \in Nat /\ Len(new) = Len(old) + 1 /\ new[Len(old) + 1] = w.first
          /\ \A i \in 1 .. Len(old) : new[i] = old[i]
      BY <3>1, Appended
    <3>3. ASSUME NEW i \in 1 .. k + 1, writes[i].first # NoHash
          PROVE  Contains(new, writes[i].first)
      <4>1. CASE i = k + 1
        <5>1. Len(old) + 1 \in 1 .. Len(new)
          BY <3>2
        <5>2. QED
          BY <3>2, <4>1, <5>1 DEF Contains
      <4>2. CASE i \in 1 .. k
        <5>1. PICK j \in 1 .. Len(old) : old[j] = writes[i].first
          BY <2>2, <3>3, <4>2 DEF HashesOf, Contains
        <5>2. j \in 1 .. Len(new) /\ new[j] = writes[i].first
          BY <3>2, <5>1
        <5>3. QED
          BY <5>2 DEF Contains
      <4>3. QED
        BY <2>3, <4>1, <4>2
    <3>4. ASSUME NEW j \in 1 .. Len(new)
          PROVE  \E i \in 1 .. k + 1 : writes[i].first # NoHash /\ new[j] = writes[i].first
      <4>1. CASE j = Len(old) + 1
        <5>1. k + 1 \in 1 .. k + 1
          OBVIOUS
        <5>2. QED
          BY <2>5, <3>2, <4>1, <5>1
      <4>2. CASE j \in 1 .. Len(old)
        <5>1. PICK i \in 1 .. k : writes[i].first # NoHash /\ old[j] = writes[i].first
          BY <2>2, <4>2 DEF HashesOf
        <5>2. QED
          BY <2>4, <3>2, <4>2, <5>1
      <4>3. QED
        BY <3>2, <4>1, <4>2
    <3>5. QED
      BY <3>3, <3>4 DEF HashesOf, new
  <2>6. CASE w.first = NoHash
    <3>1. new = old
      BY <2>2, <2>6 DEF Step
    <3>2. ASSUME NEW i \in 1 .. k + 1, writes[i].first # NoHash
          PROVE  Contains(old, writes[i].first)
      BY <2>2, <2>3, <2>6, <3>2 DEF HashesOf
    <3>3. ASSUME NEW j \in 1 .. Len(old)
          PROVE  \E i \in 1 .. k + 1 : writes[i].first # NoHash /\ old[j] = writes[i].first
      BY <2>2, <2>4 DEF HashesOf
    <3>4. QED
      BY <3>1, <3>2, <3>3 DEF HashesOf, new
  <2>7. QED
    BY <2>5, <2>6
<1>17. \A k \in Nat : k \in S
  <2> HIDE DEF S
  <2>1. QED
    BY <1>15, <1>16, Induction
<1>18. HashesOf(h[n], writes, n)
  BY <1>1, <1>17
<1>19. h[n] \in T
  BY <1>1, <1>12
<1>20. QED
  BY <1>3, <1>12, <1>18, <1>19 DEF n, T

(* nodes are those of the reads for the first k hashes, each once.         *)
NodesOf(nodes, source, hashes, k) ==
    /\ nodes \in Seq(Url) /\ IsInjective(nodes)
    /\ \A x : Contains(nodes, x) <=> \E i \in 1 .. k : Contains(source.for_hash[hashes[i]], x)

(* AppendMissing goes on with them.                                        *)
LEMMA AppendMissingAdds ==
    ASSUME NEW out \in Seq(Url), IsInjective(out), NEW nodes \in Seq(Url)
    PROVE  LET r == AppendMissing(out, nodes)
           IN  /\ r \in Seq(Url) /\ IsInjective(r)
               /\ \A x : Contains(r, x) <=> Contains(out, x) \/ Contains(nodes, x)
<1> DEFINE r == AppendMissing(out, nodes)
           none == <<>>
<1>1. r = AppendNodes(out, nodes, none)
  BY DEF AppendMissing
<1>2. nodes \in Seq(Nat) /\ Len(nodes) \in Nat /\ Len(out) \in Nat
      /\ \A i \in 1 .. Len(nodes) : nodes[i] # EmptyUrl
  BY DEF Url
<1>3. \A x : ~Contains(none, x)
  BY DEF Contains
<1> HIDE DEF r, none
<1>4. Added(r, out, nodes, Len(nodes), none)
  BY <1>1, <1>2, AppendNodesAdds
<1>5. r \in Seq(Url) /\ IsInjective(r) /\ Len(r) \in Nat
  BY <1>4 DEF Added
<1>6. Len(out) <= Len(r) /\ \A i \in 1 .. Len(out) : r[i] = out[i]
  BY <1>4 DEF Added
<1>7. \A i \in 1 .. Len(nodes) : \E j \in 1 .. Len(r) : r[j] = nodes[i]
  BY <1>2, <1>3, <1>4 DEF Added
<1>8. \A j \in Len(out) + 1 .. Len(r) : \E a \in 1 .. Len(nodes) : nodes[a] = r[j]
  BY <1>4 DEF Added
<1>9. ASSUME NEW x, Contains(r, x) PROVE Contains(out, x) \/ Contains(nodes, x)
  <2>1. PICK j \in 1 .. Len(r) : r[j] = x
    BY <1>9 DEF Contains
  <2>2. j \in 1 .. Len(out) \/ j \in Len(out) + 1 .. Len(r)
    BY <1>2, <1>5
  <2>3. QED
    BY <1>6, <1>8, <2>1, <2>2 DEF Contains
<1>10. ASSUME NEW x, Contains(out, x) PROVE Contains(r, x)
  <2>1. PICK j \in 1 .. Len(out) : out[j] = x
    BY <1>10 DEF Contains
  <2>2. j \in 1 .. Len(r)
    BY <1>2, <1>5, <1>6
  <2>3. QED
    BY <1>6, <2>1, <2>2 DEF Contains
<1>11. ASSUME NEW x, Contains(nodes, x) PROVE Contains(r, x)
  BY <1>7, <1>11 DEF Contains
<1>12. QED
  BY <1>5, <1>9, <1>10, <1>11 DEF r

(* QueryPlanNodesForHashes has the nodes of all reads, or else those of    *)
(* the read without a hash.                                                *)
LEMMA NodesForHashes ==
    ASSUME NEW source, NEW hashes \in Seq(Int), IsRead(source.any),
           \A i \in 1 .. Len(hashes) : IsRead(source.for_hash[hashes[i]])
    PROVE  LET planned == QueryPlanNodesForHashes(source, hashes)
               some == \E i \in 1 .. Len(hashes) : source.for_hash[hashes[i]] # <<>>
           IN  /\ planned \in Seq(Url) /\ IsInjective(planned)
               /\ ~some => planned = source.any
               /\ some => \A x : Contains(planned, x) <=>
                             \E i \in 1 .. Len(hashes) : Contains(source.for_hash[hashes[i]], x)
<1> DEFINE n == Len(hashes)
           T == {s \in Seq(Url) : IsInjective(s)}
           none == <<>>
           F == [k \in 1 .. n |-> [acc \in T |-> AppendMissing(acc, source.for_hash[hashes[k]])]]
           Is(f) == f = [s \in SUBSET (1 .. n) |->
                           IF s = {} THEN none
                           ELSE AppendMissing(f[s \ {Max(s)}], source.for_hash[hashes[Max(s)]])]
           iter == CHOOSE f : Is(f)
           planned == QueryPlanNodesForHashes(source, hashes)
<1>1. /\ n \in Nat /\ DOMAIN hashes = 1 .. n /\ none \in T /\ Len(none) = 0
      /\ \A k \in 1 .. n : source.for_hash[hashes[k]] \in Seq(Url)
  BY DEF IsRead, IsInjective
<1>2. \A acc \in T, s \in Seq(Url) : AppendMissing(acc, s) \in T
  BY AppendMissingAdds
<1>3. planned = IF iter[1 .. n] = <<>> THEN source.any ELSE iter[1 .. n]
  <2> DEFINE out == FoldLeft(LAMBDA acc, h : AppendMissing(acc, source.for_hash[h]), none, hashes)
  <2>1. planned = IF out = <<>> THEN source.any ELSE out
    BY DEF QueryPlanNodesForHashes
  <2>2. out = iter[1 .. n]
    BY <1>1, Zenon DEF FoldLeft, MapThenFoldSet
  <2> HIDE DEF iter, out
  <2>3. QED
    BY <2>1, <2>2
<1> HIDE DEF n, T, none, planned
<1>4. F \in [1 .. n -> [T -> T]]
  BY <1>1, <1>2
<1>5. \A k \in 1 .. n, x \in T : F[k][x] = AppendMissing(x, source.for_hash[hashes[k]])
  OBVIOUS
<1>6. \A s \in SUBSET (1 .. n) : s # {} => Max(s) \in 1 .. n /\ s \ {Max(s)} \in SUBSET (1 .. n)
  BY <1>1, MaxIsAPlace
<1>7. \E f \in [SUBSET (1 .. n) -> T] : IsFold(f, n, none, F)
  <2> HIDE DEF F
  <2>1. QED
    BY <1>1, <1>4, FoldExists
<1>8. PICK f \in [SUBSET (1 .. n) -> T] : IsFold(f, n, none, F)
  BY <1>7
<1> HIDE DEF F
<1>9. Is(f)
  BY <1>5, <1>6, <1>8 DEF IsFold
<1>10. Is(iter)
  <2> HIDE DEF Is
  <2>1. QED
    BY <1>9
<1> HIDE DEF iter
<1>11. IsFoldIn(T, iter, n, none, F)
  BY <1>5, <1>6, <1>10 DEF IsFoldIn
<1>12. PICK h \in [0 .. n -> T] : IsRun(h, n, none, F) /\ h[n] = iter[1 .. n]
  <2>1. RunsTo(T, n, none, F, iter[1 .. n])
    BY <1>1, <1>4, <1>11, FoldSteps
  <2>2. QED
    BY <2>1 DEF RunsTo
<1>13. \A k \in 1 .. n : k - 1 \in 0 .. n
  BY <1>1
<1>14. h[0] = none /\ \A k \in 1 .. n : h[k] = AppendMissing(h[k - 1], source.for_hash[hashes[k]])
  BY <1>5, <1>12, <1>13 DEF IsRun
<1> DEFINE S == {k \in Nat : k <= n => NodesOf(h[k], source, hashes, k)}
<1>15. 0 \in S
  <2>1. \A x : ~Contains(none, x)
    BY <1>1 DEF Contains
  <2>2. NodesOf(none, source, hashes, 0)
    BY <1>1, <2>1 DEF NodesOf, T
  <2>3. QED
    BY <1>14, <2>2
<1>16. ASSUME NEW k \in Nat, k \in S PROVE k + 1 \in S
  <2> SUFFICES ASSUME k + 1 <= n PROVE NodesOf(h[k + 1], source, hashes, k + 1)
    OBVIOUS
  <2>1. k + 1 \in 1 .. n /\ (k + 1) - 1 = k /\ k \in 0 .. n
    BY <1>1
  <2> DEFINE s == source.for_hash[hashes[k + 1]]
             old == h[k]
             new == h[k + 1]
  <2>2. new = AppendMissing(old, s) /\ s \in Seq(Url)
    BY <1>1, <1>14, <2>1
  <2>3. NodesOf(old, source, hashes, k)
    BY <1>1, <1>16
  <2> HIDE DEF new, old
  <2>4. old \in Seq(Url) /\ IsInjective(old)
    BY <2>3 DEF NodesOf
  <2>5. /\ new \in Seq(Url) /\ IsInjective(new)
        /\ \A x : Contains(new, x) <=> Contains(old, x) \/ Contains(s, x)
    BY <2>2, <2>4, AppendMissingAdds
  <2>6. \A i \in 1 .. k + 1 : i \in 1 .. k \/ i = k + 1
    OBVIOUS
  <2>7. k + 1 \in 1 .. k + 1 /\ \A i \in 1 .. k : i \in 1 .. k + 1
    OBVIOUS
  <2>8. ASSUME NEW x
        PROVE  Contains(new, x) <=> \E i \in 1 .. k + 1 : Contains(source.for_hash[hashes[i]], x)
    <3>1. Contains(old, x) <=> \E i \in 1 .. k : Contains(source.for_hash[hashes[i]], x)
      BY <2>3 DEF NodesOf
    <3>2. Contains(new, x) <=> Contains(old, x) \/ Contains(s, x)
      BY <2>5
    <3>3. QED
      BY <2>6, <2>7, <3>1, <3>2
  <2>9. QED
    BY <2>5, <2>8 DEF NodesOf, new
<1>17. \A k \in Nat : k \in S
  <2> HIDE DEF S
  <2>1. QED
    BY <1>15, <1>16, Induction
<1> DEFINE out == h[n]
<1>18. NodesOf(out, source, hashes, n)
  BY <1>1, <1>17
<1>19. planned = IF out = <<>> THEN source.any ELSE out
  BY <1>3, <1>12
<1> HIDE DEF out
<1>20. out \in Seq(Url) /\ IsInjective(out)
  BY <1>18 DEF NodesOf
<1>21. \A x : Contains(out, x) <=> \E i \in 1 .. n : Contains(source.for_hash[hashes[i]], x)
  BY <1>18 DEF NodesOf
<1>22. out = <<>> <=> ~\E i \in 1 .. n : source.for_hash[hashes[i]] # <<>>
  <2>1. \A s \in Seq(Url) : s # <<>> => Contains(s, s[1])
    <3>1. \A s \in Seq(Url) : s # <<>> => 1 \in 1 .. Len(s)
      OBVIOUS
    <3>2. QED
      BY <3>1 DEF Contains
  <2>2. \A x : ~Contains(<<>>, x)
    BY DEF Contains
  <2>3. ASSUME out = <<>>, NEW i \in 1 .. n, source.for_hash[hashes[i]] # <<>> PROVE FALSE
    BY <1>1, <1>21, <2>1, <2>2, <2>3
  <2>4. ASSUME out # <<>> PROVE \E i \in 1 .. n : source.for_hash[hashes[i]] # <<>>
    <3>1. Contains(out, out[1])
      BY <1>20, <2>1, <2>4
    <3>2. QED
      BY <1>21, <2>2, <3>1
  <2>5. QED
    BY <2>3, <2>4
<1>23. source.any \in Seq(Url) /\ IsInjective(source.any)
  BY DEF IsRead
<1>24. QED
  BY <1>19, <1>20, <1>21, <1>22, <1>23 DEF planned, n

(* FirstNodeWithSeed names one of the candidates.                          *)
LEMMA FirstNodeIsCandidate ==
    ASSUME NEW candidates \in Seq(Url), candidates # <<>>, NEW draws \in Seq(Nat), draws # <<>>
    PROVE  FirstNodeWithSeed(candidates, draws) \in ToSet(candidates)
<1> DEFINE sorted == SortAndDedupeNodes(candidates)
           n == Len(sorted)
           v == Head(draws)
<1>1. sorted \in Seq(Url) /\ ToSet(sorted) = ToSet(candidates)
  <2>1. Url \in SUBSET Nat
    BY DEF Url
  <2>2. QED
    BY <2>1, SortAndDedupeSorts
<1>2. FirstNodeWithSeed(candidates, draws) =
        IF sorted = <<>> THEN EmptyUrl ELSE sorted[(v % n) + 1]
  BY DEF FirstNodeWithSeed, DrawBelow
<1>3. v \in Nat
  OBVIOUS
<1> HIDE DEF sorted, v
<1>4. sorted # <<>> /\ n \in Nat /\ n > 0 /\ DOMAIN sorted = 1 .. n
  <2>1. candidates[1] \in ToSet(candidates)
    BY DEF ToSet
  <2>2. DOMAIN sorted # {}
    BY <1>1, <2>1 DEF ToSet
  <2>3. QED
    BY <1>1, <2>2
<1> HIDE DEF n
<1>5. (v % n) \in 0 .. n - 1
  BY <1>3, <1>4
<1>6. (v % n) + 1 \in 1 .. n
  BY <1>4, <1>5
<1>7. sorted[(v % n) + 1] \in ToSet(sorted)
  BY <1>4, <1>6 DEF ToSet
<1>8. QED
  BY <1>1, <1>2, <1>4, <1>7

(* The writes that vote for a node.                                        *)
Voters(candidates, writes, n) ==
    {i \in DOMAIN writes : /\ writes[i].second # NoHash
                           /\ FirstNodeWithSeed(candidates, Draws(writes[i].second)) = n}

(* Voters are counted.                                                     *)
LEMMA VotesAreCounted ==
    ASSUME NEW candidates, NEW X, NEW writes \in Seq(X), NEW n
    PROVE  /\ Cardinality(Voters(candidates, writes, n)) \in Nat
           /\ Cardinality(Voters(candidates, writes, n)) > 0 <=> Voters(candidates, writes, n) # {}
<1> DEFINE V == Voters(candidates, writes, n)
           l == Len(writes)
<1>1. l \in Nat /\ DOMAIN writes = 1 .. l
  OBVIOUS
<1>2. V \in SUBSET (1 .. l)
  BY <1>1 DEF Voters
<1> HIDE DEF V, l
<1>3. IsFiniteSet(1 .. l)
  BY <1>1, FS_Interval
<1>4. IsFiniteSet(V)
  BY <1>2, <1>3, FS_Subset
<1>5. Cardinality(V) \in Nat /\ (Cardinality(V) = 0 <=> V = {})
  BY <1>4, FS_CardinalityType, FS_EmptySet
<1>6. QED
  BY <1>5 DEF V

(* The nodes with votes, in the order of their votes and then of their     *)
(* URLs.                                                                   *)
LEMMA PreferredNodes ==
    ASSUME NEW candidates \in Seq(Url), NEW writes \in Seq(BatchWrite)
    PROVE  LET r == SelectBatchWritePreferredNodes(candidates, writes)
               votes == Votes(candidates, writes)
               voted == {n \in ToSet(candidates) : Voters(candidates, writes, n) # {}}
           IN  /\ r.throws <=> voted = {}
               /\ r.nodes \in Seq(Url) /\ IsInjective(r.nodes) /\ ToSet(r.nodes) = voted
               /\ \A n \in ToSet(candidates) :
                     votes[n] = Cardinality(Voters(candidates, writes, n)) /\ votes[n] \in Nat
               /\ \A i, j \in 1 .. Len(r.nodes) : i < j =>
                     \/ votes[r.nodes[i]] > votes[r.nodes[j]]
                     \/ votes[r.nodes[i]] = votes[r.nodes[j]] /\ r.nodes[i] < r.nodes[j]
<1> DEFINE C == ToSet(candidates)
           votes == Votes(candidates, writes)
           voted == {n \in C : votes[n] > 0}
           r == SelectBatchWritePreferredNodes(candidates, writes)
           Before(a, b) == votes[a] > votes[b] \/ (votes[a] = votes[b] /\ a < b)
           R == {p \in voted \X voted : Before(p[1], p[2])}
           Good(s) == \A i, j \in 1 .. Cardinality(voted) : i < j => Before(s[i], s[j])
           t == CHOOSE s \in [1 .. Cardinality(voted) -> voted] : Good(s)
<1>1. IsFiniteSet(C) /\ C \subseteq Url
  BY EntriesAreFinite
<1>2. \A n \in C : votes[n] = Cardinality(Voters(candidates, writes, n))
  BY DEF Votes, Voters
<1>3. r = [throws |-> voted = {}, nodes |-> t]
  BY DEF SelectBatchWritePreferredNodes, InOrder
<1>4. \A n \in C : votes[n] \in Nat /\ (votes[n] > 0 <=> Voters(candidates, writes, n) # {})
  BY <1>2, VotesAreCounted
<1> HIDE DEF C, votes
<1>5. voted = {n \in C : Voters(candidates, writes, n) # {}}
  BY <1>4
<1>6. IsFiniteSet(voted) /\ \A x \in voted : x \in Nat /\ x \in Url /\ votes[x] \in Nat
  <2>1. voted \in SUBSET C
    OBVIOUS
  <2>2. \A x \in voted : x \in Nat /\ x \in Url /\ votes[x] \in Nat
    BY <1>1, <1>4 DEF Url
  <2> HIDE DEF voted
  <2>3. QED
    BY <1>1, <2>1, <2>2, FS_Subset
<1> HIDE DEF voted
<1>7. \A x, y \in voted : <<x, y>> \in R <=> Before(x, y)
  OBVIOUS
<1>8. Orders(R, voted)
  <2> HIDE DEF R
  <2>1. \A x, y \in voted : x # y => Before(x, y) \/ Before(y, x)
    BY <1>6
  <2>2. \A x, y, z \in voted : Before(x, y) /\ Before(y, z) => Before(x, z)
    BY <1>6
  <2>3. \A x \in voted : ~Before(x, x)
    BY <1>6
  <2> HIDE DEF Before
  <2>4. QED
    BY <1>7, <2>1, <2>2, <2>3 DEF Orders
<1> HIDE DEF R, Before
<1>9. PICK s : IsOrdered(s, voted, R)
  BY <1>6, <1>8, CanBeOrdered
<1>10. s \in [1 .. Cardinality(voted) -> voted] /\ Good(s)
  BY <1>7, <1>9 DEF IsOrdered
<1>11. t \in [1 .. Cardinality(voted) -> voted] /\ Good(t)
  <2> HIDE DEF Good
  <2>1. QED
    BY <1>10
<1> HIDE DEF t
<1>12. IsOrdered(t, voted, R)
  BY <1>7, <1>11 DEF IsOrdered
<1>13. Enumerates(t, voted)
  BY <1>6, <1>8, <1>12, OrderedHasAll
<1> DEFINE c == Cardinality(voted)
<1>14. c \in Nat /\ t \in [1 .. c -> Url]
  BY <1>6, <1>11, FS_CardinalityType
<1>15. (\A i \in 1 .. c : t[i] \in voted) /\ Good(t)
  BY <1>11
<1> HIDE DEF c
<1>16. t \in Seq(Url) /\ Len(t) = c /\ DOMAIN t = 1 .. c
  BY <1>14
<1>17. ToSet(t) = voted
  BY <1>13, <1>15, <1>16 DEF ToSet, Enumerates, c
<1>18. IsInjective(t)
  BY <1>13, <1>16 DEF IsInjective, Enumerates, c
<1>19. \A i, j \in 1 .. Len(t) : i < j => Before(t[i], t[j])
  BY <1>15, <1>16 DEF c
<1>20. r.nodes = t /\ (r.throws <=> voted = {})
  <2> DEFINE b == voted = {}
  <2>1. r = [throws |-> b, nodes |-> t] /\ b \in BOOLEAN
    BY <1>3
  <2> HIDE DEF b, r
  <2>2. r.nodes = t /\ r.throws = b
    BY <2>1
  <2>3. QED
    BY <2>2 DEF b
<1> HIDE DEF r
<1>21. \A i, j \in 1 .. Len(t) : i < j =>
          \/ votes[t[i]] > votes[t[j]]
          \/ votes[t[i]] = votes[t[j]] /\ t[i] < t[j]
  BY <1>19 DEF Before
<1>22. QED
  BY <1>2, <1>4, <1>5, <1>16, <1>17, <1>18, <1>20, <1>21 DEF r, C, votes

(* A list contains its entries.                                            *)
LEMMA ContainsIsIn ==
    ASSUME NEW X, NEW s \in Seq(X), NEW x
    PROVE  Contains(s, x) <=> x \in ToSet(s)
<1>1. DOMAIN s = 1 .. Len(s)
  OBVIOUS
<1>2. QED
  BY <1>1 DEF Contains, ToSet

(* A batch and what the registry returned for it.                          *)
IsBatch(source, writes) ==
    /\ writes \in Seq(BatchWrite)
    /\ IsSource(source, ({w.first : w \in ToSet(writes)}
                           \cup {w.second : w \in ToSet(writes)}) \ {NoHash})

(* The same for one of its writes.                                         *)
LEMMA BatchReads ==
    ASSUME NEW source, NEW writes, IsBatch(source, writes)
    PROVE  /\ writes \in Seq(BatchWrite) /\ DOMAIN writes = 1 .. Len(writes) /\ Len(writes) \in Nat
           /\ source.active \in Seq(Url) /\ IsRead(source.any)
           /\ \A i \in 1 .. Len(writes) :
                 /\ writes[i] \in BatchWrite
                 /\ writes[i].first # NoHash => IsRead(source.for_hash[writes[i].first])
                 /\ writes[i].second # NoHash =>
                       /\ IsSource(source, {writes[i].second})
                       /\ Draws(writes[i].second) \in Seq(Nat) /\ Draws(writes[i].second) # <<>>
<1>1. writes \in Seq(BatchWrite) /\ DOMAIN writes = 1 .. Len(writes) /\ Len(writes) \in Nat
  BY DEF IsBatch
<1>2. \A i \in 1 .. Len(writes) :
         /\ writes[i].first \in {w.first : w \in ToSet(writes)}
         /\ writes[i].second \in {w.second : w \in ToSet(writes)}
  BY <1>1 DEF ToSet
<1>3. \A i \in 1 .. Len(writes) : writes[i] \in BatchWrite
  BY <1>1
<1> DEFINE H == ({w.first : w \in ToSet(writes)} \cup {w.second : w \in ToSet(writes)}) \ {NoHash}
<1>4. /\ IsSource(source, H)
      /\ \A i \in 1 .. Len(writes) : /\ writes[i].first # NoHash => writes[i].first \in H
                                     /\ writes[i].second # NoHash => writes[i].second \in H
  BY <1>2 DEF IsBatch
<1> HIDE DEF H
<1>5. \A h \in H : /\ IsSource(source, {h}) /\ IsRead(source.for_hash[h])
                   /\ Draws(h) \in Seq(Nat) /\ Draws(h) # <<>>
  BY <1>4 DEF IsSource
<1>6. source.active \in Seq(Url) /\ IsRead(source.any)
  BY <1>4 DEF IsSource
<1>7. QED
  BY <1>1, <1>3, <1>4, <1>5, <1>6

(* The writes with a key, and the nodes read for those known from the      *)
(* start.                                                                  *)
Keyed(writes) == {i \in DOMAIN writes : writes[i].second # NoHash}

KnownNodes(source, writes) ==
    UNION {ToSet(source.for_hash[writes[i].first]) :
              i \in {j \in DOMAIN writes : writes[j].first # NoHash}}

PlannedFor(source, writes) == QueryPlanNodesForHashes(source, BatchWriteHashes(writes))

(* The planned nodes are those, or the ones of the read without a hash.    *)
LEMMA PlannedNodes ==
    ASSUME NEW source, NEW writes, IsBatch(source, writes)
    PROVE  /\ PlannedFor(source, writes) \in Seq(Url) /\ IsInjective(PlannedFor(source, writes))
           /\ ToSet(PlannedFor(source, writes)) =
                 IF KnownNodes(source, writes) = {} THEN ToSet(source.any)
                 ELSE KnownNodes(source, writes)
<1> DEFINE planned == PlannedFor(source, writes)
           hashes == BatchWriteHashes(writes)
           n == Len(hashes)
           l == Len(writes)
           U == KnownNodes(source, writes)
           some == \E i \in 1 .. n : source.for_hash[hashes[i]] # <<>>
<1>1. /\ writes \in Seq(BatchWrite) /\ DOMAIN writes = 1 .. l /\ IsRead(source.any)
      /\ \A i \in 1 .. l : writes[i].first # NoHash => IsRead(source.for_hash[writes[i].first])
  BY BatchReads
<1>2. hashes \in Seq(Int) /\ HashesOf(hashes, writes, l)
  BY <1>1, BatchHashes
<1>3. planned = QueryPlanNodesForHashes(source, hashes)
  BY DEF PlannedFor
<1> HIDE DEF hashes, planned
<1>4. \A j \in 1 .. n : \E i \in 1 .. l : writes[i].first # NoHash /\ hashes[j] = writes[i].first
  BY <1>2 DEF HashesOf
<1>5. \A i \in 1 .. l : writes[i].first # NoHash => \E j \in 1 .. n : hashes[j] = writes[i].first
  BY <1>2 DEF HashesOf, Contains
<1>6. \A j \in 1 .. n : IsRead(source.for_hash[hashes[j]])
  BY <1>1, <1>4
<1>7. /\ planned \in Seq(Url) /\ IsInjective(planned)
      /\ ~some => planned = source.any
      /\ some => \A x : Contains(planned, x) <=>
                    \E i \in 1 .. n : Contains(source.for_hash[hashes[i]], x)
  BY <1>1, <1>2, <1>3, <1>6, NodesForHashes
<1>8. \A x : x \in U <=> \E i \in 1 .. l : /\ writes[i].first # NoHash
                                           /\ x \in ToSet(source.for_hash[writes[i].first])
  <2>1. {j \in DOMAIN writes : writes[j].first # NoHash} = {j \in 1 .. l : writes[j].first # NoHash}
    BY <1>1
  <2>2. U = UNION {ToSet(source.for_hash[writes[i].first]) : i \in {j \in 1 .. l : writes[j].first # NoHash}}
    BY <2>1 DEF KnownNodes
  <2> HIDE DEF U, l
  <2>3. QED
    BY <2>2
<1> HIDE DEF U, n, l
<1>9. ASSUME NEW x
      PROVE  x \in U <=> \E i \in 1 .. n : Contains(source.for_hash[hashes[i]], x)
  <2>1. ASSUME x \in U PROVE \E i \in 1 .. n : Contains(source.for_hash[hashes[i]], x)
    <3>1. PICK i \in 1 .. l : writes[i].first # NoHash /\ x \in ToSet(source.for_hash[writes[i].first])
      BY <1>8, <2>1
    <3>2. Contains(source.for_hash[writes[i].first], x)
      BY <1>1, <3>1, ContainsIsIn DEF IsRead
    <3>3. QED
      BY <1>5, <3>1, <3>2
  <2>2. ASSUME NEW j \in 1 .. n, Contains(source.for_hash[hashes[j]], x) PROVE x \in U
    <3>1. PICK i \in 1 .. l : writes[i].first # NoHash /\ hashes[j] = writes[i].first
      BY <1>4
    <3>2. x \in ToSet(source.for_hash[writes[i].first])
      BY <1>1, <2>2, <3>1, ContainsIsIn DEF IsRead
    <3>3. QED
      BY <1>8, <3>1, <3>2
  <2>3. QED
    BY <2>1, <2>2
<1>10. some <=> U # {}
  <2>1. ASSUME NEW i \in 1 .. n, source.for_hash[hashes[i]] # <<>> PROVE U # {}
    <3> DEFINE s == source.for_hash[hashes[i]]
    <3>1. s \in Seq(Url) /\ s # <<>>
      BY <1>6, <2>1 DEF IsRead
    <3> HIDE DEF s
    <3>2. 1 \in 1 .. Len(s)
      BY <3>1
    <3>3. Contains(s, s[1])
      BY <3>2 DEF Contains
    <3>4. s[1] \in U
      BY <1>9, <3>3 DEF s
    <3>5. QED
      BY <3>4
  <2>2. ASSUME NEW x \in U PROVE some
    <3>1. PICK i \in 1 .. n : Contains(source.for_hash[hashes[i]], x)
      BY <1>9
    <3>2. source.for_hash[hashes[i]] # <<>>
      BY <3>1 DEF Contains
    <3>3. QED
      BY <3>2
  <2>3. QED
    BY <2>1, <2>2
<1>11. CASE U = {}
  BY <1>7, <1>10, <1>11 DEF U, planned
<1>12. CASE U # {}
  <2>1. \A x : Contains(planned, x) <=> x \in U
    BY <1>7, <1>9, <1>10, <1>12
  <2>2. \A x : x \in ToSet(planned) <=> x \in U
    BY <1>7, <2>1, ContainsIsIn
  <2>3. ToSet(planned) = U
    BY <2>2
  <2>4. QED
    BY <1>7, <1>12, <2>3 DEF U, planned
<1>13. QED
  BY <1>11, <1>12

(* A candidate has votes when there are candidates and writes with keys,   *)
(* and only then.                                                          *)
LEMMA SomeoneIsVotedFor ==
    ASSUME NEW source, NEW writes, IsBatch(source, writes), NEW candidates \in Seq(Url)
    PROVE  {n \in ToSet(candidates) : Voters(candidates, writes, n) # {}} = {}
              <=> Keyed(writes) = {} \/ candidates = <<>>
<1> DEFINE voted == {n \in ToSet(candidates) : Voters(candidates, writes, n) # {}}
<1>1. DOMAIN writes = 1 .. Len(writes) /\ \A i \in 1 .. Len(writes) : writes[i].second # NoHash =>
         Draws(writes[i].second) \in Seq(Nat) /\ Draws(writes[i].second) # <<>>
  BY BatchReads
<1>2. ASSUME Keyed(writes) = {} \/ candidates = <<>> PROVE voted = {}
  BY <1>2 DEF Keyed, Voters, ToSet
<1>3. ASSUME Keyed(writes) # {}, candidates # <<>> PROVE voted # {}
  <2>1. PICK i \in 1 .. Len(writes) : writes[i].second # NoHash
    BY <1>1, <1>3 DEF Keyed
  <2> DEFINE n == FirstNodeWithSeed(candidates, Draws(writes[i].second))
  <2>2. n \in ToSet(candidates)
    BY <1>1, <1>3, <2>1, FirstNodeIsCandidate
  <2>3. i \in Voters(candidates, writes, n)
    BY <1>1, <2>1 DEF Voters
  <2> HIDE DEF n
  <2>4. QED
    BY <2>2, <2>3
<1>4. QED
  BY <1>2, <1>3

(* A before b: by the number of their voters, then by URL.                 *)
MoreVotes(candidates, writes, a, b) ==
    LET Count(n) == Cardinality(Voters(candidates, writes, n))
    IN  Count(a) > Count(b) \/ (Count(a) = Count(b) /\ a < b)

(* The list of a batch with active nodes: nodes only the plan has, the     *)
(* active nodes with votes, the other active nodes.                        *)
BatchList(source, writes) ==
    LET act == SortAndDedupeNodes(source.active)
        preferred == SelectBatchWritePreferredNodes(act, writes).nodes
    IN  AppendMissing(AppendMissing(NodesMissingFrom(PlannedFor(source, writes), act), preferred), act)

(* It has every node once, and the active ones in the order of their votes.*)
LEMMA BatchListIsOrdered ==
    ASSUME NEW source, NEW writes, IsBatch(source, writes), source.active # <<>>
    PROVE  LET r == BatchList(source, writes)
               act == SortAndDedupeNodes(source.active)
           IN  /\ r \in Seq(Url) /\ IsInjective(r)
               /\ \A x : Contains(r, x) <=>
                     x \in ToSet(source.active) \/ x \in ToSet(PlannedFor(source, writes))
               /\ \A i, j \in 1 .. Len(r) :
                     i < j /\ r[i] \in ToSet(source.active) /\ r[j] \in ToSet(source.active)
                        => MoreVotes(act, writes, r[i], r[j])
<1> DEFINE r == BatchList(source, writes)
           active == ToSet(source.active)
           act == SortAndDedupeNodes(source.active)
           planned == PlannedFor(source, writes)
           M == NodesMissingFrom(planned, act)
           chosen == SelectBatchWritePreferredNodes(act, writes)
           pref == chosen.nodes
           none == <<>>
           Count(n) == Cardinality(Voters(act, writes, n))
           Before(a, b) == MoreVotes(act, writes, a, b)
           voted == {n \in ToSet(act) : Voters(act, writes, n) # {}}
<1>1. source.active \in Seq(Url) /\ writes \in Seq(BatchWrite)
  BY BatchReads
<1>2. act \in Seq(Url) /\ ToSet(act) = active /\ Increasing(act)
  <2>1. Url \in SUBSET Nat
    BY DEF Url
  <2>2. QED
    BY <1>1, <2>1, SortAndDedupeSorts
<1>3. planned \in Seq(Url) /\ IsInjective(planned)
  BY PlannedNodes
<1>4. r = AppendMissing(AppendMissing(M, pref), act)
  BY DEF BatchList
<1>5. act \in Seq(Nat) /\ Len(act) \in Nat /\ IsInjective(act) /\ DOMAIN act = 1 .. Len(act)
  <2>1. act \in Seq(Nat)
    BY <1>2 DEF Url
  <2> HIDE DEF act
  <2>2. QED
    BY <1>2, <2>1, IncreasingIsInjective
<1> HIDE DEF r, act, planned, active
<1>6. M \in Seq(Url) /\ IsInjective(M) /\ ToSet(M) = ToSet(planned) \ active
  BY <1>2, <1>3, MissingNodes
<1>7. /\ pref \in Seq(Url) /\ IsInjective(pref) /\ ToSet(pref) = voted
  BY <1>1, <1>2, PreferredNodes
<1>8. \A n \in active : Count(n) \in Nat /\ (Count(n) > 0 <=> Voters(act, writes, n) # {})
  BY <1>1, VotesAreCounted
<1>9. \A i, j \in 1 .. Len(pref) : i < j => Before(pref[i], pref[j])
  <2> DEFINE votes == Votes(act, writes)
  <2>1. /\ \A n \in ToSet(act) : votes[n] = Count(n)
        /\ \A i, j \in 1 .. Len(pref) : i < j =>
              \/ votes[pref[i]] > votes[pref[j]]
              \/ votes[pref[i]] = votes[pref[j]] /\ pref[i] < pref[j]
    BY <1>1, <1>2, PreferredNodes
  <2> HIDE DEF votes, pref
  <2>2. \A i \in 1 .. Len(pref) : pref[i] \in ToSet(act)
    <3>1. DOMAIN pref = 1 .. Len(pref)
      BY <1>7
    <3>2. \A i \in 1 .. Len(pref) : pref[i] \in ToSet(pref)
      BY <3>1 DEF ToSet
    <3>3. QED
      BY <1>7, <3>2
  <2>3. QED
    BY <2>1, <2>2 DEF MoreVotes
<1> HIDE DEF M, pref, chosen
<1> DEFINE out == M \o pref
<1>10. ToSet(M) \cap ToSet(pref) = {}
  BY <1>2, <1>6, <1>7
<1>11. AppendMissing(M, pref) = out
  <2>1. \A i \in 1 .. Len(M), j \in 1 .. Len(pref) : M[i] # pref[j]
    BY <1>6, <1>7, <1>10, DisjointEntries
  <2>2. QED
    BY <1>6, <1>7, <2>1, AppendNewNodes DEF AppendMissing
<1>12. IsInjective(out) /\ ToSet(out) = ToSet(M) \cup ToSet(pref)
  BY <1>6, <1>7, <1>10, JoinedEntries
<1>13. /\ out \in Seq(Url) /\ Len(M) \in Nat /\ Len(pref) \in Nat /\ Len(out) = Len(M) + Len(pref)
       /\ \A i \in 1 .. Len(M) : out[i] = M[i]
       /\ \A i \in 1 .. Len(pref) : out[Len(M) + i] = pref[i]
  BY <1>6, <1>7, Joined
<1> HIDE DEF out
<1>14. r = AppendMissing(out, act)
  BY <1>4, <1>11
<1>15. /\ r \in Seq(Url) /\ IsInjective(r)
       /\ \A x : Contains(r, x) <=> Contains(out, x) \/ Contains(act, x)
  BY <1>2, <1>12, <1>13, <1>14, AppendMissingAdds
<1>16. \A x : Contains(r, x) <=> x \in active \/ x \in ToSet(planned)
  <2>1. \A x : (Contains(out, x) <=> x \in ToSet(out)) /\ (Contains(act, x) <=> x \in ToSet(act))
    BY <1>2, <1>13, ContainsIsIn
  <2>2. \A x : Contains(r, x) <=> x \in ToSet(M) \/ x \in ToSet(pref) \/ x \in active
    BY <1>2, <1>12, <1>15, <2>1
  <2>3. \A x \in ToSet(pref) : x \in active
    BY <1>2, <1>7
  <2>4. QED
    BY <1>6, <2>2, <2>3
<1>17. Added(r, out, act, Len(act), none)
  <2>1. r = AppendNodes(out, act, none)
    BY <1>14 DEF AppendMissing
  <2> HIDE DEF none
  <2>2. QED
    BY <1>5, <1>12, <1>13, <2>1, AppendNodesAdds
<1>18. Len(out) <= Len(r) /\ \A i \in 1 .. Len(out) : r[i] = out[i]
  BY <1>17 DEF Added
<1>19. ASSUME NEW i \in Len(out) + 1 .. Len(r), NEW j \in Len(out) + 1 .. Len(r), i < j
       PROVE  r[i] < r[j]
  <2>1. PICK a, b \in 1 .. Len(act) : a < b /\ act[a] = r[i] /\ act[b] = r[j]
    BY <1>17, <1>19, Zenon DEF Added
  <2>2. QED
    BY <1>2, <2>1 DEF Increasing
<1>20. \A i \in 1 .. Len(r) : r[i] \in Nat /\ i \in Nat
  BY <1>15 DEF Url
<1>21. DOMAIN r = 1 .. Len(r) /\ Len(r) \in Nat
  BY <1>15
<1>22. ASSUME NEW i \in Len(out) + 1 .. Len(r), r[i] \in active PROVE Count(r[i]) = 0
  <2>1. ASSUME Voters(act, writes, r[i]) # {} PROVE FALSE
    <3>1. r[i] \in ToSet(pref)
      BY <1>2, <1>7, <1>22, <2>1
    <3>2. r[i] \in ToSet(out)
      BY <1>12, <3>1
    <3>3. PICK k \in 1 .. Len(out) : out[k] = r[i]
      BY <1>13, <3>2, ContainsIsIn DEF Contains
    <3>4. r[k] = r[i] /\ k \in 1 .. Len(r) /\ i \in 1 .. Len(r) /\ k # i
      BY <1>13, <1>18, <1>21, <3>3
    <3>5. QED
      BY <1>15, <1>21, <3>4 DEF IsInjective
  <2>2. Count(r[i]) \in Nat /\ ~(Count(r[i]) > 0)
    BY <1>8, <1>22, <2>1
  <2> HIDE DEF Count
  <2>3. QED
    BY <2>2
<1>23. ASSUME NEW i \in 1 .. Len(r), r[i] \in active, i <= Len(out)
       PROVE  i - Len(M) \in 1 .. Len(pref) /\ r[i] = pref[i - Len(M)]
  <2>1. r[i] = out[i] /\ i \in 1 .. Len(out)
    BY <1>13, <1>18, <1>20, <1>23
  <2>2. ASSUME i \in 1 .. Len(M) PROVE FALSE
    <3>1. r[i] = M[i] /\ DOMAIN M = 1 .. Len(M)
      BY <1>6, <1>13, <2>1, <2>2
    <3>2. r[i] \in ToSet(M)
      BY <2>2, <3>1 DEF ToSet
    <3>3. QED
      BY <1>6, <1>23, <3>2
  <2>3. i - Len(M) \in 1 .. Len(pref) /\ Len(M) + (i - Len(M)) = i
    BY <1>13, <2>1, <2>2
  <2>4. QED
    BY <1>13, <2>1, <2>3
<1>24. \A k \in 1 .. Len(pref) : pref[k] \in active /\ Count(pref[k]) > 0 /\ Count(pref[k]) \in Nat
  <2>1. DOMAIN pref = 1 .. Len(pref)
    BY <1>7
  <2>2. \A k \in 1 .. Len(pref) : pref[k] \in ToSet(pref)
    BY <2>1 DEF ToSet
  <2> HIDE DEF Count
  <2>3. QED
    BY <1>2, <1>7, <1>8, <2>2
<1>25. ASSUME NEW i \in 1 .. Len(r), NEW j \in 1 .. Len(r), i < j, r[i] \in active, r[j] \in active
       PROVE  Before(r[i], r[j])
  <2>1. CASE j <= Len(out)
    <3>1. i <= Len(out)
      BY <1>13, <1>25, <2>1
    <3>2. /\ i - Len(M) \in 1 .. Len(pref) /\ r[i] = pref[i - Len(M)]
          /\ j - Len(M) \in 1 .. Len(pref) /\ r[j] = pref[j - Len(M)]
      BY <1>23, <1>25, <2>1, <3>1
    <3>3. i - Len(M) < j - Len(M)
      BY <1>13, <1>25
    <3> HIDE DEF Before
    <3>4. QED
      BY <1>9, <3>2, <3>3
  <2>2. CASE j > Len(out) /\ i <= Len(out)
    <3>1. i - Len(M) \in 1 .. Len(pref) /\ r[i] = pref[i - Len(M)]
      BY <1>23, <1>25, <2>2
    <3>2. Count(r[i]) > 0
      BY <1>24, <3>1
    <3>3. j \in Len(out) + 1 .. Len(r)
      BY <1>13, <1>21, <2>2
    <3>4. Count(r[j]) = 0
      BY <1>22, <1>25, <3>3
    <3>5. QED
      BY <3>2, <3>4 DEF MoreVotes
  <2>3. CASE j > Len(out) /\ i > Len(out)
    <3>1. i \in Len(out) + 1 .. Len(r) /\ j \in Len(out) + 1 .. Len(r)
      BY <1>13, <1>21, <2>3
    <3>2. Count(r[i]) = 0 /\ Count(r[j]) = 0 /\ r[i] < r[j]
      BY <1>19, <1>22, <1>25, <3>1
    <3>3. QED
      BY <3>2 DEF MoreVotes
  <2>4. QED
    BY <1>13, <1>20, <2>1, <2>2, <2>3
<1>26. QED
  BY <1>15, <1>16, <1>25 DEF r, act, active, planned

(* The writes that go to a node on their own are its voters.               *)
LEMMA SharesAreVotes ==
    ASSUME NEW source, NEW writes, IsBatch(source, writes), source.active # <<>>, NEW n
    PROVE  {i \in Keyed(writes) : NodeOfKey(source, writes[i].second) = n}
              = Voters(SortAndDedupeNodes(source.active), writes, n)
<1> DEFINE act == SortAndDedupeNodes(source.active)
<1>1. /\ source.active \in Seq(Url) /\ DOMAIN writes = 1 .. Len(writes)
      /\ \A i \in 1 .. Len(writes) : writes[i].second # NoHash => IsSource(source, {writes[i].second})
  BY BatchReads
<1>2. act \in Seq(Nat) /\ Increasing(act)
  <2>1. Url \in SUBSET Nat /\ source.active \in Seq(Nat)
    BY <1>1 DEF Url
  <2>2. QED
    BY <2>1, SortAndDedupeSorts
<1>3. SortAndDedupeNodes(act) = act
  <2> HIDE DEF act
  <2>1. QED
    BY <1>2, SortedAlready
<1>4. \A d : FirstNodeWithSeed(act, d) = FirstNodeWithSeed(source.active, d)
  BY <1>3 DEF FirstNodeWithSeed
<1>5. \A i \in 1 .. Len(writes) : writes[i].second # NoHash =>
         NodeOfKey(source, writes[i].second) = FirstNodeWithSeed(source.active, Draws(writes[i].second))
  BY <1>1, NodeOfKeyIsFirst
<1> HIDE DEF act
<1>6. QED
  BY <1>1, <1>4, <1>5 DEF Keyed, Voters, act

(* What the property says of a batch's plan.                               *)
FollowsKeys(source, writes, throws, nodes) ==
    LET active == ToSet(source.active)
        listed == active \cup KnownNodes(source, writes)
        candidates == IF listed = {} THEN ToSet(source.any) ELSE listed
        Share(n) == Cardinality({i \in Keyed(writes) : NodeOfKey(source, writes[i].second) = n})
    IN  /\ throws <=> (Keyed(writes) = {} \/ candidates = {})
        /\ IsInjective(nodes)
        /\ ~throws => candidates \subseteq ToSet(nodes)
        /\ \A i, j \in {k \in DOMAIN nodes : nodes[k] \in active} :
              i < j => \/ Share(nodes[i]) > Share(nodes[j])
                       \/ Share(nodes[i]) = Share(nodes[j]) /\ nodes[i] < nodes[j]

(* And what a batch's plan does.                                           *)
LEMMA BatchPlanFollowsItsKeys ==
    ASSUME NEW source, NEW writes, IsBatch(source, writes), NEW throws, NEW nodes,
           throws = QueryPlanForBatchWrite(source, writes).throws,
           nodes = IF throws THEN <<>> ELSE DrainPlan(QueryPlanForBatchWrite(source, writes).plan)
    PROVE  FollowsKeys(source, writes, throws, nodes)
<1> DEFINE active == ToSet(source.active)
           U == KnownNodes(source, writes)
           listed == active \cup U
           C == IF listed = {} THEN ToSet(source.any) ELSE listed
           Share(n) == Cardinality({i \in Keyed(writes) : NodeOfKey(source, writes[i].second) = n})
           planned == PlannedFor(source, writes)
           act == SortAndDedupeNodes(source.active)
           candidates == IF source.active = <<>> THEN planned ELSE act
           chosen == SelectBatchWritePreferredNodes(candidates, writes)
           result == QueryPlanForBatchWrite(source, writes)
           plan == result.plan
<1>1. source.active \in Seq(Url) /\ writes \in Seq(BatchWrite)
  BY BatchReads
<1>2. act \in Seq(Url) /\ ToSet(act) = active
  <2>1. Url \in SUBSET Nat
    BY DEF Url
  <2>2. QED
    BY <1>1, <2>1, SortAndDedupeSorts
<1>3. /\ planned \in Seq(Url) /\ IsInjective(planned)
      /\ ToSet(planned) = IF U = {} THEN ToSet(source.any) ELSE U
  BY PlannedNodes
<1>4. result = [throws |-> chosen.throws,
                plan |-> IF source.active = <<>> THEN WithPreferredNodes(candidates, chosen.nodes)
                         ELSE FromOrderedNodes(
                                 AppendMissing(AppendMissing(NodesMissingFrom(planned, act), chosen.nodes), act))]
  BY DEF QueryPlanForBatchWrite, PlannedFor
<1>5. result.throws = chosen.throws
  BY <1>4
<1>6. candidates \in Seq(Url)
  BY <1>2, <1>3
<1>7. /\ chosen.throws <=> {n \in ToSet(candidates) : Voters(candidates, writes, n) # {}} = {}
      /\ chosen.nodes \in Seq(Url)
  BY <1>1, <1>6, PreferredNodes
<1>8. throws <=> Keyed(writes) = {} \/ candidates = <<>>
  BY <1>5, <1>6, <1>7, SomeoneIsVotedFor
<1>9. \A s \in Seq(Url) : ToSet(s) = {} <=> s = <<>>
  <2>1. ASSUME NEW s \in Seq(Url), s # <<>> PROVE ToSet(s) # {}
    <3>1. 1 \in DOMAIN s
      BY <2>1
    <3>2. QED
      BY <3>1 DEF ToSet
  <2>2. ToSet(<<>>) = {}
    BY DEF ToSet
  <2>3. QED
    BY <2>1, <2>2
<1>10. active = {} <=> source.active = <<>>
  BY <1>1, <1>9
<1>11. candidates = <<>> <=> C = {}
  <2>1. CASE source.active = <<>>
    <3>1. active = {} /\ listed = U /\ candidates = planned
      BY <1>10, <2>1
    <3>2. C = ToSet(planned)
      BY <1>3, <3>1
    <3>3. QED
      BY <1>3, <1>9, <3>1, <3>2
  <2>2. CASE source.active # <<>>
    <3>1. active # {} /\ C = listed /\ candidates = act
      BY <1>10, <2>2
    <3>2. act # <<>>
      BY <1>2, <1>9, <3>1
    <3>3. QED
      BY <3>1, <3>2
  <2>3. QED
    BY <2>1, <2>2
<1>12. throws <=> (Keyed(writes) = {} \/ C = {})
  BY <1>8, <1>11
<1>13. CASE throws
  <2>1. nodes = <<>> /\ IsInjective(nodes) /\ DOMAIN nodes = {}
    BY <1>13 DEF IsInjective
  <2>2. QED
    BY <1>12, <1>13, <2>1 DEF FollowsKeys
<1>14. CASE ~throws /\ source.active = <<>>
  <2>1. active = {} /\ C = ToSet(planned) /\ candidates = planned
    BY <1>3, <1>10, <1>14
  <2>2. plan = WithPreferredNodes(planned, chosen.nodes) /\ nodes = DrainPlan(plan)
    BY <1>4, <1>14, <2>1
  <2> DEFINE none == <<>>
             pref == chosen.nodes
  <2>3. plan = Constructed(planned, none, TRUE, TRUE, pref) /\ none \in Seq(Nat) /\ pref \in Seq(Nat)
    BY <1>7, <2>2 DEF WithPreferredNodes, Url
  <2> HIDE DEF plan, none, pref, planned, C, active
  <2>4. plan \in Plan /\ HasDraws(plan) /\ plan.nodes = planned
    BY <1>3, <2>3 DEF Constructed, Plan, HasDraws
  <2>5. nodes \in Seq(Url) /\ Permuted(nodes, planned)
    BY <2>2, <2>4, DrainPlanDrains DEF Drained
  <2>6. IsInjective(nodes) /\ ToSet(nodes) = ToSet(planned)
    BY <1>3, <2>5, PermutedBags
  <2>7. {k \in DOMAIN nodes : nodes[k] \in active} = {}
    BY <2>1
  <2>8. C \subseteq ToSet(nodes)
    BY <2>1, <2>6
  <2>9. QED
    BY <1>12, <2>6, <2>7, <2>8 DEF C, active, FollowsKeys
<1>15. CASE ~throws /\ source.active # <<>>
  <2> DEFINE r == BatchList(source, writes)
  <2>1. /\ r \in Seq(Url) /\ IsInjective(r)
        /\ \A x : Contains(r, x) <=> x \in active \/ x \in ToSet(planned)
        /\ \A i, j \in 1 .. Len(r) :
              i < j /\ r[i] \in active /\ r[j] \in active => MoreVotes(act, writes, r[i], r[j])
    BY <1>15, BatchListIsOrdered
  <2>2. plan = FromOrderedNodes(r)
    BY <1>4, <1>15 DEF BatchList
  <2>3. nodes = DrainPlan(plan)
    BY <1>15
  <2>4. \A n : Cardinality(Voters(act, writes, n)) = Share(n)
    BY <1>15, SharesAreVotes
  <2> HIDE DEF r, plan, planned, act, active, U, C, Share
  <2>5. nodes = r
    BY <2>1, <2>2, <2>3, OrderedPlanDrains
  <2>6. DOMAIN nodes = 1 .. Len(r)
    BY <2>1, <2>5
  <2>7. C \subseteq ToSet(nodes)
    <3>1. C = listed
      BY <1>10, <1>15 DEF C
    <3>2. ASSUME NEW x \in listed PROVE x \in ToSet(nodes)
      <4>1. x \in active \/ x \in ToSet(planned)
        BY <1>3, <3>2
      <4>2. Contains(r, x)
        BY <2>1, <4>1
      <4>3. QED
        BY <2>1, <2>5, <4>2, ContainsIsIn
    <3>3. QED
      BY <3>1, <3>2
  <2>8. ASSUME NEW i \in DOMAIN nodes, NEW j \in DOMAIN nodes, nodes[i] \in active,
               nodes[j] \in active, i < j
        PROVE  \/ Share(nodes[i]) > Share(nodes[j])
               \/ Share(nodes[i]) = Share(nodes[j]) /\ nodes[i] < nodes[j]
    <3>1. MoreVotes(act, writes, nodes[i], nodes[j])
      BY <2>1, <2>5, <2>6, <2>8
    <3>2. QED
      BY <2>4, <3>1 DEF MoreVotes
  <2>9. IsInjective(nodes)
    BY <2>1, <2>5
  <2>10. QED
    BY <1>12, <2>7, <2>8, <2>9 DEF C, active, U, Share, FollowsKeys
<1>16. QED
  BY <1>13, <1>14, <1>15

-----------------------------------------------------------------------------
(* Whether the outcome of a write depends on the item it writes to.        *)
DependsOnItem(request) ==
    \E a, b \in Items(request) : WriteOutcome(request, a) # WriteOutcome(request, b)

(* What the client finds in a write that reads.                            *)
Reads(request) == DoesWriteNeedReadBeforeWrite(request.kind, WriteOptions(request))

(* An attribute update uses the old value exactly when the translated one  *)
(* is an ADD, or a DELETE of elements.                                     *)
LEMMA UpdatesUseOldValues ==
    ASSUME NEW update \in SdkUpdate
    PROVE  LET action == ToAttributeAction(update.action)
               uses == action = "Add" \/ (action = "Delete" /\ update.has_value)
           IN  /\ uses => StoredValue(update, {}) # StoredValue(update, {2})
               /\ ~uses => \A old, other : StoredValue(update, old) = StoredValue(update, other)
<1>1. update.action \in {"NotSet", "Put", "Add", "Delete"} /\ update.has_value \in BOOLEAN
  BY DEF SdkUpdate
<1>2. {} # {2} /\ {} \cup {1} # {2} \cup {1} /\ {} \ {1} # {2} \ {1}
  OBVIOUS
<1>3. CASE update.action \in {"NotSet", "Put"}
  BY <1>3 DEF ToAttributeAction, StoredValue
<1>4. CASE update.action = "Add"
  BY <1>2, <1>4 DEF ToAttributeAction, StoredValue
<1>5. CASE update.action = "Delete"
  BY <1>1, <1>2, <1>5 DEF ToAttributeAction, StoredValue
<1>6. QED
  BY <1>1, <1>3, <1>4, <1>5

(* A write in which the client finds no read does the same to every item.  *)
LEMMA OthersDoNotRead ==
    ASSUME NEW request, Accepted(request), request.kind # "BatchWriteItem", ~Reads(request)
    PROVE  ~DependsOnItem(request)
<1> SUFFICES ASSUME NEW a \in Items(request), NEW b \in Items(request)
             PROVE  WriteOutcome(request, a) = WriteOutcome(request, b)
  BY DEF DependsOnItem
<1>1. ~request.condition /\ ~request.expected /\ request.return_values # "AllOld"
  BY DEF Reads, DoesWriteNeedReadBeforeWrite, WriteOptions
<1>2. Stored(request, a) = Stored(request, b)
  <2>1. CASE request.kind = "PutItem"
    BY <2>1 DEF Stored
  <2>2. CASE request.kind = "DeleteItem"
    BY <2>2 DEF Stored
  <2>3. CASE request.kind = "UpdateItem"
    <3>1. ~request.update_expression /\ Targets(request) = DOMAIN request.updates
      BY <2>3 DEF Reads, DoesWriteNeedReadBeforeWrite, WriteOptions, Targets
    <3>2. ASSUME NEW i \in DOMAIN request.updates
          PROVE  StoredValue(request.updates[i], a[i]) = StoredValue(request.updates[i], b[i])
      <4> DEFINE update == request.updates[i]
                 action == ToAttributeAction(update.action)
      <4>1. update \in SdkUpdate
        BY DEF Accepted
      <4>2. ~(action = "Add" \/ (action = "Delete" /\ update.has_value))
        BY <2>3 DEF Reads, DoesWriteNeedReadBeforeWrite, WriteOptions
      <4>3. QED
        BY <4>1, <4>2, UpdatesUseOldValues
    <3>3. QED
      BY <2>3, <3>1, <3>2 DEF Stored
  <2>4. QED
    BY <2>1, <2>2, <2>3 DEF Accepted
<1>3. request.return_values \in {"NotSet", "None", "UpdatedNew"}
  BY <1>1 DEF Accepted, ReturnValue, Reads, DoesWriteNeedReadBeforeWrite, WriteOptions
<1>4. Returned(request, a) = Returned(request, b)
  BY <1>2, <1>3 DEF Returned
<1>5. QED
  BY <1>1, <1>2, <1>4 DEF WriteOutcome

(* A write in which the client finds a read does one thing to an item of   *)
(* empty sets and another to an item of non-empty ones.                    *)
LEMMA ReadersRead ==
    ASSUME NEW request, Accepted(request), Reads(request), ~UpdatesNothing(request)
    PROVE  DependsOnItem(request)
<1> DEFINE D == {0, 1} \cup DOMAIN request.updates
           a == [i \in D |-> {}]
           b == [i \in D |-> {2}]
<1>1. a \in Items(request) /\ b \in Items(request)
  BY DEF Items
<1>2. {} # {2} /\ {} \cup {1} # {2} \cup {1}
  OBVIOUS
<1>3. \A i \in D : a[i] = {} /\ b[i] = {2}
  OBVIOUS
<1>4. Targets(request) \subseteq D
  BY DEF Targets
<1> HIDE DEF a, b
<1> SUFFICES WriteOutcome(request, a) # WriteOutcome(request, b)
  BY <1>1 DEF DependsOnItem
<1> SUFFICES ASSUME WriteOutcome(request, a) = WriteOutcome(request, b) PROVE FALSE
  OBVIOUS
<1>5. /\ ((request.condition \/ request.expected) => a[1] # {})
             = ((request.condition \/ request.expected) => b[1] # {})
      /\ Stored(request, a) = Stored(request, b)
      /\ Returned(request, a) = Returned(request, b)
  BY DEF WriteOutcome
<1>6. ~request.condition /\ ~request.expected
  BY <1>2, <1>3, <1>5
<1>7. request.return_values # "AllOld"
  BY <1>2, <1>3, <1>5 DEF Returned
<1>8. request.kind = "UpdateItem"
  BY <1>6, <1>7 DEF Reads, DoesWriteNeedReadBeforeWrite, WriteOptions
<1>9. ~request.update_expression
  <2> SUFFICES ASSUME request.update_expression PROVE FALSE
    OBVIOUS
  <2>1. Targets(request) = {1}
    BY DEF Targets
  <2>2. Stored(request, a)[1] = a[1] \cup {1} /\ Stored(request, b)[1] = b[1] \cup {1}
    BY <1>8, <2>1 DEF Stored
  <2>3. QED
    BY <1>2, <1>3, <1>5, <2>2
<1>10. request.return_values # "AllNew"
  <2> SUFFICES ASSUME request.return_values = "AllNew" PROVE FALSE
    OBVIOUS
  <2>1. Returned(request, a)[2] = a[0] /\ Returned(request, b)[2] = b[0]
    BY DEF Returned
  <2>2. QED
    BY <1>2, <1>3, <1>5, <2>1
<1>11. request.return_values # "UpdatedOld"
  <2> SUFFICES ASSUME request.return_values = "UpdatedOld" PROVE FALSE
    OBVIOUS
  <2>1. PICK i \in DOMAIN request.updates : TRUE
    <3> DEFINE updates == request.updates
    <3>1. updates \in Seq(SdkUpdate) /\ updates # <<>>
      BY <1>8, <1>9 DEF Accepted, UpdatesNothing
    <3> HIDE DEF updates
    <3>2. 1 \in DOMAIN updates
      BY <3>1
    <3>3. QED
      BY <3>2 DEF updates
  <2>2. i \in Targets(request)
    BY <1>8, <1>9 DEF Targets
  <2>3. Returned(request, a)[1][i] = a[i] /\ Returned(request, b)[1][i] = b[i]
    BY <2>2 DEF Returned
  <2>4. QED
    BY <1>2, <1>3, <1>5, <2>1, <2>3
<1>12. PICK i \in DOMAIN request.updates :
          LET action == ToAttributeAction(request.updates[i].action)
          IN  action = "Add" \/ (action = "Delete" /\ request.updates[i].has_value)
  BY <1>6, <1>7, <1>8, <1>9, <1>10, <1>11 DEF Reads, DoesWriteNeedReadBeforeWrite, WriteOptions
<1>13. request.updates[i] \in SdkUpdate
  BY DEF Accepted
<1>14. Stored(request, a)[i] = StoredValue(request.updates[i], a[i])
       /\ Stored(request, b)[i] = StoredValue(request.updates[i], b[i])
  BY <1>8, <1>9 DEF Stored, Targets
<1>15. QED
  BY <1>3, <1>5, <1>12, <1>13, <1>14, UpdatesUseOldValues

(* The client finds a read in the update of nothing that asks for the old  *)
(* values.                                                                 *)
LEMMA EmptyUpdatesAreReads ==
    ASSUME NEW request, UpdatesNothing(request)
    PROVE  Reads(request)
BY DEF UpdatesNothing, Reads, DoesWriteNeedReadBeforeWrite, WriteOptions

-----------------------------------------------------------------------------
(* Part 6.  The parser of /localnodes.                                     *)

Label == {"Open", "First", "Element", "Text", "Escape", "After", "Closed", "Threw"}

ParserState == [at : Label, out : Seq(Seq(Character)), value : Seq(Character)]

(* A character takes a parser from one state to another.                   *)
LEMMA ParserStays ==
    ASSUME NEW p \in ParserState, NEW ch \in Character
    PROVE  ParseCharacter(p, ch) \in ParserState
<1>1. p.value \in Seq(Character) /\ p.out \in Seq(Seq(Character)) /\ p.at \in Label
  BY DEF ParserState
<1>2. Append(p.out, p.value) \in Seq(Seq(Character)) /\ Append(p.value, ch) \in Seq(Character)
  BY <1>1
<1>3. <<>> \in Seq(Character)
  OBVIOUS
<1>4. p.value \o Unescaped(ch) \in Seq(Character)
  <2>1. <<ch>> \in Seq(Character) /\ <<"newline">> \in Seq(Character)
    <3>1. "newline" \in Character
      BY DEF Character
    <3>2. QED
      BY <3>1
  <2>2. Unescaped(ch) \in Seq(Character)
    BY <1>3, <2>1 DEF Unescaped
  <2>3. QED
    BY <1>1, <2>2
<1>5. Threw(p) \in ParserState
  BY DEF Threw, ParserState, Label
<1>6. AfterElement(p, ch) \in ParserState
  BY <1>5 DEF AfterElement, ParserState, Label
<1>7. BeforeElement(p, ch) \in ParserState
  BY <1>3, <1>5 DEF BeforeElement, ParserState, Label
<1>8. InText(p, ch) \in ParserState
  BY <1>2, <1>3 DEF InText, ParserState, Label
<1>9. InEscape(p, ch) \in ParserState
  BY <1>4, <1>5 DEF InEscape, ParserState, Label
<1>10. [p EXCEPT !.at = "First"] \in ParserState
  BY DEF ParserState, Label
<1>11. QED
  BY <1>5, <1>6, <1>7, <1>8, <1>9, <1>10 DEF ParseCharacter

(* The states of the parser on its way through a body.                     *)
Parses(h, body) ==
    /\ h \in [0 .. Len(body) -> ParserState]
    /\ h[0] = Parser
    /\ \A k \in 1 .. Len(body) : h[k] = ParseCharacter(h[k - 1], body[k])
    /\ FoldLeft(ParseCharacter, Parser, body) = h[Len(body)]

(* The parser takes a step for every character.                            *)
LEMMA ParserSteps ==
    ASSUME NEW body \in Seq(Character)
    PROVE  \E h : Parses(h, body)
<1> DEFINE n == Len(body)
           T == ParserState
           F == [k \in 1 .. n |-> [p \in T |-> ParseCharacter(p, body[k])]]
           Is(f) == f = [s \in SUBSET (1 .. n) |->
                           IF s = {} THEN Parser
                           ELSE ParseCharacter(f[s \ {Max(s)}], body[Max(s)])]
           iter == CHOOSE f : Is(f)
<1>1. n \in Nat /\ DOMAIN body = 1 .. n /\ \A k \in 1 .. n : body[k] \in Character
  OBVIOUS
<1>2. Parser \in T
  BY DEF Parser, ParserState, Label
<1>3. FoldLeft(ParseCharacter, Parser, body) = iter[1 .. n]
  BY <1>1, Zenon DEF FoldLeft, MapThenFoldSet
<1> HIDE DEF n, T
<1>4. F \in [1 .. n -> [T -> T]]
  BY <1>1, ParserStays DEF T
<1>5. \A k \in 1 .. n, x \in T : F[k][x] = ParseCharacter(x, body[k])
  OBVIOUS
<1>6. \A s \in SUBSET (1 .. n) : s # {} => Max(s) \in 1 .. n /\ s \ {Max(s)} \in SUBSET (1 .. n)
  BY <1>1, MaxIsAPlace
<1>7. \E f \in [SUBSET (1 .. n) -> T] : IsFold(f, n, Parser, F)
  <2> HIDE DEF F
  <2>1. QED
    BY <1>1, <1>2, <1>4, FoldExists
<1>8. PICK f \in [SUBSET (1 .. n) -> T] : IsFold(f, n, Parser, F)
  BY <1>7
<1> HIDE DEF F
<1>9. Is(f)
  BY <1>5, <1>6, <1>8 DEF IsFold
<1>10. Is(iter)
  <2> HIDE DEF Is
  <2>1. QED
    BY <1>9
<1> HIDE DEF iter
<1>11. IsFoldIn(T, iter, n, Parser, F)
  BY <1>5, <1>6, <1>10 DEF IsFoldIn
<1>12. PICK h \in [0 .. n -> T] : IsRun(h, n, Parser, F) /\ h[n] = iter[1 .. n]
  <2>1. RunsTo(T, n, Parser, F, iter[1 .. n])
    BY <1>1, <1>2, <1>4, <1>11, FoldSteps
  <2>2. QED
    BY <2>1 DEF RunsTo
<1>13. \A k \in 1 .. n : k - 1 \in 0 .. n
  BY <1>1
<1>14. h[0] = Parser /\ \A k \in 1 .. n : h[k] = ParseCharacter(h[k - 1], body[k])
  BY <1>5, <1>12, <1>13 DEF IsRun
<1>15. QED
  BY <1>3, <1>12, <1>14 DEF n, T, Parses

-----------------------------------------------------------------------------
(* Counting up to a place.                                                 *)

(* How many there are up to a place, from one place to the next.           *)
Counted(S, n) ==
    /\ UpTo(S, 0) = 0
    /\ \A k \in Nat : UpTo(S, k) \in Nat
    /\ \A k \in Nat : UpTo(S, k + 1) = IF k + 1 \in S THEN UpTo(S, k) + 1 ELSE UpTo(S, k)
    /\ UpTo(S, n) = Cardinality(S)

(* Counts are taken from one place to the next.                            *)
LEMMA CountSteps ==
    ASSUME NEW n \in Nat, NEW S \in SUBSET (1 .. n)
    PROVE  Counted(S, n)
<1>0. \A j \in S : j \in 1 .. n
  OBVIOUS
<1>1. IsFiniteSet(S)
  <2>1. IsFiniteSet(1 .. n)
    BY FS_Interval
  <2>2. QED
    BY <1>0, <2>1, FS_Subset
<1>2. \A k \in Nat : IsFiniteSet({j \in S : j <= k})
  BY <1>1, FS_Subset
<1>3. UpTo(S, 0) = 0
  <2>1. {j \in S : j <= 0} = {}
    <3>1. \A j \in S : ~(j <= 0)
      BY <1>0
    <3>2. QED
      BY <3>1, Zenon
  <2>2. QED
    BY <2>1, FS_EmptySet DEF UpTo
<1>4. \A k \in Nat : UpTo(S, k) \in Nat
  BY <1>2, FS_CardinalityType DEF UpTo
<1>5. ASSUME NEW k \in Nat
      PROVE  UpTo(S, k + 1) = IF k + 1 \in S THEN UpTo(S, k) + 1 ELSE UpTo(S, k)
  <2> DEFINE A == {j \in S : j <= k}
             B == {j \in S : j <= k + 1}
  <2>1. IsFiniteSet(A)
    BY <1>2
  <2>2. CASE k + 1 \in S
    <3>1. B = A \cup {k + 1} /\ k + 1 \notin A
      <4>1. \A j \in S : j <= k + 1 <=> j <= k \/ j = k + 1
        BY <1>0
      <4>2. ~(k + 1 <= k)
        OBVIOUS
      <4>3. QED
        BY <2>2, <4>1, <4>2, Zenon
    <3> HIDE DEF A, B
    <3>2. Cardinality(B) = Cardinality(A) + 1
      BY <2>1, <3>1, FS_AddElement
    <3>3. QED
      BY <2>2, <3>2 DEF UpTo, A, B
  <2>3. CASE k + 1 \notin S
    <3>1. B = A
      <4>1. \A j \in S : j <= k + 1 <=> j <= k \/ j = k + 1
        BY <1>0
      <4>2. QED
        BY <2>3, <4>1, Zenon
    <3>2. QED
      BY <2>3, <3>1 DEF UpTo
  <2>4. QED
    BY <2>2, <2>3
<1>6. UpTo(S, n) = Cardinality(S)
  <2>1. {j \in S : j <= n} = S
    <3>1. \A j \in S : j <= n
      BY <1>0
    <3>2. QED
      BY <3>1, Zenon
  <2>2. QED
    BY <2>1 DEF UpTo
<1>7. QED
  BY <1>3, <1>4, <1>5, <1>6 DEF Counted

(* Later places have counts that are not smaller.                          *)
LEMMA CountGrows ==
    ASSUME NEW n \in Nat, NEW S \in SUBSET (1 .. n), NEW j \in Nat, NEW k \in Nat, j <= k
    PROVE  UpTo(S, j) <= UpTo(S, k)
<1> DEFINE G == {d \in Nat : UpTo(S, j) <= UpTo(S, j + d)}
<1>1. UpTo(S, j) \in Nat /\ j + 0 = j
  BY CountSteps DEF Counted
<1>2. 0 \in G
  BY <1>1
<1>3. ASSUME NEW d \in Nat, d \in G PROVE d + 1 \in G
  <2>1. j + d \in Nat /\ (j + d) + 1 = j + (d + 1) /\ d + 1 \in Nat
    OBVIOUS
  <2>2. UpTo(S, j + d) \in Nat /\ UpTo(S, (j + d) + 1) \in Nat
        /\ UpTo(S, (j + d) + 1) >= UpTo(S, j + d)
    BY <2>1, CountSteps DEF Counted
  <2>3. UpTo(S, j) <= UpTo(S, j + d)
    BY <1>3
  <2>4. UpTo(S, j) <= UpTo(S, j + (d + 1))
    BY <1>1, <2>1, <2>2, <2>3
  <2>5. QED
    BY <2>1, <2>4
<1>4. \A d \in Nat : d \in G
  <2> HIDE DEF G
  <2>1. QED
    BY <1>2, <1>3, Induction
<1>5. k - j \in Nat /\ j + (k - j) = k
  OBVIOUS
<1>6. k - j \in G
  BY <1>4, <1>5
<1>7. UpTo(S, j) <= UpTo(S, j + (k - j))
  BY <1>6
<1>8. QED
  BY <1>5, <1>7

(* Every number up to how many there are is the count at some member.      *)
LEMMA CountReaches ==
    ASSUME NEW n \in Nat, NEW S \in SUBSET (1 .. n), NEW c \in 1 .. Cardinality(S)
    PROVE  \E j \in S : UpTo(S, j) = c
<1> DEFINE G == {k \in Nat : c <= UpTo(S, k) => \E j \in S : UpTo(S, j) = c}
<1>1. Counted(S, n)
  BY CountSteps
<1>2. UpTo(S, n) = Cardinality(S) /\ UpTo(S, n) \in Nat /\ c \in Nat /\ c >= 1 /\ c <= UpTo(S, n)
  BY <1>1 DEF Counted
<1>3. 0 \in G
  BY <1>1, <1>2 DEF Counted
<1>4. ASSUME NEW k \in Nat, k \in G PROVE k + 1 \in G
  <2>1. UpTo(S, k) \in Nat /\ UpTo(S, k + 1) = IF k + 1 \in S THEN UpTo(S, k) + 1 ELSE UpTo(S, k)
    BY <1>1 DEF Counted
  <2>2. CASE c <= UpTo(S, k)
    BY <1>4, <2>2
  <2>3. CASE ~(c <= UpTo(S, k)) /\ c <= UpTo(S, k + 1)
    <3>1. k + 1 \in S /\ UpTo(S, k + 1) = c
      BY <1>2, <2>1, <2>3
    <3>2. QED
      BY <3>1
  <2>4. CASE ~(c <= UpTo(S, k + 1))
    BY <2>4
  <2>5. QED
    BY <2>2, <2>3, <2>4
<1>5. \A k \in Nat : k \in G
  <2> HIDE DEF G
  <2>1. QED
    BY <1>3, <1>4, Induction
<1>6. n \in G
  BY <1>5
<1>7. QED
  BY <1>2, <1>6

(* A character is escaped if the one before it is a backslash that is not. *)
LEMMA EscapeSteps ==
    ASSUME NEW body \in Seq(Character)
    PROVE  /\ ~IsEscaped(body, 1)
           /\ \A k \in 1 .. Len(body) :
                 IsEscaped(body, k + 1) <=> body[k] = "backslash" /\ ~IsEscaped(body, k)
<1> DEFINE Others(k) == {0} \cup {j \in 1 .. k - 1 : body[j] # "backslash"}
<1>1. ASSUME NEW k \in 1 .. Len(body) + 1
      PROVE  Max(Others(k)) \in Others(k) /\ \A y \in Others(k) : Max(Others(k)) >= y
  <2>1. k - 1 \in Nat /\ Others(k) \in SUBSET (0 .. k - 1) /\ Others(k) # {}
    OBVIOUS
  <2> HIDE DEF Others
  <2>2. QED
    BY <2>1, MaxIsIn
<1>2. \A k \in 1 .. Len(body) + 1 : Max(Others(k)) \in 0 .. k - 1
  BY <1>1
<1>3. ~IsEscaped(body, 1)
  <2>1. Others(1) = {0}
    OBVIOUS
  <2>2. 1 \in 1 .. Len(body) + 1
    OBVIOUS
  <2>3. Max(Others(1)) = 0
    BY <1>1, <2>1, <2>2
  <2>4. QED
    BY <2>3 DEF IsEscaped
<1>4. ASSUME NEW k \in 1 .. Len(body)
      PROVE  IsEscaped(body, k + 1) <=> body[k] = "backslash" /\ ~IsEscaped(body, k)
  <2>1. k \in 1 .. Len(body) + 1 /\ k + 1 \in 1 .. Len(body) + 1 /\ (k + 1) - 1 = k
    OBVIOUS
  <2>2. CASE body[k] # "backslash"
    <3>1. k \in Others(k + 1) /\ \A y \in Others(k + 1) : y <= k
      BY <2>2
    <3> DEFINE m == Max(Others(k + 1))
    <3>2. m = k
      <4>1. m >= k /\ m <= k /\ m \in 0 .. k
        BY <1>1, <1>2, <2>1, <3>1
      <4> HIDE DEF m
      <4>2. QED
        BY <4>1
    <3>3. QED
      BY <2>1, <2>2, <3>2 DEF IsEscaped
  <2>3. CASE body[k] = "backslash"
    <3>1. Others(k + 1) = Others(k)
      BY <2>3
    <3> DEFINE m == Max(Others(k))
    <3>2. m \in Nat /\ m <= k - 1
      BY <1>2, <2>1
    <3>3. IsEscaped(body, k + 1) <=> (k - m) % 2 = 1
      BY <2>1, <3>1 DEF IsEscaped
    <3>4. IsEscaped(body, k) <=> (k - 1 - m) % 2 = 1
      BY DEF IsEscaped
    <3> HIDE DEF m
    <3>5. (k - m) % 2 = 1 <=> ~((k - 1 - m) % 2 = 1)
      BY <3>2
    <3>6. QED
      BY <2>3, <3>3, <3>4, <3>5
  <2>4. QED
    BY <2>2, <2>3
<1>5. QED
  BY <1>3, <1>4

-----------------------------------------------------------------------------
(* One character.                                                          *)

(* A character takes the parser from p to n.                               *)
Goes(p, n, at) == n.at = at /\ n.out = p.out

Moves(p, ch, n) ==
    /\ p.at = "Threw" => n.at = "Threw"
    /\ p.at \notin {"Threw", "Text", "Escape"} /\ ch \in Blank => n = p
    /\ p.at = "Open" /\ ch \notin Blank =>
          IF ch = "[" THEN Goes(p, n, "First") ELSE n.at = "Threw"
    /\ p.at \in {"First", "Element"} /\ ch = "quote" => Goes(p, n, "Text") /\ n.value = <<>>
    /\ p.at = "First" /\ ch = "]" => Goes(p, n, "Closed")
    /\ p.at = "First" /\ ch \notin Blank /\ ch \notin {"quote", "]"} => n.at = "Threw"
    /\ p.at = "Element" /\ ch \notin Blank /\ ch # "quote" => n.at = "Threw"
    /\ p.at = "After" /\ ch = "]" => Goes(p, n, "Closed")
    /\ p.at = "After" /\ ch = "comma" => Goes(p, n, "Element")
    /\ p.at = "After" /\ ch \notin Blank /\ ch \notin {"comma", "]"} => n.at = "Threw"
    /\ p.at = "Closed" /\ ch \notin Blank => n.at = "Threw"
    /\ p.at = "Text" /\ ch = "quote" => n.at = "After" /\ n.out = Append(p.out, p.value)
    /\ p.at = "Text" /\ ch = "backslash" => Goes(p, n, "Escape") /\ n.value = p.value
    /\ p.at = "Text" /\ ch \notin {"quote", "backslash"} =>
          Goes(p, n, "Text") /\ n.value = Append(p.value, ch)
    /\ p.at = "Escape" /\ ch \in {"quote", "backslash"} =>
          Goes(p, n, "Text") /\ n.value = Append(p.value, ch)
    /\ p.at = "Escape" /\ ch = "n" => Goes(p, n, "Text") /\ n.value = Append(p.value, "newline")
    /\ p.at = "Escape" /\ ch \notin {"quote", "backslash", "n"} => n.at = "Threw"

(* Where a character takes the parser.                                     *)
LEMMA ParserMoves ==
    ASSUME NEW p \in ParserState, NEW ch \in Character
    PROVE  Moves(p, ch, ParseCharacter(p, ch))
<1> DEFINE n == ParseCharacter(p, ch)
<1> SUFFICES Moves(p, ch, n)
  OBVIOUS
<1>0. \A x : x \in Blank <=> x = "blank" \/ x = "newline" \/ x = "formfeed"
  BY DEF Blank
<1>1. Threw(p).at = "Threw"
  BY DEF Threw, ParserState
<1>2. CASE p.at = "Threw"
  BY <1>2 DEF ParseCharacter, Moves, Goes
<1>3. CASE p.at = "Text"
  <2>1. n = InText(p, ch)
    BY <1>3 DEF ParseCharacter
  <2>2. QED
    BY <1>3, <2>1 DEF InText, ParserState, Moves, Goes
<1>4. CASE p.at = "Escape"
  <2>1. n = InEscape(p, ch)
    BY <1>4 DEF ParseCharacter
  <2>2. p.value \in Seq(Character) /\ "newline" \in Character
    BY DEF ParserState, Character
  <2>3. \A x \in Character : p.value \o <<x>> = Append(p.value, x)
    BY <2>2
  <2>4. QED
    BY <1>1, <1>4, <2>1, <2>2, <2>3 DEF InEscape, Unescaped, ParserState, Moves, Goes
<1>5. CASE p.at \notin {"Threw", "Text", "Escape"} /\ ch \in Blank
  <2>1. n = p
    BY <1>5 DEF ParseCharacter
  <2>2. QED
    BY <1>0, <1>5, <2>1 DEF Moves, Goes
<1>6. CASE p.at = "Open" /\ ch \notin Blank
  BY <1>1, <1>6 DEF ParseCharacter, ParserState, Threw, Moves, Goes
<1>7. CASE p.at \in {"First", "Element"} /\ ch \notin Blank
  <2>1. n = BeforeElement(p, ch)
    BY <1>7 DEF ParseCharacter
  <2>2. QED
    BY <1>1, <1>7, <2>1 DEF BeforeElement, ParserState, Moves, Goes
<1>8. CASE p.at = "After" /\ ch \notin Blank
  <2>1. n = AfterElement(p, ch)
    BY <1>8 DEF ParseCharacter
  <2>2. QED
    BY <1>1, <1>8, <2>1 DEF AfterElement, ParserState, Moves, Goes
<1>9. CASE p.at = "Closed" /\ ch \notin Blank
  <2>1. n = Threw(p)
    BY <1>9 DEF ParseCharacter
  <2>2. QED
    BY <1>1, <1>9, <2>1 DEF Moves, Goes
<1>10. p.at \in Label
  BY DEF ParserState
<1>11. QED
  BY <1>2, <1>3, <1>4, <1>5, <1>6, <1>7, <1>8, <1>9, <1>10 DEF Label

(* The marks an array has at its places.                                   *)
LEMMA MarksOfArrays ==
    /\ MarksAt(1) = {"["} /\ MarksAt(2) = {"quote", "]"}
    /\ \A j \in Nat : MarksAt(3 * j + 3) = {"quote"}
    /\ \A j \in Nat : j > 0 => MarksAt(3 * j + 1) = {"comma", "]"} /\ MarksAt(3 * j + 2) = {"quote"}
<1>1. MarksAt(1) = {"["} /\ MarksAt(2) = {"quote", "]"}
  BY DEF MarksAt
<1>2. ASSUME NEW j \in Nat PROVE MarksAt(3 * j + 3) = {"quote"}
  <2> DEFINE x == 3 * j + 3
  <2>1. x \in Nat /\ x > 2 /\ x # 1 /\ x # 2 /\ ~(x % 3 = 1)
    OBVIOUS
  <2> HIDE DEF x
  <2>2. MarksAt(x) = {"quote"}
    BY <2>1 DEF MarksAt
  <2>3. QED
    BY <2>2 DEF x
<1>3. ASSUME NEW j \in Nat, j > 0
      PROVE  MarksAt(3 * j + 1) = {"comma", "]"} /\ MarksAt(3 * j + 2) = {"quote"}
  <2> DEFINE x == 3 * j + 1
             y == 3 * j + 2
  <2>1. x \in Nat /\ x > 2 /\ x # 1 /\ x # 2 /\ x % 3 = 1
    BY <1>3
  <2>2. y \in Nat /\ y > 2 /\ y # 1 /\ y # 2 /\ ~(y % 3 = 1)
    BY <1>3
  <2> HIDE DEF x, y
  <2>3. MarksAt(x) = {"comma", "]"} /\ MarksAt(y) = {"quote"}
    BY <2>1, <2>2 DEF MarksAt
  <2>4. QED
    BY <2>3 DEF x, y
<1>4. QED
  BY <1>1, <1>2, <1>3

(* What is wrong with character k, after those before it.                  *)
IsClosed(body, k) == \E i \in Marks(body) : i <= k /\ body[i] = "]"

Wrong(body, k) ==
    \/ k \in Marks(body) /\ body[k] \notin MarksAt(UpTo(Marks(body), k))
    \/ k \in Marks(body) /\ IsClosed(body, k - 1)
    \/ k \in Text(body) /\ IsEscaped(body, k) /\ body[k] \notin {"quote", "backslash", "n"}

(* What character k + 1 is, from what is counted up to character k.        *)
Classified(body, k, ch, m, q, m1, q1) ==
    /\ m \in Nat /\ q \in Nat
    /\ k + 1 \in Quotes(body) <=> ch = "quote" /\ ~IsEscaped(body, k + 1)
    /\ q1 = IF k + 1 \in Quotes(body) THEN q + 1 ELSE q
    /\ k + 1 \in Text(body) <=> k + 1 \notin Quotes(body) /\ q1 % 2 = 1
    /\ k + 1 \in Marks(body) <=> k + 1 \notin Text(body) /\ ch \notin Blank
    /\ m1 = IF k + 1 \in Marks(body) THEN m + 1 ELSE m
    /\ IsEscaped(body, k + 2) <=> ch = "backslash" /\ ~IsEscaped(body, k + 1)
    /\ IsClosed(body, k + 1) <=> IsClosed(body, k) \/ (k + 1 \in Marks(body) /\ ch = "]")
    /\ Wrong(body, k + 1) <=>
          \/ k + 1 \in Marks(body) /\ (ch \notin MarksAt(m1) \/ IsClosed(body, k))
          \/ k + 1 \in Text(body) /\ IsEscaped(body, k + 1) /\ ch \notin {"quote", "backslash", "n"}

(* The sets of places a body has.                                          *)
LEMMA PlacesOfBody ==
    ASSUME NEW body \in Seq(Character)
    PROVE  /\ Quotes(body) \in SUBSET (1 .. Len(body)) /\ Marks(body) \in SUBSET (1 .. Len(body))
           /\ \A s : KeptIn(body, s) \in SUBSET (1 .. Len(body))
<1>1. DOMAIN body = 1 .. Len(body)
  OBVIOUS
<1>2. Text(body) \subseteq DOMAIN body
  BY Zenon DEF Text
<1>3. QED
  BY <1>1, <1>2, Zenon DEF Quotes, Marks, KeptIn

(* How the next character is classified.                                   *)
LEMMA CharactersAreClassified ==
    ASSUME NEW body \in Seq(Character), NEW k \in Nat, k < Len(body)
    PROVE  Classified(body, k, body[k + 1], UpTo(Marks(body), k), UpTo(Quotes(body), k),
                      UpTo(Marks(body), k + 1), UpTo(Quotes(body), k + 1))
<1> DEFINE ch == body[k + 1]
           Q == Quotes(body)
           M == Marks(body)
           n == Len(body)
<1>1. n \in Nat /\ k + 1 \in DOMAIN body /\ k + 1 \in 1 .. n /\ (k + 1) - 1 = k /\ (k + 1) + 1 = k + 2
  OBVIOUS
<1>2. Counted(Q, n) /\ Counted(M, n) /\ M \in SUBSET (1 .. n)
  BY PlacesOfBody, CountSteps
<1>3. k + 1 \in Q <=> ch = "quote" /\ ~IsEscaped(body, k + 1)
  BY <1>1, Zenon DEF Quotes
<1>4. k + 1 \in Text(body) <=> k + 1 \notin Q /\ UpTo(Q, k + 1) % 2 = 1
  BY <1>1, Zenon DEF Text
<1>5. k + 1 \in M <=> k + 1 \notin Text(body) /\ ch \notin Blank
  BY <1>1, Zenon DEF Marks
<1> HIDE DEF Q, M, n
<1>6. UpTo(Q, k) \in Nat /\ UpTo(Q, k + 1) = IF k + 1 \in Q THEN UpTo(Q, k) + 1 ELSE UpTo(Q, k)
  BY <1>2 DEF Counted
<1>10. UpTo(M, k) \in Nat /\ UpTo(M, k + 1) = IF k + 1 \in M THEN UpTo(M, k) + 1 ELSE UpTo(M, k)
  BY <1>2 DEF Counted
<1>7. IsEscaped(body, k + 2) <=> ch = "backslash" /\ ~IsEscaped(body, k + 1)
  BY <1>1, EscapeSteps DEF n
<1>8. IsClosed(body, k + 1) <=> IsClosed(body, k) \/ (k + 1 \in M /\ ch = "]")
  <2>1. \A i \in M : i <= k + 1 <=> i <= k \/ i = k + 1
    <3>1. \A i \in M : i \in 1 .. n
      BY <1>2
    <3>2. QED
      BY <3>1
  <2>2. QED
    BY <2>1, Zenon DEF IsClosed, M
<1>9. QED
  BY <1>1, <1>3, <1>4, <1>5, <1>6, <1>7, <1>8, <1>10 DEF Classified, Wrong, Q, M

(* The counts that go with what the parser does next when it has read j    *)
(* strings: m marks and q quotes.                                          *)
Placed(at, j, m, q) ==
    /\ at # "Threw"
    /\ at = "Open" => m = 0 /\ j = 0
    /\ at = "First" => m = 1 /\ j = 0
    /\ at \in {"Text", "Escape"} => m = 3 * j + 2
    /\ at = "After" => m = 3 * j /\ j > 0
    /\ at = "Element" => m = 3 * j + 1 /\ j > 0
    /\ q = IF at \in {"Text", "Escape"} THEN 2 * j + 1 ELSE 2 * j

(* So do the parser and the places of the body agree up to character k.    *)
Follows(p, body, k, m, q) ==
    /\ Placed(p.at, Len(p.out), m, q)
    /\ IsEscaped(body, k + 1) <=> p.at = "Escape"
    /\ IsClosed(body, k) <=> p.at = "Closed"

ParsesOn(n, body, k, m, q) == IF Wrong(body, k) THEN n.at = "Threw" ELSE Follows(n, body, k, m, q)

(* Even and odd numbers of quotes.                                         *)
LEMMA Parity ==
    \A j \in Nat : ~((2 * j) % 2 = 1) /\ (2 * j + 1) % 2 = 1 /\ ~((2 * j + 1 + 1) % 2 = 1)
  OBVIOUS

(* The parser goes on with the places of the body, or throws where one is  *)
(* wrong.                                                                  *)
LEMMA ParserFollows ==
    ASSUME NEW p \in ParserState, NEW ch \in Character, NEW body, NEW k, NEW m, NEW q,
           NEW m1, NEW q1, Classified(body, k, ch, m, q, m1, q1), (k + 1) + 1 = k + 2,
           Follows(p, body, k, m, q)
    PROVE  ParsesOn(ParseCharacter(p, ch), body, k + 1, m1, q1)
<1> DEFINE n == ParseCharacter(p, ch)
           j == Len(p.out)
           inQ == k + 1 \in Quotes(body)
           inT == k + 1 \in Text(body)
           inM == k + 1 \in Marks(body)
           esc == IsEscaped(body, k + 1)
           esc1 == IsEscaped(body, k + 2)
           shut == IsClosed(body, k)
           shut1 == IsClosed(body, k + 1)
           wrong == Wrong(body, k + 1)
           blank == ch \in Blank
<1>1. /\ m \in Nat /\ q \in Nat
      /\ inQ <=> ch = "quote" /\ ~esc
      /\ q1 = IF inQ THEN q + 1 ELSE q
      /\ inT <=> ~inQ /\ q1 % 2 = 1
      /\ inM <=> ~inT /\ ~blank
      /\ m1 = IF inM THEN m + 1 ELSE m
      /\ esc1 <=> ch = "backslash" /\ ~esc
      /\ shut1 <=> shut \/ (inM /\ ch = "]")
      /\ wrong <=> \/ inM /\ (ch \notin MarksAt(m1) \/ shut)
                   \/ inT /\ esc /\ ch \notin {"quote", "backslash", "n"}
  BY DEF Classified
<1>2. Placed(p.at, j, m, q) /\ (esc <=> p.at = "Escape") /\ (shut <=> p.at = "Closed")
  BY DEF Follows
<1>3. j \in Nat /\ p.at \in Label
  BY DEF ParserState
<1>4. blank <=> ch = "blank" \/ ch = "newline" \/ ch = "formfeed"
  BY DEF Blank
<1>5. (k + 1) + 1 = k + 2
  OBVIOUS
<1> SUFFICES IF wrong THEN n.at = "Threw"
             ELSE Placed(n.at, Len(n.out), m1, q1) /\ (esc1 <=> n.at = "Escape")
                  /\ (shut1 <=> n.at = "Closed")
  BY <1>5 DEF Follows, ParsesOn
<1>0. Moves(p, ch, n)
  BY ParserMoves
<1> HIDE DEF n, j, inQ, inT, inM, esc, esc1, shut, shut1, wrong, blank
<1>6. CASE p.at \notin {"Threw", "Text", "Escape"} /\ blank
  <2>1. n = p
    BY <1>0, <1>6 DEF Moves, Goes, blank
  <2>2. q = 2 * j /\ ~esc /\ ~inQ /\ q1 = q
    BY <1>1, <1>2, <1>4, <1>6 DEF Placed
  <2>3. ~inT /\ ~inM /\ m1 = m
    BY <1>1, <1>3, <1>6, <2>2, Parity
  <2>4. ~esc1 /\ (shut1 <=> shut) /\ ~wrong
    BY <1>1, <1>4, <1>6, <2>3
  <2>5. QED
    BY <1>2, <1>6, <2>1, <2>2, <2>3, <2>4 DEF j
<1>7. CASE p.at \notin {"Threw", "Text", "Escape"} /\ ~blank
  <2>1. q = 2 * j /\ ~esc
    BY <1>2, <1>7 DEF Placed
  <2>2. ~inT
    BY <1>1, <1>3, <2>1, Parity
  <2>3. inM /\ m1 = m + 1 /\ (wrong <=> ch \notin MarksAt(m1) \/ shut)
    BY <1>1, <1>7, <2>1, <2>2
  <2>4. /\ inQ <=> ch = "quote"
        /\ q1 = IF ch = "quote" THEN q + 1 ELSE q
        /\ shut1 <=> shut \/ ch = "]"
        /\ esc1 <=> ch = "backslash"
    BY <1>1, <2>1, <2>3
  <2>5. CASE p.at = "Closed"
    <3>1. n.at = "Threw"
      BY <1>0, <1>7, <2>5 DEF Moves, Goes, blank
    <3>2. wrong
      BY <1>2, <2>3, <2>5
    <3>3. QED
      BY <3>1, <3>2
  <2>6. CASE p.at = "Open"
    <3>1. m1 = 1 /\ ~shut /\ j = 0
      BY <1>2, <2>3, <2>6 DEF Placed
    <3>2. wrong <=> ch # "["
      BY <2>3, <3>1, MarksOfArrays
    <3>3. IF ch = "[" THEN n.at = "First" /\ n.out = p.out ELSE n.at = "Threw"
      BY <1>0, <1>7, <2>6 DEF Moves, Goes, blank
    <3>4. QED
      BY <2>1, <2>4, <3>1, <3>2, <3>3 DEF Placed, j
  <2>7. CASE p.at = "First"
    <3>1. m1 = 2 /\ ~shut /\ j = 0
      BY <1>2, <2>3, <2>7 DEF Placed
    <3>2. wrong <=> ch \notin {"quote", "]"}
      BY <2>3, <3>1, MarksOfArrays
    <3>3. /\ ch = "quote" => n.at = "Text" /\ n.out = p.out
          /\ ch = "]" => n.at = "Closed" /\ n.out = p.out
          /\ ch \notin {"quote", "]"} => n.at = "Threw"
      BY <1>0, <1>7, <2>7 DEF Moves, Goes, blank
    <3>4. QED
      BY <2>1, <2>4, <3>1, <3>2, <3>3 DEF Placed, j
  <2>8. CASE p.at = "Element"
    <3>1. m1 = 3 * j + 2 /\ ~shut /\ j > 0
      BY <1>2, <1>3, <2>3, <2>8 DEF Placed
    <3>2. wrong <=> ch # "quote"
      BY <1>3, <2>3, <3>1, MarksOfArrays
    <3>3. IF ch = "quote" THEN n.at = "Text" /\ n.out = p.out ELSE n.at = "Threw"
      BY <1>0, <1>7, <2>8 DEF Moves, Goes, blank
    <3>4. QED
      BY <2>1, <2>4, <3>1, <3>2, <3>3 DEF Placed, j
  <2>9. CASE p.at = "After"
    <3>1. m1 = 3 * j + 1 /\ ~shut /\ j > 0
      BY <1>2, <1>3, <2>3, <2>9 DEF Placed
    <3>2. wrong <=> ch \notin {"comma", "]"}
      BY <1>3, <2>3, <3>1, MarksOfArrays
    <3>3. /\ ch = "comma" => n.at = "Element" /\ n.out = p.out
          /\ ch = "]" => n.at = "Closed" /\ n.out = p.out
          /\ ch \notin {"comma", "]"} => n.at = "Threw"
      BY <1>0, <1>7, <2>9 DEF Moves, Goes, blank
    <3>4. QED
      BY <2>1, <2>4, <3>1, <3>2, <3>3 DEF Placed, j
  <2>10. QED
    BY <1>3, <1>7, <2>5, <2>6, <2>7, <2>8, <2>9 DEF Label
<1>8. CASE p.at = "Text"
  <2>1. q = 2 * j + 1 /\ m = 3 * j + 2 /\ ~esc /\ ~shut
    BY <1>2, <1>8 DEF Placed
  <2>2. CASE ch = "quote"
    <3>1. inQ /\ q1 = 2 * j + 1 + 1 /\ ~inT /\ inM /\ m1 = 3 * j + 3
      BY <1>1, <1>3, <1>4, <2>1, <2>2
    <3>2. ~wrong /\ ~esc1 /\ ~shut1
      BY <1>1, <1>3, <2>1, <2>2, <3>1, MarksOfArrays
    <3>3. n.at = "After" /\ n.out = Append(p.out, p.value)
      BY <1>0, <1>8, <2>2 DEF Moves, Goes
    <3>4. Len(n.out) = j + 1
      BY <3>3 DEF ParserState, j
    <3>5. QED
      BY <1>3, <3>1, <3>2, <3>3, <3>4 DEF Placed
  <2>3. CASE ch # "quote"
    <3>1. ~inQ /\ q1 = 2 * j + 1 /\ inT /\ ~inM /\ m1 = 3 * j + 2
      BY <1>1, <1>3, <2>1, <2>3, Parity
    <3>2. ~wrong /\ ~shut1 /\ (esc1 <=> ch = "backslash")
      BY <1>1, <2>1, <3>1
    <3>3. n.out = p.out /\ n.at = IF ch = "backslash" THEN "Escape" ELSE "Text"
      BY <1>0, <1>8, <2>3 DEF Moves, Goes
    <3>4. QED
      BY <3>1, <3>2, <3>3 DEF Placed, j
  <2>4. QED
    BY <2>2, <2>3
<1>9. CASE p.at = "Escape"
  <2>1. q = 2 * j + 1 /\ m = 3 * j + 2 /\ esc /\ ~shut
    BY <1>2, <1>9 DEF Placed
  <2>2. ~inQ /\ q1 = 2 * j + 1 /\ inT /\ ~inM /\ m1 = 3 * j + 2
    BY <1>1, <1>3, <2>1, Parity
  <2>3. ~shut1 /\ ~esc1 /\ (wrong <=> ch \notin {"quote", "backslash", "n"})
    BY <1>1, <2>1, <2>2
  <2>4. IF ch \in {"quote", "backslash", "n"} THEN n.at = "Text" /\ n.out = p.out ELSE n.at = "Threw"
    <3>1. CASE ch \in {"quote", "backslash"}
      BY <1>0, <1>9, <3>1 DEF Moves, Goes
    <3>2. CASE ch = "n"
      BY <1>0, <1>9, <3>2 DEF Moves, Goes
    <3>3. CASE ch \notin {"quote", "backslash", "n"}
      <4>1. n.at = "Threw"
        BY <1>0, <1>9, <3>3 DEF Moves, Goes
      <4>2. QED
        BY <3>3, <4>1
    <3>4. QED
      BY <3>1, <3>2, <3>3
  <2>5. QED
    BY <2>2, <2>3, <2>4 DEF Placed, j
<1>10. p.at # "Threw"
  BY <1>2 DEF Placed
<1>11. QED
  BY <1>6, <1>7, <1>8, <1>9, <1>10

-----------------------------------------------------------------------------
(* The strings.                                                            *)

(* v is what string number s means as far as character k.                  *)
Spelled(v, body, s, k) ==
    LET kept == KeptIn(body, s)
    IN  /\ Len(v) = UpTo(kept, k)
        /\ \A i \in kept : i <= k => v[UpTo(kept, i)] = Meant(body, i)

(* A character that is not of string s leaves it alone.                    *)
LEMMA SpelledStays ==
    ASSUME NEW body \in Seq(Character), NEW k \in Nat, NEW s, NEW v, Spelled(v, body, s, k),
           k + 1 \notin KeptIn(body, s)
    PROVE  Spelled(v, body, s, k + 1)
<1> DEFINE kept == KeptIn(body, s)
<1>1. kept \in SUBSET (1 .. Len(body)) /\ Len(body) \in Nat
  BY PlacesOfBody
<1>2. Len(v) = UpTo(kept, k) /\ \A i \in kept : i <= k => v[UpTo(kept, i)] = Meant(body, i)
  BY DEF Spelled
<1>3. k + 1 \notin kept
  OBVIOUS
<1> HIDE DEF kept
<1>4. UpTo(kept, k + 1) = UpTo(kept, k)
  BY <1>1, <1>3, CountSteps DEF Counted
<1>5. \A i \in kept : i <= k + 1 => i <= k
  <2>1. \A i \in kept : i \in 1 .. Len(body)
    BY <1>1
  <2>2. QED
    BY <1>3, <2>1
<1>6. Len(v) = UpTo(kept, k + 1)
      /\ \A i \in kept : i <= k + 1 => v[UpTo(kept, i)] = Meant(body, i)
  BY <1>2, <1>4, <1>5
<1>7. QED
  BY <1>6 DEF Spelled, kept

(* A character of string s is appended to it.                              *)
LEMMA SpelledGrows ==
    ASSUME NEW body \in Seq(Character), NEW k \in Nat, NEW s, NEW v \in Seq(Character),
           Spelled(v, body, s, k), k + 1 \in KeptIn(body, s)
    PROVE  Spelled(Append(v, Meant(body, k + 1)), body, s, k + 1)
<1> DEFINE kept == KeptIn(body, s)
           x == Meant(body, k + 1)
           w == Append(v, x)
<1>1. kept \in SUBSET (1 .. Len(body)) /\ Len(body) \in Nat
  BY PlacesOfBody
<1>2. Len(v) = UpTo(kept, k) /\ \A i \in kept : i <= k => v[UpTo(kept, i)] = Meant(body, i)
  BY DEF Spelled
<1>3. k + 1 \in kept
  OBVIOUS
<1>4. x \in Character
  <2>1. k + 1 \in 1 .. Len(body)
    BY <1>1, <1>3
  <2>2. body[k + 1] \in Character
    BY <2>1
  <2>3. "newline" \in Character
    BY DEF Character
  <2>4. QED
    BY <2>2, <2>3 DEF Meant
<1> HIDE DEF kept, x
<1>5. Len(w) = Len(v) + 1 /\ w[Len(v) + 1] = x /\ \A i \in 1 .. Len(v) : w[i] = v[i]
  BY <1>4
<1> HIDE DEF w
<1>6. UpTo(kept, k + 1) = UpTo(kept, k) + 1 /\ Counted(kept, Len(body))
  BY <1>1, <1>3, CountSteps DEF Counted
<1>7. ASSUME NEW i \in kept, i <= k + 1
      PROVE  w[UpTo(kept, i)] = Meant(body, i)
  <2>1. i \in Nat /\ i \in 1 .. Len(body)
    <3>1. i \in 1 .. Len(body)
      BY <1>1
    <3>2. QED
      BY <3>1
  <2>2. CASE i = k + 1
    BY <1>2, <1>5, <1>6, <2>2 DEF x
  <2>3. CASE i <= k
    <3>1. UpTo(kept, i) \in Nat /\ UpTo(kept, k) \in Nat
      BY <1>6, <2>1 DEF Counted
    <3>2. UpTo(kept, i) <= UpTo(kept, k)
      BY <1>1, <2>1, <2>3, CountGrows
    <3>3. UpTo(kept, i) >= 1
      <4> DEFINE c == i - 1
      <4>1. c \in Nat /\ c + 1 = i
        BY <2>1
      <4> HIDE DEF c
      <4>2. UpTo(kept, c) \in Nat /\ UpTo(kept, c + 1) = UpTo(kept, c) + 1
        BY <1>6, <4>1 DEF Counted
      <4>3. QED
        BY <4>1, <4>2
    <3>4. UpTo(kept, i) \in 1 .. Len(v)
      BY <1>2, <3>1, <3>2, <3>3
    <3>5. QED
      BY <1>2, <1>5, <2>3, <3>4
  <2>4. QED
    BY <1>7, <2>1, <2>2, <2>3
<1>8. Len(w) = UpTo(kept, k + 1)
  BY <1>2, <1>5, <1>6
<1>9. QED
  BY <1>7, <1>8 DEF Spelled, kept, w, x

(* At its first quote a string is empty.                                   *)
LEMMA SpelledStarts ==
    ASSUME NEW body \in Seq(Character), NEW k \in Nat, NEW s \in Nat, k + 1 \in Quotes(body),
           UpTo(Quotes(body), k + 1) = 2 * s - 1
    PROVE  Spelled(<<>>, body, s, k + 1)
<1> DEFINE kept == KeptIn(body, s)
           Q == Quotes(body)
<1>1. kept \in SUBSET (1 .. Len(body)) /\ Q \in SUBSET (1 .. Len(body)) /\ Len(body) \in Nat
  BY PlacesOfBody
<1>2. \A i \in kept : i \in Text(body) /\ UpTo(Q, i) = 2 * s - 1
  BY Zenon DEF KeptIn
<1>3. k + 1 \notin Text(body)
  BY Zenon DEF Text
<1>4. k + 1 \in Q /\ UpTo(Q, k + 1) = 2 * s - 1
  OBVIOUS
<1> HIDE DEF kept, Q
<1>5. Counted(Q, Len(body))
  BY <1>1, CountSteps
<1>6. UpTo(Q, k + 1) = UpTo(Q, k) + 1 /\ UpTo(Q, k) \in Nat
  BY <1>4, <1>5 DEF Counted
<1>7. ASSUME NEW i \in kept PROVE ~(i <= k + 1)
  <2>0. i \in 1 .. Len(body)
    BY <1>1
  <2>1. i \in Nat /\ i # k + 1
    BY <1>2, <1>3, <2>0
  <2>2. CASE i <= k
    <3>1. UpTo(Q, i) <= UpTo(Q, k)
      BY <1>1, <2>1, <2>2, CountGrows
    <3>2. QED
      BY <1>2, <1>4, <1>6, <3>1
  <2>3. QED
    BY <2>1, <2>2
<1>8. {i \in kept : i <= k + 1} = {}
  BY <1>7, Zenon
<1>9. UpTo(kept, k + 1) = 0
  BY <1>8, FS_EmptySet DEF UpTo
<1>10. QED
  BY <1>7, <1>9 DEF Spelled, kept

(* What the parser holds is what the strings mean as far as character k.   *)
Written(p, body, k) ==
    /\ \A s \in 1 .. Len(p.out) : Spelled(p.out[s], body, s, k)
    /\ p.at \in {"Text", "Escape"} => Spelled(p.value, body, Len(p.out) + 1, k)

(* A character that is not wrong is written to its string.                 *)
LEMMA ParserWrites ==
    ASSUME NEW body \in Seq(Character), NEW k \in Nat, k < Len(body), NEW p \in ParserState,
           NEW q, NEW m, NEW q1, NEW m1,
           q1 = UpTo(Quotes(body), k + 1),
           Follows(p, body, k, m, q), Classified(body, k, body[k + 1], m, q, m1, q1),
           Written(p, body, k), ~Wrong(body, k + 1)
    PROVE  Written(ParseCharacter(p, body[k + 1]), body, k + 1)
<1> DEFINE ch == body[k + 1]
           n == ParseCharacter(p, ch)
           j == Len(p.out)
<1>1. /\ p.out \in Seq(Seq(Character)) /\ p.value \in Seq(Character) /\ j \in Nat /\ p.at \in Label
      /\ ch \in Character /\ k + 1 \in DOMAIN body
  BY DEF ParserState
<1>0. Moves(p, ch, n)
  BY <1>1, ParserMoves
<1>2. Placed(p.at, j, m, q) /\ (IsEscaped(body, k + 1) <=> p.at = "Escape")
  BY DEF Follows
<1>3. q1 \in {q, q + 1} /\ q \in Nat /\ (k + 1 \in Quotes(body) => q1 = q + 1)
  BY DEF Classified
<1>4. q >= 2 * j
  BY <1>1, <1>2 DEF Placed
<1>5. \A s : k + 1 \in KeptIn(body, s) <=>
                /\ k + 1 \in Text(body) /\ q1 = 2 * s - 1
                /\ ch = "backslash" => IsEscaped(body, k + 1)
  BY Zenon DEF KeptIn
<1>6. ASSUME NEW s \in 1 .. j PROVE Spelled(p.out[s], body, s, k + 1)
  <2>1. Spelled(p.out[s], body, s, k)
    BY Zenon DEF Written
  <2>2. q1 # 2 * s - 1
    BY <1>1, <1>3, <1>4
  <2>3. k + 1 \notin KeptIn(body, s)
    BY <1>5, <2>2
  <2>4. QED
    BY <2>1, <2>3, SpelledStays
<1>12. ParsesOn(n, body, k + 1, m1, q1)
  <2>1. (k + 1) + 1 = k + 2
    OBVIOUS
  <2> HIDE DEF ch
  <2>2. Classified(body, k, ch, m, q, m1, q1)
    BY DEF ch
  <2> HIDE DEF n
  <2>3. QED
    BY <1>1, <2>1, <2>2, ParserFollows DEF n
<1> SUFFICES Written(n, body, k + 1)
  OBVIOUS
<1>13. Classified(body, k, ch, m, q, m1, q1)
  OBVIOUS
<1>14. Meant(body, k + 1) = IF IsEscaped(body, k + 1) /\ ch = "n" THEN "newline" ELSE ch
  BY DEF Meant
<1> HIDE DEF n, ch
<1>7. CASE n.out = p.out /\ n.at \notin {"Text", "Escape"}
  BY <1>6, <1>7, Zenon DEF Written
<1>8. CASE p.at \in {"First", "Element"} /\ ch = "quote"
  <2>1. n.out = p.out /\ n.value = <<>>
    BY <1>0, <1>1, <1>8 DEF Moves, Goes
  <2>2. k + 1 \in Quotes(body)
    BY <1>13, <1>2, <1>8 DEF Classified
  <2>3. q1 = 2 * (j + 1) - 1 /\ j + 1 \in Nat
    BY <1>1, <1>2, <1>3, <1>8, <2>2 DEF Placed
  <2>4. Spelled(<<>>, body, j + 1, k + 1)
    BY <2>2, <2>3, SpelledStarts
  <2>5. QED
    BY <1>6, <2>1, <2>4, Zenon DEF Written
<1>9. CASE p.at \in {"Text", "Escape"}
  <2>1. Spelled(p.value, body, j + 1, k) /\ q = 2 * j + 1
    BY <1>2, <1>9 DEF Written, Placed
  <2>2. CASE p.at = "Text" /\ ch = "quote"
    <3>1. n.at = "After" /\ n.out = Append(p.out, p.value)
      BY <1>0, <1>1, <2>2 DEF Moves, Goes
    <3>2. k + 1 \notin Text(body)
      BY <1>13, <1>2, <2>2 DEF Classified
    <3>3. Spelled(p.value, body, j + 1, k + 1)
      BY <1>5, <2>1, <3>2, SpelledStays
    <3>4. /\ Len(n.out) = j + 1 /\ n.out[j + 1] = p.value
          /\ \A s \in 1 .. j : n.out[s] = p.out[s]
      BY <1>1, <3>1
    <3>5. \A s \in 1 .. j + 1 : s \in 1 .. j \/ s = j + 1
      <4> HIDE DEF j
      <4>1. j \in Nat
        BY <1>1
      <4>2. QED
        BY <4>1
    <3>6. \A s \in 1 .. Len(n.out) : Spelled(n.out[s], body, s, k + 1)
      BY <1>6, <3>3, <3>4, <3>5
    <3>7. n.at \notin {"Text", "Escape"}
      BY <3>1
    <3>8. QED
      BY <3>6, <3>7 DEF Written
  <2>3. CASE ~(p.at = "Text" /\ ch = "quote")
    <3>1. k + 1 \notin Quotes(body) /\ q1 = 2 * j + 1
      BY <1>13, <1>2, <1>9, <2>1, <2>3 DEF Classified
    <3>2. k + 1 \in Text(body)
      BY <1>13, <1>1, <3>1, Parity DEF Classified
    <3>3. q1 = 2 * (j + 1) - 1
      BY <1>1, <3>1
    <3>4. CASE p.at = "Text" /\ ch = "backslash"
      <4>1. n.out = p.out /\ n.value = p.value
        BY <1>0, <1>1, <3>4 DEF Moves, Goes
      <4>2. k + 1 \notin KeptIn(body, j + 1)
        BY <1>2, <1>5, <3>4
      <4>3. Spelled(p.value, body, j + 1, k + 1)
        BY <2>1, <4>2, SpelledStays
      <4>4. QED
        BY <1>6, <4>1, <4>3, Zenon DEF Written
    <3>5. CASE ~(p.at = "Text" /\ ch = "backslash")
      <4>1. k + 1 \in KeptIn(body, j + 1)
        BY <1>2, <1>5, <1>9, <3>2, <3>3, <3>5
      <4>2. Spelled(Append(p.value, Meant(body, k + 1)), body, j + 1, k + 1)
        BY <1>1, <2>1, <4>1, SpelledGrows
      <4>3. n.out = p.out /\ n.value = Append(p.value, Meant(body, k + 1))
        <5>1. CASE p.at = "Text"
          <6>1. Meant(body, k + 1) = ch
            BY <1>14, <1>2, <5>1
          <6>2. QED
            BY <1>0, <1>1, <2>3, <3>5, <5>1, <6>1 DEF Moves, Goes
        <5>2. CASE p.at = "Escape"
          <6>1. ch \in {"quote", "backslash", "n"}
            BY <1>13, <1>2, <3>2, <5>2 DEF Classified
          <6>2. CASE ch = "n"
            <7>1. Meant(body, k + 1) = "newline"
              BY <1>14, <1>2, <5>2, <6>2
            <7>2. QED
              BY <1>0, <1>1, <5>2, <6>2, <7>1 DEF Moves, Goes
          <6>3. CASE ch \in {"quote", "backslash"}
            <7>1. Meant(body, k + 1) = ch
              BY <1>14, <6>3
            <7>2. QED
              BY <1>0, <1>1, <5>2, <6>3, <7>1 DEF Moves, Goes
          <6>4. QED
            BY <6>1, <6>2, <6>3
        <5>3. QED
          BY <1>9, <5>1, <5>2
      <4>4. QED
        BY <1>6, <4>2, <4>3, Zenon DEF Written
    <3>6. QED
      BY <3>4, <3>5
  <2>4. QED
    BY <2>2, <2>3
<1>10. (n.out = p.out /\ n.at \notin {"Text", "Escape"}) \/ (p.at \in {"First", "Element"} /\ ch = "quote")
       \/ p.at \in {"Text", "Escape"}
  <2>2. n.at # "Threw"
    BY <1>12 DEF ParsesOn, Follows, Placed
  <2>3. p.at # "Threw"
    BY <1>2 DEF Placed
  <2>4. CASE ch \in Blank
    BY <1>0, <1>1, <2>3, <2>4 DEF Moves, Goes, Label
  <2>5. CASE ch \notin Blank
    BY <1>0, <1>1, <2>2, <2>3, <2>5 DEF Moves, Goes, Label
  <2>6. QED
    BY <2>4, <2>5
<1>11. QED
  BY <1>7, <1>8, <1>9, <1>10

-----------------------------------------------------------------------------
(* The whole body.                                                         *)

(* What is known of the parser when it has read k characters.              *)
Sound(p, body, k) ==
    IF \E i \in 1 .. k : Wrong(body, i) THEN p.at = "Threw"
    ELSE /\ Follows(p, body, k, UpTo(Marks(body), k), UpTo(Quotes(body), k))
         /\ Written(p, body, k)

(* It is true before the first character.                                  *)
LEMMA ParserBegins ==
    ASSUME NEW body \in Seq(Character)
    PROVE  Sound(Parser, body, 0)
<1>1. UpTo(Marks(body), 0) = 0 /\ UpTo(Quotes(body), 0) = 0
  BY PlacesOfBody, CountSteps DEF Counted
<1>2. ~IsEscaped(body, 0 + 1)
  <2>1. 0 + 1 = 1
    OBVIOUS
  <2>2. QED
    BY <2>1, EscapeSteps
<1>3. ~IsClosed(body, 0)
  <2>1. \A i \in Marks(body) : i \in 1 .. Len(body)
    BY PlacesOfBody
  <2>2. \A i \in Marks(body) : ~(i <= 0)
    BY <2>1
  <2>3. QED
    BY <2>2, Zenon DEF IsClosed
<1>4. Parser.at = "Open" /\ Parser.out = <<>> /\ Len(Parser.out) = 0
  BY DEF Parser
<1>5. Placed(Parser.at, Len(Parser.out), 0, 0)
  BY <1>4 DEF Placed
<1>6. Follows(Parser, body, 0, 0, 0)
  BY <1>2, <1>3, <1>4, <1>5 DEF Follows
<1>7. Written(Parser, body, 0)
  BY <1>4 DEF Written
<1>8. ~ \E i \in 1 .. 0 : Wrong(body, i)
  OBVIOUS
<1>9. QED
  BY <1>1, <1>6, <1>7, <1>8 DEF Sound

(* It stays true from one character to the next.                           *)
LEMMA ParserGoesOn ==
    ASSUME NEW body \in Seq(Character), NEW k \in Nat, k < Len(body), NEW p \in ParserState,
           Sound(p, body, k)
    PROVE  Sound(ParseCharacter(p, body[k + 1]), body, k + 1)
<1> DEFINE ch == body[k + 1]
           n == ParseCharacter(p, ch)
           m == UpTo(Marks(body), k)
           q == UpTo(Quotes(body), k)
           m1 == UpTo(Marks(body), k + 1)
           q1 == UpTo(Quotes(body), k + 1)
<1>1. ch \in Character /\ (k + 1) + 1 = k + 2
  OBVIOUS
<1>2. \A i : i \in 1 .. k + 1 <=> i \in 1 .. k \/ i = k + 1
  OBVIOUS
<1>3. Classified(body, k, ch, m, q, m1, q1)
  BY CharactersAreClassified
<1>4. Moves(p, ch, n)
  BY <1>1, ParserMoves
<1>5. CASE \E i \in 1 .. k : Wrong(body, i)
  <2>1. p.at = "Threw"
    BY <1>5 DEF Sound
  <2>2. n.at = "Threw"
    BY <1>4, <2>1 DEF Moves
  <2>3. \E i \in 1 .. k + 1 : Wrong(body, i)
    BY <1>2, <1>5
  <2> HIDE DEF n
  <2>4. Sound(n, body, k + 1)
    BY <2>2, <2>3 DEF Sound
  <2>5. QED
    BY <2>4 DEF n
<1>6. CASE ~ \E i \in 1 .. k : Wrong(body, i)
  <2>1. Follows(p, body, k, m, q) /\ Written(p, body, k)
    BY <1>6 DEF Sound
  <2>2. ParsesOn(n, body, k + 1, m1, q1)
    <3> HIDE DEF ch, m, q, m1, q1
    <3>1. QED
      BY <1>1, <1>3, <2>1, ParserFollows
  <2>3. ~Wrong(body, k + 1) => Written(n, body, k + 1)
    <3>1. q1 = UpTo(Quotes(body), k + 1)
      OBVIOUS
    <3> HIDE DEF m, q, m1, q1
    <3>2. QED
      BY <1>3, <2>1, <3>1, ParserWrites
  <2>4. (\E i \in 1 .. k + 1 : Wrong(body, i)) <=> Wrong(body, k + 1)
    BY <1>2, <1>6, Zenon
  <2> HIDE DEF n
  <2>5. Sound(n, body, k + 1)
    BY <2>2, <2>3, <2>4 DEF Sound, ParsesOn
  <2>6. QED
    BY <2>5 DEF n
<1>7. QED
  BY <1>5, <1>6

(* It is true of the parser that has read the body.                        *)
LEMMA ParserEnds ==
    ASSUME NEW body \in Seq(Character)
    PROVE  \E p \in ParserState :
              FoldLeft(ParseCharacter, Parser, body) = p /\ Sound(p, body, Len(body))
<1> DEFINE n == Len(body)
<1>1. PICK h : Parses(h, body)
  BY ParserSteps
<1>2. n \in Nat
  OBVIOUS
<1>3. /\ h \in [0 .. n -> ParserState] /\ h[0] = Parser
      /\ \A k \in 1 .. n : h[k] = ParseCharacter(h[k - 1], body[k])
      /\ FoldLeft(ParseCharacter, Parser, body) = h[n]
  BY <1>1 DEF Parses
<1> DEFINE G == {k \in Nat : k <= n => Sound(h[k], body, k)}
<1>4. 0 \in G
  BY <1>3, ParserBegins
<1>5. ASSUME NEW k \in Nat, k \in G PROVE k + 1 \in G
  <2>1. CASE k + 1 <= n
    <3>1. k < n /\ k \in 0 .. n /\ k + 1 \in 1 .. n /\ (k + 1) - 1 = k
      BY <2>1, <1>2
    <3>2. h[k] \in ParserState /\ h[k + 1] = ParseCharacter(h[k], body[k + 1])
      <4> HIDE DEF n
      <4>1. h[k + 1] = ParseCharacter(h[(k + 1) - 1], body[k + 1])
        BY <1>3, <3>1
      <4>2. QED
        BY <1>3, <3>1, <4>1
    <3>3. Sound(h[k], body, k)
      BY <1>5, <3>1
    <3>4. Sound(ParseCharacter(h[k], body[k + 1]), body, k + 1)
      BY <3>1, <3>2, <3>3, ParserGoesOn
    <3>5. QED
      BY <3>2, <3>4
  <2>2. CASE ~(k + 1 <= n)
    BY <2>2
  <2>3. QED
    BY <2>1, <2>2
<1>6. \A k \in Nat : k \in G
  <2> HIDE DEF G
  <2>1. QED
    BY <1>4, <1>5, Induction
<1>7. Sound(h[n], body, n)
  BY <1>2, <1>6
<1>8. h[n] \in ParserState
  BY <1>2, <1>3
<1>9. QED
  BY <1>3, <1>7, <1>8

(* A body is an array if nothing is wrong with it and it is closed.        *)
LEMMA ArraysAreNotWrong ==
    ASSUME NEW body \in Seq(Character)
    PROVE  IsArrayButForControls(body) <=> /\ IsClosed(body, Len(body))
                             /\ ~ \E i \in 1 .. Len(body) : Wrong(body, i)
<1> DEFINE n == Len(body)
           M == Marks(body)
<1>1. M \in SUBSET (1 .. n) /\ n \in Nat
  BY PlacesOfBody
<1>2. Text(body) \subseteq 1 .. n
  <2>1. DOMAIN body = 1 .. n
    OBVIOUS
  <2>2. QED
    BY <2>1, Zenon DEF Text
<1>3. \A i \in M : i \in 1 .. n
  BY <1>1
<1>4. IsClosed(body, n) <=> \E k \in M : body[k] = "]"
  <2>1. \A i \in M : i <= n
    BY <1>3
  <2>2. QED
    BY <2>1, Zenon DEF IsClosed
<1>5. (\A j, k \in M : body[k] = "]" => j <= k) <=> ~ \E i \in M : IsClosed(body, i - 1)
  <2>1. \A j, k \in M : j <= k <=> ~(k <= j - 1)
    BY <1>3
  <2>2. QED
    BY <2>1, Zenon DEF IsClosed
<1>6. (\E i \in 1 .. n : Wrong(body, i)) <=>
         \/ \E i \in M : body[i] \notin MarksAt(UpTo(M, i))
         \/ \E i \in M : IsClosed(body, i - 1)
         \/ \E i \in Text(body) : IsEscaped(body, i) /\ body[i] \notin {"quote", "backslash", "n"}
  BY <1>2, <1>3, Zenon DEF Wrong
<1>7. QED
  BY <1>4, <1>5, <1>6, Zenon DEF IsArrayButForControls

(* What a string means is determined by its characters.                    *)
LEMMA SpelledIsMeant ==
    ASSUME NEW body \in Seq(Character), NEW s, NEW v \in Seq(Character),
           Spelled(v, body, s, Len(body))
    PROVE  v = [i \in 1 .. Cardinality(KeptIn(body, s)) |->
                   Meant(body, CHOOSE k \in KeptIn(body, s) : UpTo(KeptIn(body, s), k) = i)]
<1> DEFINE kept == KeptIn(body, s)
           n == Len(body)
           W(i) == CHOOSE k \in kept : UpTo(kept, k) = i
<1>1. kept \in SUBSET (1 .. n) /\ n \in Nat
  BY PlacesOfBody
<1>2. Len(v) = UpTo(kept, n) /\ \A i \in kept : i <= n => v[UpTo(kept, i)] = Meant(body, i)
  BY DEF Spelled
<1> HIDE DEF kept, n
<1>3. Counted(kept, n)
  BY <1>1, CountSteps
<1>4. Len(v) = Cardinality(kept)
  BY <1>2, <1>3 DEF Counted
<1>5. ASSUME NEW i \in 1 .. Cardinality(kept) PROVE v[i] = Meant(body, W(i))
  <2>1. \E k \in kept : UpTo(kept, k) = i
    BY <1>1, <1>4, <1>3, CountReaches
  <2>2. W(i) \in kept /\ UpTo(kept, W(i)) = i
    BY <2>1, Zenon
  <2> HIDE DEF W
  <2>3. W(i) <= n
    <3>1. W(i) \in 1 .. n
      BY <1>1, <2>2
    <3>2. QED
      BY <1>1, <3>1
  <2>4. v[UpTo(kept, W(i))] = Meant(body, W(i))
    BY <1>2, <2>2, <2>3
  <2>5. QED
    BY <2>2, <2>4
<1>6. v = [i \in 1 .. Cardinality(kept) |-> Meant(body, W(i))]
  <2> HIDE DEF W
  <2>1. DOMAIN v = 1 .. Cardinality(kept) /\ v = [i \in DOMAIN v |-> v[i]]
    BY <1>4
  <2>2. QED
    BY <1>5, <2>1
<1>7. QED
  BY <1>6 DEF kept, W

(* The parser takes the arrays of strings and no other body, and gives     *)
(* their strings.                                                          *)
LEMMA ParserIsExact ==
    ASSUME NEW body \in Seq(Character)
    PROVE  /\ ParseJsonStringArray(body).throws <=> ~IsArrayButForControls(body)
           /\ IsArrayButForControls(body) => ParseJsonStringArray(body).nodes = StringsOf(body)
<1> DEFINE n == Len(body)
           r == ParseJsonStringArray(body)
           Q == Quotes(body)
<1>1. PICK p \in ParserState : FoldLeft(ParseCharacter, Parser, body) = p /\ Sound(p, body, n)
  BY ParserEnds
<1>2. r.throws = (p.at # "Closed") /\ r.nodes = IF p.at = "Closed" THEN p.out ELSE <<>>
  BY <1>1 DEF ParseJsonStringArray
<1>3. IsArrayButForControls(body) <=> IsClosed(body, n) /\ ~ \E i \in 1 .. n : Wrong(body, i)
  BY ArraysAreNotWrong
<1>4. p.at = "Closed" <=> IsArrayButForControls(body)
  <2>1. CASE \E i \in 1 .. n : Wrong(body, i)
    <3>1. p.at = "Threw"
      BY <1>1, <2>1 DEF Sound
    <3>2. QED
      BY <1>3, <2>1, <3>1
  <2>2. CASE ~ \E i \in 1 .. n : Wrong(body, i)
    <3>1. IsClosed(body, n) <=> p.at = "Closed"
      BY <1>1, <2>2 DEF Sound, Follows
    <3>2. QED
      BY <1>3, <2>2, <3>1
  <2>3. QED
    BY <2>1, <2>2
<1>5. ASSUME IsArrayButForControls(body) PROVE p.out = StringsOf(body)
  <2>1. Follows(p, body, n, UpTo(Marks(body), n), UpTo(Q, n)) /\ Written(p, body, n)
    BY <1>1, <1>3, <1>5 DEF Sound
  <2>2. p.out \in Seq(Seq(Character)) /\ Len(p.out) \in Nat /\ p.at = "Closed"
    BY <1>4, <1>5 DEF ParserState
  <2>3. UpTo(Q, n) = 2 * Len(p.out)
    BY <2>1, <2>2 DEF Follows, Placed
  <2>4. UpTo(Q, n) = Cardinality(Q)
    BY PlacesOfBody, CountSteps DEF Counted
  <2>5. Cardinality(Q) \div 2 = Len(p.out)
    <3> DEFINE l == Len(p.out)
    <3>1. Cardinality(Q) = 2 * l /\ l \in Nat
      BY <2>2, <2>3, <2>4
    <3> HIDE DEF l
    <3>2. (2 * l) \div 2 = l
      BY <3>1
    <3>3. QED
      BY <3>1, <3>2 DEF l
  <2>6. ASSUME NEW s \in 1 .. Len(p.out)
        PROVE  p.out[s] = [i \in 1 .. Cardinality(KeptIn(body, s)) |->
                   Meant(body, CHOOSE k \in KeptIn(body, s) : UpTo(KeptIn(body, s), k) = i)]
    <3>1. p.out[s] \in Seq(Character)
      BY <2>2
    <3>2. Spelled(p.out[s], body, s, n)
      BY <2>1, Zenon DEF Written
    <3>3. QED
      BY <3>1, <3>2, SpelledIsMeant
  <2>7. p.out = [s \in 1 .. Len(p.out) |-> p.out[s]]
    BY <2>2
  <2>8. QED
    BY <2>5, <2>6, <2>7, Zenon DEF StringsOf
<1>6. QED
  BY <1>2, <1>4, <1>5

-----------------------------------------------------------------------------
(* Part 7.  The names of codings.                                          *)

(* What is left of a value without the blanks at its ends.                 *)
IsCut(value, a, b) ==
    /\ a \in 1 .. Len(value) /\ b \in 1 .. Len(value) /\ a <= b
    /\ value[a] # "blank" /\ value[b] # "blank"
    /\ \A i \in 1 .. Len(value) : value[i] # "blank" => a <= i /\ i <= b

(* TrimAscii cuts a value at its first and its last letter.                *)
LEMMA TrimIs ==
    ASSUME NEW S, NEW value \in Seq(S), NEW a, NEW b, IsCut(value, a, b)
    PROVE  TrimAscii(value) = SubSeq(value, a, b)
<1> DEFINE solid == {i \in DOMAIN value : value[i] # "blank"}
           First == CHOOSE i \in solid : \A j \in solid : i <= j
           Final == CHOOSE i \in solid : \A j \in solid : j <= i
<1>1. DOMAIN value = 1 .. Len(value)
  OBVIOUS
<1>2. a \in solid /\ b \in solid /\ \A j \in solid : a <= j /\ j <= b
  BY <1>1 DEF IsCut
<1>3. \A i \in solid : i \in Int
  BY <1>1
<1> HIDE DEF solid
<1>4. First = a
  <2>1. First \in solid /\ \A j \in solid : First <= j
    BY <1>2
  <2> HIDE DEF First
  <2>2. QED
    BY <1>2, <1>3, <2>1
<1>5. Final = b
  <2>1. Final \in solid /\ \A j \in solid : j <= Final
    BY <1>2
  <2> HIDE DEF Final
  <2>2. QED
    BY <1>2, <1>3, <2>1
<1>6. solid # {}
  BY <1>2
<1>7. TrimAscii(value) = SubSeq(value, First, Final)
  BY <1>6 DEF TrimAscii, solid
<1>8. QED
  BY <1>4, <1>5, <1>7

(* A value that is not blank has such a cut.                               *)
LEMMA CutExists ==
    ASSUME NEW S, NEW value \in Seq(S)
    PROVE  \/ TrimAscii(value) = <<>> /\ \A i \in 1 .. Len(value) : value[i] = "blank"
           \/ \E a, b \in 1 .. Len(value) : IsCut(value, a, b)
<1> DEFINE n == Len(value)
           solid == {i \in 1 .. n : value[i] # "blank"}
<1>1. n \in Nat /\ DOMAIN value = 1 .. n
  OBVIOUS
<1>2. CASE solid = {}
  BY <1>1, <1>2 DEF TrimAscii
<1>3. CASE solid # {}
  <2>1. solid \in SUBSET (1 .. n) /\ solid \in SUBSET (0 .. n) /\ solid \in SUBSET Nat
    <3>1. \A i \in 1 .. n : i \in 0 .. n /\ i \in Nat
      BY <1>1
    <3>2. QED
      BY <3>1, Zenon
  <2> DEFINE b == Max(solid)
  <2>2. b \in solid /\ \A j \in solid : b >= j
    <3> HIDE DEF solid, n
    <3>1. QED
      BY <1>1, <1>3, <2>1, MaxIsIn
  <2>3. PICK a \in solid : \A j \in solid : a <= j
    <3> HIDE DEF solid
    <3>1. QED
      BY <1>3, <2>1, HasLeast
  <2> HIDE DEF b
  <2>4. a \in 1 .. n /\ b \in 1 .. n /\ value[a] # "blank" /\ value[b] # "blank"
    BY <2>2, <2>3
  <2>5. \A i \in 1 .. n : value[i] # "blank" => a <= i /\ i <= b
    BY <1>1, <2>2, <2>3, <2>4
  <2>6. a <= b
    BY <2>2, <2>3
  <2>7. IsCut(value, a, b)
    BY <2>4, <2>5, <2>6 DEF IsCut
  <2>8. QED
    BY <2>4, <2>7
<1>4. QED
  BY <1>2, <1>3

(* A value with letters at both ends.                                      *)
Trimmed(value) == value # <<>> /\ value[1] # "blank" /\ value[Len(value)] # "blank"

(* Part of a sequence.                                                     *)
LEMMA PartOf ==
    ASSUME NEW S, NEW s \in Seq(S), NEW a \in 1 .. Len(s), NEW b \in 1 .. Len(s), a <= b
    PROVE  /\ SubSeq(s, a, b) \in Seq(S) /\ Len(SubSeq(s, a, b)) = b - a + 1
           /\ \A i \in 1 .. b - a + 1 : SubSeq(s, a, b)[i] = s[i + a - 1]
  OBVIOUS

(* What TrimAscii leaves is nothing or has letters at both ends.           *)
LEMMA TrimTrims ==
    ASSUME NEW S, NEW value \in Seq(S)
    PROVE  TrimAscii(value) \in Seq(S) /\ (TrimAscii(value) = <<>> \/ Trimmed(TrimAscii(value)))
<1>1. CASE TrimAscii(value) = <<>>
  BY <1>1
<1>2. CASE \E a, b \in 1 .. Len(value) : IsCut(value, a, b)
  <2>1. PICK a \in 1 .. Len(value), b \in 1 .. Len(value) : IsCut(value, a, b)
    BY <1>2
  <2> DEFINE t == SubSeq(value, a, b)
  <2>2. TrimAscii(value) = t
    BY <2>1, TrimIs
  <2>3. a <= b /\ value[a] # "blank" /\ value[b] # "blank"
    BY <2>1 DEF IsCut
  <2>4. t \in Seq(S) /\ Len(t) = b - a + 1 /\ \A i \in 1 .. b - a + 1 : t[i] = value[i + a - 1]
    BY <2>3, PartOf
  <2> HIDE DEF t
  <2>5. 1 \in 1 .. b - a + 1 /\ b - a + 1 \in 1 .. b - a + 1 /\ 1 + a - 1 = a
        /\ (b - a + 1) + a - 1 = b
    BY <2>3
  <2>6. t[1] = value[a] /\ t[Len(t)] = value[b] /\ t # <<>>
    BY <2>4, <2>5
  <2>7. QED
    BY <2>2, <2>3, <2>4, <2>6 DEF Trimmed
<1>3. QED
  BY <1>1, <1>2, CutExists

(* TrimAscii leaves such a value alone, and takes a blank before it.       *)
LEMMA TrimmedStays ==
    ASSUME NEW S, NEW value \in Seq(S), Trimmed(value), "blank" \in S
    PROVE  TrimAscii(value) = value /\ TrimAscii(<<"blank">> \o value) = value
<1> DEFINE n == Len(value)
           w == <<"blank">> \o value
<1>1. n \in Nat /\ n >= 1 /\ value[1] # "blank" /\ value[n] # "blank"
  BY DEF Trimmed
<1>2. IsCut(value, 1, n)
  BY <1>1 DEF IsCut
<1>3. SubSeq(value, 1, n) = value
  OBVIOUS
<1>4. TrimAscii(value) = value
  BY <1>2, <1>3, TrimIs
<1>5. w \in Seq(S) /\ Len(w) = n + 1 /\ w[1] = "blank" /\ \A i \in 1 .. n : w[i + 1] = value[i]
  OBVIOUS
<1>6. \A i \in 2 .. n + 1 : w[i] = value[i - 1]
  <2>1. \A i \in 2 .. n + 1 : i - 1 \in 1 .. n /\ (i - 1) + 1 = i
    BY <1>1
  <2> HIDE DEF w, n
  <2>2. QED
    BY <1>5, <2>1
<1> HIDE DEF w, n
<1>7. w[2] = value[1] /\ w[n + 1] = value[n]
  <2>1. 1 \in 1 .. n /\ n \in 1 .. n /\ 1 + 1 = 2
    BY <1>1
  <2>2. w[1 + 1] = value[1] /\ w[n + 1] = value[n]
    BY <1>5, <2>1
  <2>3. QED
    BY <2>1, <2>2
<1>8. IsCut(w, 2, n + 1)
  BY <1>1, <1>5, <1>7 DEF IsCut
<1>9. TrimAscii(w) = SubSeq(w, 2, n + 1)
  BY <1>5, <1>8, TrimIs
<1>10. SubSeq(w, 2, n + 1) = value
  <2> DEFINE t == SubSeq(w, 2, n + 1)
  <2>1. t \in Seq(S) /\ Len(t) = n /\ \A i \in 1 .. n : t[i] = w[i + 1]
    BY <1>1, <1>5
  <2> HIDE DEF t
  <2>2. \A i \in 1 .. n : t[i] = value[i]
    <3>1. \A i \in 1 .. n : i + 1 \in 2 .. n + 1 /\ (i + 1) - 1 = i
      BY <1>1
    <3>2. QED
      BY <1>6, <2>1, <3>1
  <2>3. Len(value) = n /\ value \in Seq(S)
    BY DEF n
  <2>4. t = value
    BY <2>1, <2>2, <2>3
  <2>5. QED
    BY <2>4 DEF t
<1>11. QED
  BY <1>4, <1>9, <1>10 DEF w

-----------------------------------------------------------------------------
(* Lower case.                                                             *)

(* Lower case keeps blanks and commas apart from letters.                  *)
LEMMA LowerLetters ==
    ASSUME NEW ch \in HeaderCharacter
    PROVE  /\ ToLowerLetter(ch) \in HeaderCharacter
           /\ ToLowerLetter(ToLowerLetter(ch)) = ToLowerLetter(ch)
           /\ ToLowerLetter(ch) = "blank" <=> ch = "blank"
           /\ ToLowerLetter(ch) = "comma" <=> ch = "comma"
  BY DEF ToLowerLetter, HeaderCharacter, Letter

(* The name of a coding as it is compared.                                 *)
Normal(name) ==
    /\ name \in Seq(HeaderCharacter) /\ Trimmed(name)
    /\ \A i \in 1 .. Len(name) : ToLowerLetter(name[i]) = name[i]

Commaless(name) == \A i \in 1 .. Len(name) : name[i] # "comma"

(* NormalizeResponseEncoding gives nothing or such a name, without commas  *)
(* if there were none.                                                     *)
LEMMA NormalizedIsNormal ==
    ASSUME NEW value \in Seq(HeaderCharacter)
    PROVE  LET name == NormalizeResponseEncoding(value)
           IN  /\ name \in Seq(HeaderCharacter)
               /\ name = <<>> \/ Normal(name)
               /\ value \in Seq(HeaderCharacter \ {"comma"}) => Commaless(name)
<1> DEFINE t == TrimAscii(value)
           name == NormalizeResponseEncoding(value)
<1>1. t \in Seq(HeaderCharacter) /\ (t = <<>> \/ Trimmed(t))
  BY TrimTrims
<1>2. value \in Seq(HeaderCharacter \ {"comma"}) => t \in Seq(HeaderCharacter \ {"comma"})
  BY TrimTrims
<1>3. name = [i \in DOMAIN t |-> ToLowerLetter(t[i])]
  BY DEF NormalizeResponseEncoding, ToLowerAscii
<1> HIDE DEF t, name
<1>4. DOMAIN t = 1 .. Len(t) /\ \A i \in 1 .. Len(t) : t[i] \in HeaderCharacter
  BY <1>1
<1>5. name \in Seq(HeaderCharacter) /\ Len(name) = Len(t)
      /\ \A i \in 1 .. Len(t) : name[i] = ToLowerLetter(t[i])
  <2>1. \A i \in 1 .. Len(t) : ToLowerLetter(t[i]) \in HeaderCharacter
    BY <1>4, LowerLetters
  <2>2. Len(t) \in Nat
    BY <1>1
  <2>3. QED
    BY <1>3, <1>4, <2>1, <2>2
<1>6. \A i \in 1 .. Len(t) : ToLowerLetter(name[i]) = name[i] /\ (name[i] = "blank" <=> t[i] = "blank")
                             /\ (name[i] = "comma" <=> t[i] = "comma")
  BY <1>4, <1>5, LowerLetters
<1>7. name = <<>> \/ Normal(name)
  <2>1. CASE t = <<>>
    BY <1>5, <2>1
  <2>2. CASE Trimmed(t)
    <3>1. Len(t) \in Nat /\ Len(t) >= 1 /\ t[1] # "blank" /\ t[Len(t)] # "blank"
      BY <1>1, <2>2 DEF Trimmed
    <3>2. 1 \in 1 .. Len(t) /\ Len(t) \in 1 .. Len(t)
      BY <3>1
    <3>3. name[1] # "blank" /\ name[Len(name)] # "blank" /\ name # <<>>
      BY <1>5, <1>6, <3>1, <3>2
    <3>4. QED
      BY <1>5, <1>6, <3>3 DEF Normal, Trimmed
  <2>3. QED
    BY <1>1, <2>1, <2>2
<1>8. ASSUME value \in Seq(HeaderCharacter \ {"comma"}) PROVE Commaless(name)
  <2>1. \A i \in 1 .. Len(t) : t[i] # "comma"
    BY <1>2, <1>8
  <2>2. QED
    BY <1>5, <1>6, <2>1 DEF Commaless
<1>9. QED
  BY <1>5, <1>7, <1>8 DEF name

(* Such a name is read as itself, also behind a blank.                     *)
LEMMA NormalStays ==
    ASSUME NEW name, Normal(name)
    PROVE  /\ NormalizeResponseEncoding(name) = name
           /\ NormalizeResponseEncoding(<<"blank">> \o name) = name
<1>1. name \in Seq(HeaderCharacter) /\ Trimmed(name) /\ "blank" \in HeaderCharacter
  BY DEF Normal, HeaderCharacter
<1>2. TrimAscii(name) = name /\ TrimAscii(<<"blank">> \o name) = name
  BY <1>1, TrimmedStays
<1>3. [i \in DOMAIN name |-> ToLowerLetter(name[i])] = name
  <2>1. DOMAIN name = 1 .. Len(name) /\ name = [i \in 1 .. Len(name) |-> name[i]]
    BY <1>1
  <2>2. QED
    BY <2>1 DEF Normal
<1>4. QED
  BY <1>2, <1>3 DEF NormalizeResponseEncoding, ToLowerAscii

-----------------------------------------------------------------------------
(* Reading a header.                                                       *)

ReadState == [encodings : Seq(Seq(HeaderCharacter)), token : Seq(HeaderCharacter)]

NothingRead == [encodings |-> <<>>, token |-> <<>>]

(* The end of an element.                                                  *)
LEMMA PushStays ==
    ASSUME NEW r \in ReadState
    PROVE  /\ PushToken(r) \in ReadState /\ PushToken(r).token = <<>>
           /\ PushToken(r).encodings = IF NormalizeResponseEncoding(r.token) = <<>> THEN r.encodings
                                       ELSE Append(r.encodings, NormalizeResponseEncoding(r.token))
<1> DEFINE t == NormalizeResponseEncoding(r.token)
<1>1. r.token \in Seq(HeaderCharacter) /\ r.encodings \in Seq(Seq(HeaderCharacter))
  BY DEF ReadState
<1>2. t \in Seq(HeaderCharacter)
  BY <1>1, NormalizedIsNormal
<1> HIDE DEF t
<1>3. Append(r.encodings, t) \in Seq(Seq(HeaderCharacter)) /\ <<>> \in Seq(HeaderCharacter)
  BY <1>1, <1>2
<1>4. PushToken(r) = [encodings |-> IF t = <<>> THEN r.encodings ELSE Append(r.encodings, t),
                      token |-> <<>>]
  BY DEF PushToken, t
<1>5. QED
  BY <1>1, <1>3, <1>4 DEF ReadState, t

(* A character.                                                            *)
LEMMA ReadStays ==
    ASSUME NEW r \in ReadState, NEW ch \in HeaderCharacter
    PROVE  /\ ReadLetter(r, ch) \in ReadState
           /\ ch = "comma" => ReadLetter(r, ch) = PushToken(r)
           /\ ch # "comma" =>
                 ReadLetter(r, ch) = [encodings |-> r.encodings, token |-> Append(r.token, ch)]
<1>1. CASE ch = "comma"
  BY <1>1, PushStays DEF ReadLetter
<1>2. CASE ch # "comma"
  <2>1. r.token \in Seq(HeaderCharacter) /\ r.encodings \in Seq(Seq(HeaderCharacter))
    BY DEF ReadState
  <2>2. Append(r.token, ch) \in Seq(HeaderCharacter)
    BY <2>1
  <2>3. ReadLetter(r, ch) = [r EXCEPT !.token = Append(r.token, ch)]
    BY <1>2 DEF ReadLetter
  <2>4. ReadLetter(r, ch) = [encodings |-> r.encodings, token |-> Append(r.token, ch)]
    BY <2>3 DEF ReadState
  <2>5. QED
    BY <1>2, <2>1, <2>2, <2>4 DEF ReadState
<1>3. QED
  BY <1>1, <1>2

(* What has been read on the way through a header.                         *)
Reading(h, header) ==
    /\ h \in [0 .. Len(header) -> ReadState]
    /\ h[0] = NothingRead
    /\ \A k \in 1 .. Len(header) : h[k] = ReadLetter(h[k - 1], header[k])
    /\ ReadHeader(header) = h[Len(header)]

(* A header is read character by character.                                *)
LEMMA HeaderSteps ==
    ASSUME NEW header \in Seq(HeaderCharacter)
    PROVE  \E h : Reading(h, header)
<1> DEFINE n == Len(header)
           T == ReadState
           base == NothingRead
           F == [k \in 1 .. n |-> [p \in T |-> ReadLetter(p, header[k])]]
           Is(f) == f = [s \in SUBSET (1 .. n) |->
                           IF s = {} THEN base
                           ELSE ReadLetter(f[s \ {Max(s)}], header[Max(s)])]
           iter == CHOOSE f : Is(f)
<1>1. n \in Nat /\ DOMAIN header = 1 .. n /\ \A k \in 1 .. n : header[k] \in HeaderCharacter
  OBVIOUS
<1>2. base \in T
  BY DEF NothingRead, ReadState
<1>3. ReadHeader(header) = iter[1 .. n]
  BY <1>1, Zenon DEF FoldLeft, MapThenFoldSet, ReadHeader, NothingRead
<1> HIDE DEF n, T, base
<1>4. F \in [1 .. n -> [T -> T]]
  BY <1>1, ReadStays DEF T
<1>5. \A k \in 1 .. n, x \in T : F[k][x] = ReadLetter(x, header[k])
  OBVIOUS
<1>6. \A s \in SUBSET (1 .. n) : s # {} => Max(s) \in 1 .. n /\ s \ {Max(s)} \in SUBSET (1 .. n)
  BY <1>1, MaxIsAPlace
<1>7. \E f \in [SUBSET (1 .. n) -> T] : IsFold(f, n, base, F)
  <2> HIDE DEF F
  <2>1. QED
    BY <1>1, <1>2, <1>4, FoldExists
<1>8. PICK f \in [SUBSET (1 .. n) -> T] : IsFold(f, n, base, F)
  BY <1>7
<1> HIDE DEF F
<1>9. Is(f)
  BY <1>5, <1>6, <1>8 DEF IsFold
<1>10. Is(iter)
  <2> HIDE DEF Is
  <2>1. QED
    BY <1>9
<1> HIDE DEF iter
<1>11. IsFoldIn(T, iter, n, base, F)
  BY <1>5, <1>6, <1>10 DEF IsFoldIn
<1>12. PICK h \in [0 .. n -> T] : IsRun(h, n, base, F) /\ h[n] = iter[1 .. n]
  <2>1. RunsTo(T, n, base, F, iter[1 .. n])
    BY <1>1, <1>2, <1>4, <1>11, FoldSteps
  <2>2. QED
    BY <2>1 DEF RunsTo
<1>13. \A k \in 1 .. n : k - 1 \in 0 .. n
  BY <1>1
<1>14. h[0] = base /\ \A k \in 1 .. n : h[k] = ReadLetter(h[k - 1], header[k])
  BY <1>5, <1>12, <1>13 DEF IsRun
<1>15. QED
  BY <1>3, <1>12, <1>14 DEF n, T, base, Reading

(* Two readings of one beginning are the same.                             *)
LEMMA SameReading ==
    ASSUME NEW v \in Seq(HeaderCharacter), NEW w \in Seq(HeaderCharacter), NEW g, NEW h,
           Reading(g, v), Reading(h, w), Len(v) <= Len(w), \A k \in 1 .. Len(v) : v[k] = w[k]
    PROVE  \A k \in 0 .. Len(v) : h[k] = g[k]
<1> DEFINE G == {k \in Nat : k <= Len(v) => h[k] = g[k]}
<1>1. 0 \in G
  BY DEF Reading
<1>2. ASSUME NEW k \in Nat, k \in G PROVE k + 1 \in G
  <2>1. CASE k + 1 <= Len(v)
    <3>1. k + 1 \in 1 .. Len(v) /\ k + 1 \in 1 .. Len(w) /\ (k + 1) - 1 = k
      BY <2>1
    <3>2. h[k] = g[k] /\ v[k + 1] = w[k + 1]
      BY <1>2, <2>1, <3>1
    <3>3. g[k + 1] = ReadLetter(g[(k + 1) - 1], v[k + 1])
          /\ h[k + 1] = ReadLetter(h[(k + 1) - 1], w[k + 1])
      BY <3>1 DEF Reading
    <3>4. h[k + 1] = g[k + 1]
      BY <3>1, <3>2, <3>3
    <3>5. QED
      BY <3>4
  <2>2. QED
    BY <2>1
<1>3. \A k \in Nat : k \in G
  <2> HIDE DEF G
  <2>1. QED
    BY <1>1, <1>2, Induction
<1>4. QED
  BY <1>3

(* Appending to the second of two sequences.                               *)
IsJoined(a, b, c) == Append(a \o b, c) = a \o Append(b, c)

LEMMA AppendJoined ==
    ASSUME NEW S, NEW a \in Seq(S), NEW b \in Seq(S), NEW c \in S
    PROVE  IsJoined(a, b, c)
<1> DEFINE x == Append(a \o b, c)
           y == a \o Append(b, c)
           l == Len(a)
           n == Len(b)
<1>1. l \in Nat /\ n \in Nat
  OBVIOUS
<1>2. x \in Seq(S) /\ Len(x) = l + n + 1 /\ x[l + n + 1] = c
      /\ (\A i \in 1 .. l : x[i] = a[i]) /\ \A i \in 1 .. n : x[l + i] = b[i]
  OBVIOUS
<1>3. y \in Seq(S) /\ Len(y) = l + n + 1 /\ y[l + n + 1] = c
      /\ (\A i \in 1 .. l : y[i] = a[i]) /\ \A i \in 1 .. n : y[l + i] = b[i]
  OBVIOUS
<1> HIDE DEF x, y, l, n
<1>4. ASSUME NEW i \in 1 .. l + n + 1 PROVE x[i] = y[i]
  <2>1. CASE i \in 1 .. l
    BY <1>2, <1>3, <2>1
  <2>2. CASE i = l + n + 1
    BY <1>2, <1>3, <2>2
  <2>3. CASE i > l /\ i <= l + n
    <3>1. i - l \in 1 .. n /\ l + (i - l) = i
      BY <1>1, <2>3
    <3>2. x[l + (i - l)] = y[l + (i - l)]
      BY <1>2, <1>3, <3>1
    <3>3. QED
      BY <3>1, <3>2
  <2>4. QED
    BY <1>1, <2>1, <2>2, <2>3
<1>5. x = y
  BY <1>2, <1>3, <1>4, SMTT(30)
<1>6. QED
  BY <1>5 DEF x, y, IsJoined

(* Reading a header and then more of it, without a comma.                  *)
LEMMA ReadWord ==
    ASSUME NEW v \in Seq(HeaderCharacter), NEW w \in Seq(HeaderCharacter), Commaless(w)
    PROVE  /\ ReadHeader(v) \in ReadState
           /\ ReadHeader(v \o w) = [encodings |-> ReadHeader(v).encodings,
                                    token |-> ReadHeader(v).token \o w]
<1> DEFINE x == v \o w
           l == Len(v)
           n == Len(w)
<1>1. x \in Seq(HeaderCharacter) /\ Len(x) = l + n /\ l \in Nat /\ n \in Nat
      /\ (\A k \in 1 .. l : x[k] = v[k]) /\ (\A k \in 1 .. n : x[l + k] = w[k])
  OBVIOUS
<1>2. PICK g : Reading(g, v)
  BY HeaderSteps
<1> HIDE DEF x
<1>3. PICK h : Reading(h, x)
  BY <1>1, HeaderSteps
<1> DEFINE r == ReadHeader(v)
<1>4. r = g[l] /\ r \in ReadState
  BY <1>1, <1>2 DEF Reading
<1>5. h[l] = r
  <2>1. l <= Len(x) /\ (\A k \in 1 .. l : v[k] = x[k]) /\ l \in 0 .. l
    BY <1>1
  <2>2. \A k \in 0 .. l : h[k] = g[k]
    BY <1>1, <1>2, <1>3, <2>1, SameReading, SMTT(30)
  <2>3. QED
    BY <1>4, <2>1, <2>2
<1>6. r.token \in Seq(HeaderCharacter) /\ r.encodings \in Seq(Seq(HeaderCharacter))
  BY <1>4 DEF ReadState
<1>12. \A k \in 1 .. l + n : h[k] = ReadLetter(h[k - 1], x[k])
  BY <1>1, <1>3 DEF Reading
<1>13. ReadHeader(x) = h[l + n]
  BY <1>1, <1>3 DEF Reading
<1>14. \A k \in 1 .. n : w[k] # "comma" /\ w[k] \in HeaderCharacter
  BY DEF Commaless
<1> HIDE DEF l, r, n
<1> DEFINE tok(k) == r.token \o SubSeq(w, 1, k)
           G == {k \in Nat : k <= n => h[l + k] = [encodings |-> r.encodings, token |-> tok(k)]}
<1>15. Len(w) = n
  BY DEF n
<1>7. 0 \in G
  <2>1. SubSeq(w, 1, 0) = <<>> /\ r.token \o <<>> = r.token
    BY <1>6
  <2>2. h[l + 0] = [encodings |-> r.encodings, token |-> r.token]
    BY <1>1, <1>4, <1>5 DEF ReadState
  <2>3. QED
    BY <2>1, <2>2
<1>8. ASSUME NEW k \in Nat, k \in G PROVE k + 1 \in G
  <2>1. CASE k + 1 <= n
    <3>1. k + 1 \in 1 .. n /\ l + (k + 1) \in 1 .. l + n /\ (l + (k + 1)) - 1 = l + k /\ k <= n
      BY <1>1, <2>1
    <3>2. h[l + k] = [encodings |-> r.encodings, token |-> tok(k)]
      BY <1>8, <3>1
    <3>3. h[l + (k + 1)] = ReadLetter(h[l + k], w[k + 1])
      BY <1>1, <1>12, <3>1
    <3>4. SubSeq(w, 1, k) \in Seq(HeaderCharacter)
      BY <1>15, <3>1
    <3>5. tok(k) \in Seq(HeaderCharacter)
      BY <1>6, <3>4
    <3>6. Append(tok(k), w[k + 1]) = tok(k + 1)
      <4>1. SubSeq(w, 1, k + 1) = Append(SubSeq(w, 1, k), w[k + 1])
        BY <1>1, <1>15, <3>1
      <4>2. w[k + 1] \in HeaderCharacter
        BY <1>14, <3>1
      <4> DEFINE y == SubSeq(w, 1, k)
                 c == w[k + 1]
      <4>3. y \in Seq(HeaderCharacter) /\ c \in HeaderCharacter
        BY <3>4, <4>2
      <4> HIDE DEF y, c
      <4>4. Append(r.token \o y, c) = r.token \o Append(y, c)
        <5> DEFINE a == r.token
        <5>1. a \in Seq(HeaderCharacter)
          BY <1>6
        <5> HIDE DEF a
        <5>2. IsJoined(a, y, c)
          BY <4>3, <5>1, AppendJoined
        <5>3. QED
          BY <5>2 DEF a, IsJoined
      <4>5. QED
        BY <4>1, <4>4 DEF y, c
    <3> HIDE DEF tok
    <3>7. [encodings |-> r.encodings, token |-> tok(k)] \in ReadState
      BY <1>6, <3>5 DEF ReadState
    <3>8. h[l + (k + 1)] = [encodings |-> r.encodings, token |-> Append(tok(k), w[k + 1])]
      BY <1>14, <3>1, <3>2, <3>3, <3>7, ReadStays
    <3>9. QED
      BY <3>6, <3>8
  <2>2. QED
    BY <2>1
<1>9. \A k \in Nat : k \in G
  <2> HIDE DEF G
  <2>1. QED
    BY <1>7, <1>8, Induction
<1>10. h[l + n] = [encodings |-> r.encodings, token |-> tok(n)]
  <2>1. n \in G
    <3> HIDE DEF G
    <3>1. QED
      BY <1>1, <1>9
  <2>3. n <= n
    BY <1>1
  <2> HIDE DEF tok
  <2>2. QED
    BY <2>1, <2>3
<1>11. SubSeq(w, 1, n) = w
  BY <1>15
<1>16. QED
  BY <1>4, <1>10, <1>11, <1>13 DEF r, x

(* Reading a comma.                                                        *)
LEMMA ReadComma ==
    ASSUME NEW v \in Seq(HeaderCharacter)
    PROVE  ReadHeader(Append(v, "comma")) = PushToken(ReadHeader(v))
<1> DEFINE x == Append(v, "comma")
           l == Len(v)
<1>1. x \in Seq(HeaderCharacter) /\ Len(x) = l + 1 /\ l \in Nat /\ x[l + 1] = "comma"
      /\ \A k \in 1 .. l : x[k] = v[k]
  <2>1. "comma" \in HeaderCharacter
    BY DEF HeaderCharacter
  <2>2. QED
    BY <2>1
<1>2. PICK g : Reading(g, v)
  BY HeaderSteps
<1> HIDE DEF x
<1>3. PICK h : Reading(h, x)
  BY <1>1, HeaderSteps
<1>4. ReadHeader(v) = g[l] /\ g[l] \in ReadState
  BY <1>1, <1>2 DEF Reading
<1>5. h[l] = g[l]
  <2>1. l <= Len(x) /\ (\A k \in 1 .. l : v[k] = x[k]) /\ l \in 0 .. l
    BY <1>1
  <2>2. \A k \in 0 .. l : h[k] = g[k]
    BY <1>1, <1>2, <1>3, <2>1, SameReading
  <2>3. QED
    BY <2>1, <2>2
<1>6. ReadHeader(x) = h[l + 1] /\ h[l + 1] = ReadLetter(h[l], x[l + 1])
  <2>1. l + 1 \in 1 .. Len(x) /\ (l + 1) - 1 = l
    BY <1>1
  <2>2. h[l + 1] = ReadLetter(h[(l + 1) - 1], x[l + 1])
    BY <1>3, <2>1 DEF Reading
  <2>3. QED
    BY <1>1, <1>3, <2>1, <2>2 DEF Reading
<1>7. QED
  BY <1>1, <1>4, <1>5, <1>6 DEF x, ReadLetter

(* Nothing is read in nothing.                                             *)
LEMMA ReadNothing ==
    ReadHeader(<<>>) = NothingRead /\ ParseContentEncodings(<<>>) = <<>>
<1>1. <<>> \in Seq(HeaderCharacter) /\ Len(<<>>) = 0
  OBVIOUS
<1>2. PICK h : Reading(h, <<>>)
  BY <1>1, HeaderSteps
<1>3. ReadHeader(<<>>) = NothingRead
  BY <1>1, <1>2 DEF Reading
<1>4. NothingRead \in ReadState /\ NothingRead.token = <<>> /\ NothingRead.encodings = <<>>
  BY DEF NothingRead, ReadState
<1>5. NormalizeResponseEncoding(<<>>) = <<>>
  <2>1. TrimAscii(<<>>) = <<>>
    BY DEF TrimAscii
  <2>2. QED
    BY <2>1 DEF NormalizeResponseEncoding, ToLowerAscii
<1>6. QED
  BY <1>3, <1>4, <1>5, PushStays DEF ParseContentEncodings

(* A header that is one name, and a header with one more name.             *)
LEMMA ParseJoined ==
    ASSUME NEW v \in Seq(HeaderCharacter), NEW e \in Seq(HeaderCharacter), Normal(e), Commaless(e)
    PROVE  /\ ParseContentEncodings(e) = <<e>>
           /\ ParseContentEncodings(v \o <<"comma", "blank">> \o e)
                 = Append(ParseContentEncodings(v), e)
<1>1. e # <<>> /\ NormalizeResponseEncoding(e) = e /\ NormalizeResponseEncoding(<<"blank">> \o e) = e
  BY NormalStays DEF Normal, Trimmed
<1>2. ParseContentEncodings(e) = <<e>>
  <2>1. <<>> \in Seq(HeaderCharacter) /\ <<>> \o e = e
    OBVIOUS
  <2>2. ReadHeader(<<>> \o e) = [encodings |-> ReadHeader(<<>>).encodings,
                                token |-> ReadHeader(<<>>).token \o e]
    BY <2>1, ReadWord
  <2> DEFINE r == [encodings |-> <<>>, token |-> e]
  <2>3. ReadHeader(e) = r
    <3>1. ReadHeader(<<>>).encodings = <<>> /\ ReadHeader(<<>>).token = <<>>
      BY ReadNothing DEF NothingRead
    <3>2. QED
      BY <2>1, <2>2, <3>1
  <2>4. r \in ReadState /\ r.token = e /\ r.encodings = <<>>
    BY DEF ReadState
  <2> HIDE DEF r
  <2>5. PushToken(r).encodings = Append(<<>>, e)
    BY <1>1, <2>4, PushStays
  <2>6. QED
    BY <2>3, <2>5 DEF ParseContentEncodings
<1>3. ParseContentEncodings(v \o <<"comma", "blank">> \o e) = Append(ParseContentEncodings(v), e)
  <2> DEFINE u == Append(v, "comma")
             w == <<"blank">> \o e
             x == v \o <<"comma", "blank">> \o e
  <2>0. "comma" \in HeaderCharacter /\ "blank" \in HeaderCharacter
    BY DEF HeaderCharacter
  <2>1. u \in Seq(HeaderCharacter) /\ w \in Seq(HeaderCharacter) /\ x \in Seq(HeaderCharacter)
    BY <2>0
  <2>2. x = u \o w
    BY <2>0
  <2>3. Commaless(w)
    BY DEF Commaless
  <2>4. ReadHeader(v) \in ReadState
    BY ReadWord
  <2>5. ReadHeader(u) = PushToken(ReadHeader(v))
    BY ReadComma
  <2> HIDE DEF u, w, x
  <2> DEFINE p == PushToken(ReadHeader(v))
             r == [encodings |-> p.encodings, token |-> w]
  <2>6. p \in ReadState /\ p.token = <<>> /\ p.encodings = ParseContentEncodings(v)
    BY <2>4, PushStays DEF ParseContentEncodings
  <2>7. p.token \o w = w
    BY <2>1, <2>6
  <2>8. ReadHeader(x) = r
    <3>1. ReadHeader(u \o w) = [encodings |-> ReadHeader(u).encodings,
                               token |-> ReadHeader(u).token \o w]
      BY <2>1, <2>3, ReadWord
    <3>2. ReadHeader(u) = p
      BY <2>5
    <3> HIDE DEF p
    <3>3. QED
      BY <2>2, <2>7, <3>1, <3>2
  <2>9. r \in ReadState /\ r.token = w /\ r.encodings = ParseContentEncodings(v)
    BY <2>1, <2>6 DEF ReadState
  <2> HIDE DEF r, p
  <2>10. NormalizeResponseEncoding(w) = e
    BY <1>1 DEF w
  <2>11. PushToken(r).encodings = Append(ParseContentEncodings(v), e)
    BY <1>1, <2>9, <2>10, PushStays
  <2>12. QED
    BY <2>8, <2>11 DEF ParseContentEncodings, x
<1>4. QED
  BY <1>2, <1>3

-----------------------------------------------------------------------------
(* The codings of the decoders.                                            *)

CodingText == Seq(HeaderCharacter)

Decoder == Seq(CodingText) \cup {NullDecoder}

Entries == Seq(Seq(HeaderCharacter)) \cup {FailureOfList}

(* Nothing that is read is the outcome of a throw.                         *)
LEMMA NotFailure ==
    /\ \A value \in Seq(HeaderCharacter) : value # Failure
    /\ \A entries \in Seq(Seq(HeaderCharacter)) : entries # FailureOfList
<1>1. "Throws" \notin HeaderCharacter
  BY DEF HeaderCharacter, Letter
<1>2. ASSUME NEW value \in Seq(HeaderCharacter) PROVE value # Failure
  <2>1. value = <<"Throws">> => value[1] = "Throws" /\ value[1] \in HeaderCharacter
    OBVIOUS
  <2>2. QED
    BY <1>1, <2>1 DEF Failure
<1>3. ASSUME NEW entries \in Seq(Seq(HeaderCharacter)) PROVE entries # FailureOfList
  <2>1. entries = <<Failure>> => entries[1] = Failure /\ entries[1] \in Seq(HeaderCharacter)
    OBVIOUS
  <2>2. QED
    BY <1>2, <2>1 DEF FailureOfList
<1>4. QED
  BY <1>2, <1>3

(* The name of a coding as it is added.                                    *)
LEMMA NamesAreNormal ==
    ASSUME NEW encoding \in CodingText
    PROVE  LET name == NormalizeResponseEncoding(encoding)
           IN  /\ name \in Seq(HeaderCharacter)
               /\ ~Contains(encoding, "comma") => Commaless(name)
               /\ name = <<>> \/ Normal(name)
<1>1. encoding \in Seq(HeaderCharacter)
  BY DEF CodingText
<1>2. ASSUME ~Contains(encoding, "comma") PROVE encoding \in Seq(HeaderCharacter \ {"comma"})
  <2> DEFINE C == HeaderCharacter \ {"comma"}
             n == Len(encoding)
  <2>1. n \in Nat /\ encoding \in [1 .. n -> HeaderCharacter]
    BY <1>1
  <2>2. \A i \in 1 .. n : encoding[i] \in C
    BY <1>2, <2>1 DEF Contains
  <2>3. encoding \in [1 .. n -> C]
    <3> HIDE DEF C, n
    <3>1. QED
      BY <2>1, <2>2
  <2> HIDE DEF C, n
  <2>4. encoding \in Seq(C)
    BY <2>1, <2>3
  <2>5. QED
    BY <2>4 DEF C
<1>3. QED
  BY <1>1, <1>2, NormalizedIsNormal

(* A coding is added to entries.                                           *)
LEMMA AddEncodingStays ==
    ASSUME NEW entries \in Entries, NEW encoding \in CodingText
    PROVE  AddEncoding(entries, encoding) \in Entries
<1> DEFINE name == NormalizeResponseEncoding(encoding)
<1>1. name \in Seq(HeaderCharacter)
  BY NamesAreNormal
<1> HIDE DEF name
<1>2. CASE entries = FailureOfList \/ name = <<>> \/ Contains(entries, name)
  BY <1>2 DEF AddEncoding, Entries, name
<1>3. CASE ~(entries = FailureOfList \/ name = <<>> \/ Contains(entries, name))
  <2>1. entries \in Seq(Seq(HeaderCharacter))
    BY <1>3 DEF Entries
  <2>2. Append(entries, name) \in Seq(Seq(HeaderCharacter))
    BY <1>1, <2>1
  <2>3. QED
    BY <1>3, <2>2 DEF AddEncoding, Entries, name
<1>4. QED
  BY <1>2, <1>3

(* The entries on the way through the codings of a decoder.                *)
AddingEncodings(h, entries, encodings) ==
    /\ h \in [0 .. Len(encodings) -> Entries]
    /\ h[0] = entries
    /\ \A k \in 1 .. Len(encodings) : h[k] = AddEncoding(h[k - 1], encodings[k])
    /\ FoldLeft(AddEncoding, entries, encodings) = h[Len(encodings)]

(* The codings of a decoder are added one after the other.                 *)
LEMMA EncodingSteps ==
    ASSUME NEW entries \in Entries, NEW encodings \in Seq(CodingText)
    PROVE  \E h : AddingEncodings(h, entries, encodings)
<1> DEFINE n == Len(encodings)
           T == Entries
           base == entries
           F == [k \in 1 .. n |-> [p \in T |-> AddEncoding(p, encodings[k])]]
           Is(f) == f = [s \in SUBSET (1 .. n) |->
                           IF s = {} THEN base
                           ELSE AddEncoding(f[s \ {Max(s)}], encodings[Max(s)])]
           iter == CHOOSE f : Is(f)
<1>1. n \in Nat /\ DOMAIN encodings = 1 .. n /\ \A k \in 1 .. n : encodings[k] \in CodingText
  OBVIOUS
<1>2. base \in T
  OBVIOUS
<1>3. FoldLeft(AddEncoding, entries, encodings) = iter[1 .. n]
  BY <1>1, Zenon DEF FoldLeft, MapThenFoldSet
<1> HIDE DEF n, T, base
<1>4. F \in [1 .. n -> [T -> T]]
  BY <1>1, AddEncodingStays DEF T
<1>5. \A k \in 1 .. n, x \in T : F[k][x] = AddEncoding(x, encodings[k])
  OBVIOUS
<1>6. \A s \in SUBSET (1 .. n) : s # {} => Max(s) \in 1 .. n /\ s \ {Max(s)} \in SUBSET (1 .. n)
  BY <1>1, MaxIsAPlace
<1>7. \E f \in [SUBSET (1 .. n) -> T] : IsFold(f, n, base, F)
  <2> HIDE DEF F
  <2>1. QED
    BY <1>1, <1>2, <1>4, FoldExists
<1>8. PICK f \in [SUBSET (1 .. n) -> T] : IsFold(f, n, base, F)
  BY <1>7
<1> HIDE DEF F
<1>9. Is(f)
  BY <1>5, <1>6, <1>8 DEF IsFold
<1>10. Is(iter)
  <2> HIDE DEF Is
  <2>1. QED
    BY <1>9
<1> HIDE DEF iter
<1>11. IsFoldIn(T, iter, n, base, F)
  BY <1>5, <1>6, <1>10 DEF IsFoldIn
<1>12. PICK h \in [0 .. n -> T] : IsRun(h, n, base, F) /\ h[n] = iter[1 .. n]
  <2>1. RunsTo(T, n, base, F, iter[1 .. n])
    BY <1>1, <1>2, <1>4, <1>11, FoldSteps
  <2>2. QED
    BY <2>1 DEF RunsTo
<1>13. \A k \in 1 .. n : k - 1 \in 0 .. n
  BY <1>1
<1>14. h[0] = base /\ \A k \in 1 .. n : h[k] = AddEncoding(h[k - 1], encodings[k])
  BY <1>5, <1>12, <1>13 DEF IsRun
<1>15. QED
  BY <1>3, <1>12, <1>14 DEF n, T, base, AddingEncodings

(* The codings of a decoder are added to entries.                          *)
LEMMA AddDecoderStays ==
    ASSUME NEW entries \in Entries, NEW encodings \in Decoder
    PROVE  AddDecoder(entries, encodings) \in Entries
<1>1. CASE encodings = NullDecoder \/ encodings = <<>>
  BY <1>1 DEF AddDecoder, Entries
<1>2. CASE ~(encodings = NullDecoder \/ encodings = <<>>)
  <2>0. encodings \in Seq(CodingText)
    BY <1>2 DEF Decoder
  <2>1. PICK h : AddingEncodings(h, entries, encodings)
    BY <2>0, EncodingSteps
  <2>2. FoldLeft(AddEncoding, entries, encodings) = h[Len(encodings)]
        /\ h[Len(encodings)] \in Entries
    <3>1. Len(encodings) \in 0 .. Len(encodings)
      BY <2>0
    <3>2. QED
      BY <2>1, <3>1 DEF AddingEncodings
  <2>3. QED
    BY <1>2, <2>2 DEF AddDecoder
<1>3. QED
  BY <1>1, <1>2

(* The entries on the way through the decoders.                            *)
AddingDecoders(h, decoders) ==
    /\ h \in [0 .. Len(decoders) -> Entries]
    /\ h[0] = <<>>
    /\ \A k \in 1 .. Len(decoders) : h[k] = AddDecoder(h[k - 1], decoders[k])
    /\ BuildDecoderEntries(decoders) = h[Len(decoders)]

(* The decoders are added one after the other.                             *)
LEMMA DecoderSteps ==
    ASSUME NEW decoders \in Seq(Decoder)
    PROVE  \E h : AddingDecoders(h, decoders)
<1> DEFINE n == Len(decoders)
           T == Entries
           base == <<>>
           F == [k \in 1 .. n |-> [p \in T |-> AddDecoder(p, decoders[k])]]
           Is(f) == f = [s \in SUBSET (1 .. n) |->
                           IF s = {} THEN base
                           ELSE AddDecoder(f[s \ {Max(s)}], decoders[Max(s)])]
           iter == CHOOSE f : Is(f)
<1>1. n \in Nat /\ DOMAIN decoders = 1 .. n /\ \A k \in 1 .. n : decoders[k] \in Decoder
  OBVIOUS
<1>2. base \in T
  BY DEF Entries
<1>3. BuildDecoderEntries(decoders) = iter[1 .. n]
  BY <1>1, Zenon DEF FoldLeft, MapThenFoldSet, BuildDecoderEntries
<1> HIDE DEF n, T, base
<1>4. F \in [1 .. n -> [T -> T]]
  BY <1>1, AddDecoderStays DEF T
<1>5. \A k \in 1 .. n, x \in T : F[k][x] = AddDecoder(x, decoders[k])
  OBVIOUS
<1>6. \A s \in SUBSET (1 .. n) : s # {} => Max(s) \in 1 .. n /\ s \ {Max(s)} \in SUBSET (1 .. n)
  BY <1>1, MaxIsAPlace
<1>7. \E f \in [SUBSET (1 .. n) -> T] : IsFold(f, n, base, F)
  <2> HIDE DEF F
  <2>1. QED
    BY <1>1, <1>2, <1>4, FoldExists
<1>8. PICK f \in [SUBSET (1 .. n) -> T] : IsFold(f, n, base, F)
  BY <1>7
<1> HIDE DEF F
<1>9. Is(f)
  BY <1>5, <1>6, <1>8 DEF IsFold
<1>10. Is(iter)
  <2> HIDE DEF Is
  <2>1. QED
    BY <1>9
<1> HIDE DEF iter
<1>11. IsFoldIn(T, iter, n, base, F)
  BY <1>5, <1>6, <1>10 DEF IsFoldIn
<1>12. PICK h \in [0 .. n -> T] : IsRun(h, n, base, F) /\ h[n] = iter[1 .. n]
  <2>1. RunsTo(T, n, base, F, iter[1 .. n])
    BY <1>1, <1>2, <1>4, <1>11, FoldSteps
  <2>2. QED
    BY <2>1 DEF RunsTo
<1>13. \A k \in 1 .. n : k - 1 \in 0 .. n
  BY <1>1
<1>14. h[0] = base /\ \A k \in 1 .. n : h[k] = AddDecoder(h[k - 1], decoders[k])
  BY <1>5, <1>12, <1>13 DEF IsRun
<1>15. QED
  BY <1>3, <1>12, <1>14 DEF n, T, base, AddingDecoders

(* A decoder is a sequence.                                                *)
LEMMA DecodersAreSequences ==
    ASSUME NEW encodings \in Decoder
    PROVE  Len(encodings) \in Nat /\ DOMAIN encodings = 1 .. Len(encodings)
BY DEF Decoder, NullDecoder

(* The places that decoders name codings at.                               *)
LEMMA PlacesAre ==
    ASSUME NEW decoders \in Seq(Decoder), NEW p
    PROVE  p \in Places(decoders) <=>
              \E d \in 1 .. Len(decoders) : \E i \in 1 .. Len(decoders[d]) : p = <<d, i>>
<1>1. DOMAIN decoders = 1 .. Len(decoders)
  OBVIOUS
<1>2. \A d \in 1 .. Len(decoders) : DOMAIN decoders[d] = 1 .. Len(decoders[d])
  <2>1. \A d \in 1 .. Len(decoders) : decoders[d] \in Decoder
    OBVIOUS
  <2>2. QED
    BY <2>1, DecodersAreSequences
<1>3. p \in Places(decoders) <=>
         \E d \in 1 .. Len(decoders) : p \in {d} \X (1 .. Len(decoders[d]))
  BY <1>1, <1>2, Zenon DEF Places
<1>4. QED
  BY <1>3

(* A coding that is named at a place.                                      *)
LEMMA NameIs ==
    ASSUME NEW decoders \in Seq(Decoder), NEW d \in 1 .. Len(decoders),
           NEW i \in 1 .. Len(decoders[d])
    PROVE  /\ <<d, i>> \in Places(decoders)
           /\ decoders[d] # NullDecoder => decoders[d][i] \in CodingText
           /\ NameAt(decoders, <<d, i>>) = NormalizeResponseEncoding(decoders[d][i])
           /\ HasNoComma(decoders) => ~Contains(decoders[d][i], "comma")
<1>1. <<d, i>> \in Places(decoders)
  BY PlacesAre
<1>2. decoders[d] \in Decoder
  OBVIOUS
<1>3. ASSUME decoders[d] # NullDecoder PROVE decoders[d][i] \in CodingText
  <2>1. decoders[d] \in Seq(CodingText)
    BY <1>2, <1>3 DEF Decoder
  <2>2. QED
    BY <2>1
<1>4. HasNoComma(decoders) => ~Contains(decoders[d][i], "comma")
  <2> DEFINE p == <<d, i>>
  <2>1. p \in Places(decoders) /\ p[1] = d /\ p[2] = i
    BY <1>1
  <2> HIDE DEF p
  <2>2. HasNoComma(decoders) => ~Contains(decoders[p[1]][p[2]], "comma")
    BY <2>1, Zenon DEF HasNoComma
  <2>3. QED
    BY <2>1, <2>2
<1>5. QED
  BY <1>1, <1>3, <1>4 DEF NameAt

(* A name that a header can list.                                          *)
Listable(decoders, name) == Normal(name) /\ (HasNoComma(decoders) => Commaless(name))

(* Entries are the codings named at the places P.                          *)
Collected(entries, decoders, P) ==
    IF entries = FailureOfList THEN ~IsUsable(decoders)
    ELSE /\ \A i \in 1 .. Len(entries) : Listable(decoders, entries[i])
         /\ \A i, j \in 1 .. Len(entries) : entries[i] = entries[j] => i = j
         /\ \A p \in P : \E i \in 1 .. Len(entries) : entries[i] = NameAt(decoders, p)
         /\ \A i \in 1 .. Len(entries) : \E p \in P : entries[i] = NameAt(decoders, p)
         /\ \A p \in P : NameAt(decoders, p) # <<>>
         /\ \A p, q \in P : NameAt(decoders, p) = NameAt(decoders, q) => p = q

(* One more coding.                                                        *)
LEMMA EncodingCollected ==
    ASSUME NEW decoders \in Seq(Decoder), NEW d \in 1 .. Len(decoders),
           NEW i \in 1 .. Len(decoders[d]), NEW P \in SUBSET Places(decoders), <<d, i>> \notin P,
           NEW entries \in Entries, Collected(entries, decoders, P), decoders[d] # NullDecoder
    PROVE  Collected(AddEncoding(entries, decoders[d][i]), decoders, P \cup {<<d, i>>})
<1> DEFINE p == <<d, i>>
           name == NormalizeResponseEncoding(decoders[d][i])
           new == AddEncoding(entries, decoders[d][i])
<1>1. p \in Places(decoders) /\ NameAt(decoders, p) = name /\ p \notin P
  BY NameIs
<1>2. name \in Seq(HeaderCharacter) /\ (name = <<>> \/ Listable(decoders, name))
  <2>1. /\ decoders[d][i] \in CodingText
        /\ HasNoComma(decoders) => ~Contains(decoders[d][i], "comma")
    BY NameIs
  <2>2. QED
    BY <2>1, NamesAreNormal DEF Listable
<1>3. new = IF entries = FailureOfList \/ name = <<>> \/ Contains(entries, name)
            THEN FailureOfList ELSE Append(entries, name)
  BY DEF AddEncoding
<1> HIDE DEF p, name, new
<1>4. CASE entries = FailureOfList
  BY <1>3, <1>4 DEF Collected, new
<1>5. CASE entries # FailureOfList /\ name = <<>>
  <2>1. ~IsUsable(decoders)
    BY <1>1, <1>5 DEF IsUsable
  <2>2. QED
    BY <1>3, <1>5, <2>1 DEF Collected, new
<1>6. CASE entries # FailureOfList /\ Contains(entries, name)
  <2>1. PICK j \in 1 .. Len(entries) : entries[j] = name
    BY <1>6 DEF Contains
  <2>2. PICK q \in P : NameAt(decoders, q) = name
    BY <1>6, <2>1 DEF Collected
  <2>3. ~IsUsable(decoders)
    BY <1>1, <2>2 DEF IsUsable
  <2>4. QED
    BY <1>3, <1>6, <2>3 DEF Collected, new
<1>7. CASE ~(entries = FailureOfList \/ name = <<>> \/ Contains(entries, name))
  <2>1. entries \in Seq(Seq(HeaderCharacter)) /\ new = Append(entries, name)
    BY <1>3, <1>7 DEF Entries
  <2> DEFINE n == Len(entries)
             Q == P \cup {p}
  <2>2. /\ n \in Nat /\ new \in Seq(Seq(HeaderCharacter)) /\ Len(new) = n + 1 /\ new[n + 1] = name
        /\ \A j \in 1 .. n : new[j] = entries[j]
    BY <1>2, <2>1, SMTT(30)
  <2>3. new # FailureOfList
    BY <2>2, NotFailure
  <2>4. /\ \A j \in 1 .. n : Listable(decoders, entries[j])
        /\ \A j, k \in 1 .. n : entries[j] = entries[k] => j = k
        /\ \A q \in P : \E j \in 1 .. n : entries[j] = NameAt(decoders, q)
        /\ \A j \in 1 .. n : \E q \in P : entries[j] = NameAt(decoders, q)
        /\ \A q \in P : NameAt(decoders, q) # <<>>
        /\ \A q, r \in P : NameAt(decoders, q) = NameAt(decoders, r) => q = r
    BY <1>7 DEF Collected
  <2>5. \A j \in 1 .. n : entries[j] # name
    BY <1>7 DEF Contains
  <2>6. \A q \in P : NameAt(decoders, q) # name
    BY <2>4, <2>5
  <2> HIDE DEF n
  <2>7. \A j : j \in 1 .. n + 1 <=> j \in 1 .. n \/ j = n + 1
    BY <2>2
  <2>8. \A j \in 1 .. n : j # n + 1
    BY <2>2
  <2>9. \A j \in 1 .. n + 1 : Listable(decoders, new[j])
    BY <1>2, <1>7, <2>2, <2>4, <2>7
  <2>10. ASSUME NEW j \in 1 .. n + 1, NEW k \in 1 .. n + 1, new[j] = new[k] PROVE j = k
    <3>1. CASE j \in 1 .. n /\ k \in 1 .. n
      BY <2>2, <2>4, <2>10, <3>1
    <3>2. CASE j = n + 1 \/ k = n + 1
      BY <2>2, <2>5, <2>7, <2>10, <3>2
    <3>3. QED
      BY <2>7, <3>1, <3>2
  <2>11. \A q \in Q : \E j \in 1 .. n + 1 : new[j] = NameAt(decoders, q)
    <3>1. \E j \in 1 .. n + 1 : new[j] = NameAt(decoders, p)
      BY <1>1, <2>2, <2>7
    <3>2. ASSUME NEW q \in P PROVE \E j \in 1 .. n + 1 : new[j] = NameAt(decoders, q)
      BY <2>2, <2>4, <2>7
    <3>3. QED
      BY <3>1, <3>2
  <2>12. ASSUME NEW j \in 1 .. n + 1 PROVE \E q \in Q : new[j] = NameAt(decoders, q)
    <3>1. CASE j \in 1 .. n
      BY <2>2, <2>4, <3>1
    <3>2. CASE j = n + 1
      BY <1>1, <2>2, <3>2
    <3>3. QED
      BY <2>7, <3>1, <3>2
  <2>13. \A q \in Q : NameAt(decoders, q) # <<>>
    BY <1>1, <1>7, <2>4
  <2>14. \A q, r \in Q : NameAt(decoders, q) = NameAt(decoders, r) => q = r
    BY <1>1, <2>4, <2>6, Zenon
  <2> HIDE DEF Q
  <2>15. Collected(new, decoders, Q)
    BY <2>2, <2>3, <2>9, <2>10, <2>11, <2>12, <2>13, <2>14 DEF Collected
  <2>16. QED
    BY <2>15 DEF new, Q, p
<1>8. QED
  BY <1>4, <1>5, <1>6, <1>7

(* The places before decoder d, and up to coding j of decoder d.           *)
Before(decoders, d) == {p \in Places(decoders) : p[1] < d}

UpToPlace(decoders, d, j) ==
    {p \in Places(decoders) : p[1] < d \/ (p[1] = d /\ p[2] <= j)}

(* One place after the other.                                              *)
LEMMA PlacesAdd ==
    ASSUME NEW decoders \in Seq(Decoder), NEW d \in 1 .. Len(decoders)
    PROVE  /\ UpToPlace(decoders, d, 0) = Before(decoders, d)
           /\ UpToPlace(decoders, d, Len(decoders[d])) = Before(decoders, d + 1)
           /\ \A j \in Nat : j + 1 \in 1 .. Len(decoders[d]) =>
                 /\ UpToPlace(decoders, d, j + 1) = UpToPlace(decoders, d, j) \cup {<<d, j + 1>>}
                 /\ <<d, j + 1>> \notin UpToPlace(decoders, d, j)
<1> DEFINE Pl == Places(decoders)
<1>1. \A p \in Pl : /\ p[1] \in 1 .. Len(decoders) /\ p[2] \in 1 .. Len(decoders[p[1]])
                    /\ p = <<p[1], p[2]>>
  BY PlacesAre
<1>2. \A p \in Pl : /\ p[1] \in Nat /\ p[2] \in Nat /\ p[2] > 0 /\ p = <<p[1], p[2]>>
                    /\ p[1] = d => p[2] <= Len(decoders[d])
  <2>1. \A c \in 1 .. Len(decoders) : Len(decoders[c]) \in Nat
    <3>1. \A c \in 1 .. Len(decoders) : decoders[c] \in Decoder
      OBVIOUS
    <3>2. QED
      BY <3>1, DecodersAreSequences
  <2>2. QED
    BY <1>1, <2>1
<1>3. d \in Nat
  OBVIOUS
<1>4. \A j \in Nat : j + 1 \in 1 .. Len(decoders[d]) => <<d, j + 1>> \in Pl
  BY NameIs
<1> HIDE DEF Pl
<1>5. UpToPlace(decoders, d, 0) = Before(decoders, d)
  <2>1. \A p \in Pl : p[1] < d \/ (p[1] = d /\ p[2] <= 0) <=> p[1] < d
    BY <1>2, <1>3
  <2>2. QED
    BY <2>1, Zenon DEF UpToPlace, Before, Pl
<1>6. UpToPlace(decoders, d, Len(decoders[d])) = Before(decoders, d + 1)
  <2>1. \A p \in Pl : p[1] < d \/ (p[1] = d /\ p[2] <= Len(decoders[d])) <=> p[1] < d + 1
    BY <1>2, <1>3
  <2>2. QED
    BY <2>1, Zenon DEF UpToPlace, Before, Pl
<1>7. ASSUME NEW j \in Nat, j + 1 \in 1 .. Len(decoders[d])
      PROVE  /\ UpToPlace(decoders, d, j + 1) = UpToPlace(decoders, d, j) \cup {<<d, j + 1>>}
             /\ <<d, j + 1>> \notin UpToPlace(decoders, d, j)
  <2> DEFINE A == UpToPlace(decoders, d, j)
             B == UpToPlace(decoders, d, j + 1)
             z == <<d, j + 1>>
  <2>1. z \in Pl /\ z[1] = d /\ z[2] = j + 1
    BY <1>4, <1>7
  <2>2. \A p : p \in A <=> p \in Pl /\ (p[1] < d \/ (p[1] = d /\ p[2] <= j))
    BY Zenon DEF UpToPlace, Pl
  <2>3. \A p : p \in B <=> p \in Pl /\ (p[1] < d \/ (p[1] = d /\ p[2] <= j + 1))
    BY Zenon DEF UpToPlace, Pl
  <2>4. \A p \in Pl : p[1] = d /\ p[2] = j + 1 <=> p = z
    BY <1>2
  <2> HIDE DEF A, B, z
  <2>5. \A p \in Pl : (p[1] < d \/ (p[1] = d /\ p[2] <= j + 1))
                      <=> (p[1] < d \/ (p[1] = d /\ p[2] <= j)) \/ (p[1] = d /\ p[2] = j + 1)
    BY <1>2, <1>3
  <2>6. z \notin A
    BY <1>3, <2>1, <2>2
  <2>7. B = A \cup {z}
    BY <2>1, <2>2, <2>3, <2>4, <2>5, Zenon
  <2>8. QED
    BY <2>6, <2>7 DEF A, B, z
<1>8. QED
  BY <1>5, <1>6, <1>7

(* One more decoder.                                                       *)
LEMMA DecoderCollected ==
    ASSUME NEW decoders \in Seq(Decoder), NEW d \in 1 .. Len(decoders),
           NEW entries \in Entries, Collected(entries, decoders, Before(decoders, d)),
           \A c \in 1 .. d - 1 : entries # FailureOfList => decoders[c] \notin {NullDecoder, <<>>}
    PROVE  LET new == AddDecoder(entries, decoders[d])
           IN  /\ Collected(new, decoders, Before(decoders, d + 1))
               /\ \A c \in 1 .. d : new # FailureOfList => decoders[c] \notin {NullDecoder, <<>>}
<1> DEFINE encodings == decoders[d]
           new == AddDecoder(entries, encodings)
           n == Len(encodings)
<1>1. encodings \in Decoder /\ n \in Nat
  <2>1. encodings \in Decoder
    OBVIOUS
  <2>2. QED
    BY <2>1, DecodersAreSequences
<1>2. CASE encodings \in {NullDecoder, <<>>}
  <2>1. new = FailureOfList
    BY <1>2 DEF AddDecoder
  <2>2. ~IsUsable(decoders)
    <3>1. d \in DOMAIN decoders
      OBVIOUS
    <3>2. QED
      BY <1>2, <3>1 DEF IsUsable
  <2>3. QED
    BY <2>1, <2>2 DEF Collected
<1>3. CASE encodings \notin {NullDecoder, <<>>}
  <2>0. encodings \in Seq(CodingText) /\ decoders[d] # NullDecoder
    BY <1>1, <1>3 DEF Decoder
  <2>1. PICK h : AddingEncodings(h, entries, encodings)
    BY <2>0, EncodingSteps
  <2>2. /\ h \in [0 .. n -> Entries] /\ h[0] = entries
        /\ \A k \in 1 .. n : h[k] = AddEncoding(h[k - 1], encodings[k])
    BY <2>1 DEF AddingEncodings
  <2>3. new = h[n]
    BY <1>3, <2>1 DEF AddingEncodings, AddDecoder
  <2> DEFINE G == {k \in Nat : k <= n =>
                      /\ Collected(h[k], decoders, UpToPlace(decoders, d, k))
                      /\ entries = FailureOfList => h[k] = FailureOfList}
  <2>4. 0 \in G
    BY <2>2, PlacesAdd
  <2>5. ASSUME NEW k \in Nat, k \in G PROVE k + 1 \in G
    <3>1. CASE k + 1 <= n
      <4>1. k + 1 \in 1 .. n /\ (k + 1) - 1 = k /\ k \in 0 .. n /\ k <= n
        BY <1>1, <3>1
      <4>2. Collected(h[k], decoders, UpToPlace(decoders, d, k)) /\ h[k] \in Entries
        BY <2>2, <2>5, <4>1
      <4>3. h[k + 1] = AddEncoding(h[k], encodings[k + 1])
        <5>1. h[k + 1] = AddEncoding(h[(k + 1) - 1], encodings[k + 1])
          BY <2>2, <4>1
        <5>2. QED
          BY <4>1, <5>1
      <4>4. UpToPlace(decoders, d, k) \in SUBSET Places(decoders)
        BY DEF UpToPlace
      <4>5. /\ UpToPlace(decoders, d, k + 1) = UpToPlace(decoders, d, k) \cup {<<d, k + 1>>}
            /\ <<d, k + 1>> \notin UpToPlace(decoders, d, k)
        BY <4>1, PlacesAdd
      <4>6. Collected(AddEncoding(h[k], decoders[d][k + 1]), decoders,
                      UpToPlace(decoders, d, k) \cup {<<d, k + 1>>})
        BY <2>0, <4>1, <4>2, <4>4, <4>5, EncodingCollected
      <4>7. entries = FailureOfList => h[k + 1] = FailureOfList
        <5>1. entries = FailureOfList => h[k] = FailureOfList
          BY <2>5, <4>1
        <5>2. QED
          BY <4>3, <5>1 DEF AddEncoding
      <4>8. Collected(h[k + 1], decoders, UpToPlace(decoders, d, k + 1))
        BY <4>3, <4>5, <4>6
      <4>9. k + 1 \in Nat
        OBVIOUS
      <4>10. QED
        BY <4>7, <4>8, <4>9
    <3>2. QED
      BY <3>1
  <2>6. \A k \in Nat : k \in G
    <3> HIDE DEF G
    <3>1. QED
      BY <2>4, <2>5, Induction
  <2>7. Collected(h[n], decoders, UpToPlace(decoders, d, n))
        /\ (entries = FailureOfList => h[n] = FailureOfList)
    BY <1>1, <2>6
  <2>8. UpToPlace(decoders, d, n) = Before(decoders, d + 1)
    BY PlacesAdd
  <2>9. \A c \in 1 .. d : c \in 1 .. d - 1 \/ c = d
    OBVIOUS
  <2>10. \A c \in 1 .. d : new # FailureOfList => decoders[c] \notin {NullDecoder, <<>>}
    BY <1>3, <2>3, <2>7, <2>9
  <2>11. QED
    BY <2>3, <2>7, <2>8, <2>10
<1>4. QED
  BY <1>2, <1>3

(* What is known of the entries of all decoders.                           *)
LEMMA EntriesAreNamed ==
    ASSUME NEW decoders \in Seq(Decoder)
    PROVE  LET entries == BuildDecoderEntries(decoders)
           IN  /\ entries \in Entries
               /\ entries = FailureOfList <=> ~IsUsable(decoders)
               /\ Collected(entries, decoders, Places(decoders))
<1> DEFINE n == Len(decoders)
           entries == BuildDecoderEntries(decoders)
<1>1. n \in Nat /\ DOMAIN decoders = 1 .. n
  OBVIOUS
<1>2. PICK h : AddingDecoders(h, decoders)
  BY DecoderSteps
<1>3. /\ h \in [0 .. n -> Entries] /\ h[0] = <<>> /\ entries = h[n]
      /\ \A k \in 1 .. n : h[k] = AddDecoder(h[k - 1], decoders[k])
  BY <1>2 DEF AddingDecoders
<1> DEFINE Covered(k) == \A c \in 1 .. k : h[k] # FailureOfList => decoders[c] \notin {NullDecoder, <<>>}
           G == {k \in Nat : k <= n => Collected(h[k], decoders, Before(decoders, k + 1)) /\ Covered(k)}
<1>4. 0 \in G
  <2>1. Before(decoders, 0 + 1) = {}
    <3>1. \A p \in Places(decoders) : ~(p[1] < 0 + 1)
      BY PlacesAre
    <3>2. QED
      BY <3>1, Zenon DEF Before
  <2>2. <<>> # FailureOfList /\ Len(<<>>) = 0
    <3>1. <<>> \in Seq(Seq(HeaderCharacter))
      OBVIOUS
    <3>2. <<>> # FailureOfList
      BY <3>1, NotFailure
    <3>3. QED
      BY <3>2
  <2>3. Collected(<<>>, decoders, {})
    BY <2>2 DEF Collected
  <2>4. Collected(h[0], decoders, Before(decoders, 0 + 1))
    BY <1>3, <2>1, <2>3
  <2>5. Covered(0)
    <3>1. \A c \in 1 .. 0 : FALSE
      OBVIOUS
    <3>2. QED
      BY <3>1
  <2> HIDE DEF Covered
  <2>6. QED
    BY <2>4, <2>5
<1>5. ASSUME NEW k \in Nat, k \in G PROVE k + 1 \in G
  <2>1. CASE k + 1 <= n
    <3> DEFINE d == k + 1
    <3>1. d \in 1 .. n /\ d - 1 = k /\ k \in 0 .. n /\ k <= n /\ d \in Nat
      BY <1>1, <2>1
    <3>2. Collected(h[k], decoders, Before(decoders, d)) /\ Covered(k) /\ h[k] \in Entries
      BY <1>3, <1>5, <3>1
    <3>3. h[d] = AddDecoder(h[k], decoders[d])
      <4>1. h[d] = AddDecoder(h[d - 1], decoders[d])
        BY <1>3, <3>1
      <4>2. QED
        BY <3>1, <4>1
    <3> HIDE DEF d
    <3>4. \A c \in 1 .. d - 1 : h[k] # FailureOfList => decoders[c] \notin {NullDecoder, <<>>}
      BY <3>1, <3>2
    <3>5. /\ Collected(AddDecoder(h[k], decoders[d]), decoders, Before(decoders, d + 1))
          /\ \A c \in 1 .. d : AddDecoder(h[k], decoders[d]) # FailureOfList => decoders[c] \notin {NullDecoder, <<>>}
      BY <3>1, <3>2, <3>4, DecoderCollected
    <3>6. Collected(h[d], decoders, Before(decoders, d + 1)) /\ Covered(d)
      BY <3>3, <3>5
    <3> HIDE DEF Covered
    <3>7. d \in G
      BY <3>1, <3>6
    <3>8. QED
      BY <3>7 DEF d
  <2>2. CASE ~(k + 1 <= n)
    BY <2>2
  <2>3. QED
    BY <2>1, <2>2
<1>6. \A k \in Nat : k \in G
  <2> HIDE DEF G
  <2>1. QED
    BY <1>4, <1>5, Induction
<1>7. Collected(h[n], decoders, Before(decoders, n + 1)) /\ Covered(n)
  <2>1. n \in G
    <3> HIDE DEF G
    <3>1. QED
      BY <1>1, <1>6
  <2> HIDE DEF Covered
  <2>2. n <= n
    BY <1>1
  <2>3. QED
    BY <2>1, <2>2
<1>8. Before(decoders, n + 1) = Places(decoders)
  <2>1. \A p \in Places(decoders) : p[1] < n + 1
    BY PlacesAre
  <2>2. QED
    BY <2>1, Zenon DEF Before
<1>9. entries \in Entries /\ Collected(entries, decoders, Places(decoders))
  <2>1. n \in 0 .. n
    BY <1>1
  <2>2. QED
    BY <1>3, <1>7, <1>8, <2>1
<1>10. CASE entries = FailureOfList
  BY <1>9, <1>10 DEF Collected
<1>11. CASE entries # FailureOfList
  <2>1. \A d \in DOMAIN decoders : decoders[d] \notin {NullDecoder, <<>>}
    BY <1>1, <1>3, <1>7, <1>11
  <2> HIDE DEF entries
  <2>2. /\ \A p \in Places(decoders) : NameAt(decoders, p) # <<>>
        /\ \A p, q \in Places(decoders) : NameAt(decoders, p) = NameAt(decoders, q) => p = q
    BY <1>9, <1>11 DEF Collected
  <2>3. IsUsable(decoders)
    BY <2>1, <2>2, Zenon DEF IsUsable
  <2>4. QED
    BY <1>9, <1>11, <2>3 DEF entries
<1>12. QED
  BY <1>10, <1>11

-----------------------------------------------------------------------------
(* What is announced.                                                      *)

(* A coding is joined to those before it.                                  *)
LEMMA JoinStays ==
    ASSUME NEW value \in Seq(HeaderCharacter), NEW encoding \in Seq(HeaderCharacter)
    PROVE  JoinEncoding(value, encoding) \in Seq(HeaderCharacter)
<1>1. "comma" \in HeaderCharacter /\ "blank" \in HeaderCharacter
  BY DEF HeaderCharacter
<1>2. value \o <<"comma", "blank">> \o encoding \in Seq(HeaderCharacter)
  BY <1>1
<1>3. QED
  BY <1>2 DEF JoinEncoding

(* The header on the way through the entries.                              *)
Joining(h, entries) ==
    /\ h \in [0 .. Len(entries) -> Seq(HeaderCharacter)]
    /\ h[0] = <<>>
    /\ \A k \in 1 .. Len(entries) : h[k] = JoinEncoding(h[k - 1], entries[k])
    /\ FoldLeft(JoinEncoding, <<>>, entries) = h[Len(entries)]

(* The entries are joined one after the other.                             *)
LEMMA JoinSteps ==
    ASSUME NEW entries \in Seq(Seq(HeaderCharacter))
    PROVE  \E h : Joining(h, entries)
<1> DEFINE n == Len(entries)
           T == Seq(HeaderCharacter)
           base == <<>>
           F == [k \in 1 .. n |-> [p \in T |-> JoinEncoding(p, entries[k])]]
           Is(f) == f = [s \in SUBSET (1 .. n) |->
                           IF s = {} THEN base
                           ELSE JoinEncoding(f[s \ {Max(s)}], entries[Max(s)])]
           iter == CHOOSE f : Is(f)
<1>1. n \in Nat /\ DOMAIN entries = 1 .. n /\ \A k \in 1 .. n : entries[k] \in Seq(HeaderCharacter)
  OBVIOUS
<1>2. base \in T
  OBVIOUS
<1>3. FoldLeft(JoinEncoding, <<>>, entries) = iter[1 .. n]
  BY <1>1, Zenon DEF FoldLeft, MapThenFoldSet
<1> HIDE DEF n, T, base
<1>4. F \in [1 .. n -> [T -> T]]
  BY <1>1, JoinStays DEF T
<1>5. \A k \in 1 .. n, x \in T : F[k][x] = JoinEncoding(x, entries[k])
  OBVIOUS
<1>6. \A s \in SUBSET (1 .. n) : s # {} => Max(s) \in 1 .. n /\ s \ {Max(s)} \in SUBSET (1 .. n)
  BY <1>1, MaxIsAPlace
<1>7. \E f \in [SUBSET (1 .. n) -> T] : IsFold(f, n, base, F)
  <2> HIDE DEF F
  <2>1. QED
    BY <1>1, <1>2, <1>4, FoldExists
<1>8. PICK f \in [SUBSET (1 .. n) -> T] : IsFold(f, n, base, F)
  BY <1>7
<1> HIDE DEF F
<1>9. Is(f)
  BY <1>5, <1>6, <1>8 DEF IsFold
<1>10. Is(iter)
  <2> HIDE DEF Is
  <2>1. QED
    BY <1>9
<1> HIDE DEF iter
<1>11. IsFoldIn(T, iter, n, base, F)
  BY <1>5, <1>6, <1>10 DEF IsFoldIn
<1>12. PICK h \in [0 .. n -> T] : IsRun(h, n, base, F) /\ h[n] = iter[1 .. n]
  <2>1. RunsTo(T, n, base, F, iter[1 .. n])
    BY <1>1, <1>2, <1>4, <1>11, FoldSteps
  <2>2. QED
    BY <2>1 DEF RunsTo
<1>13. \A k \in 1 .. n : k - 1 \in 0 .. n
  BY <1>1
<1>14. h[0] = base /\ \A k \in 1 .. n : h[k] = JoinEncoding(h[k - 1], entries[k])
  BY <1>5, <1>12, <1>13 DEF IsRun
<1>15. QED
  BY <1>3, <1>12, <1>14 DEF n, T, base, Joining

(* Names that are joined are a header.                                     *)
LEMMA JoinedIsHeader ==
    ASSUME NEW entries \in Seq(Seq(HeaderCharacter))
    PROVE  FoldLeft(JoinEncoding, <<>>, entries) \in Seq(HeaderCharacter)
<1>1. PICK h : Joining(h, entries)
  BY JoinSteps
<1>2. Len(entries) \in 0 .. Len(entries)
  OBVIOUS
<1>3. QED
  BY <1>1, <1>2 DEF Joining

(* Names that are joined are read as these names.                          *)
LEMMA JoinedIsRead ==
    ASSUME NEW entries \in Seq(Seq(HeaderCharacter)),
           \A i \in 1 .. Len(entries) : Normal(entries[i]) /\ Commaless(entries[i])
    PROVE  LET value == FoldLeft(JoinEncoding, <<>>, entries)
           IN  value \in Seq(HeaderCharacter) /\ ParseContentEncodings(value) = entries
<1> DEFINE n == Len(entries)
<1>1. n \in Nat /\ \A k \in 1 .. n : entries[k] \in Seq(HeaderCharacter) /\ Normal(entries[k])
                                     /\ Commaless(entries[k])
  OBVIOUS
<1>2. PICK h : Joining(h, entries)
  BY JoinSteps
<1>3. /\ h \in [0 .. n -> Seq(HeaderCharacter)] /\ h[0] = <<>>
      /\ \A k \in 1 .. n : h[k] = JoinEncoding(h[k - 1], entries[k])
      /\ FoldLeft(JoinEncoding, <<>>, entries) = h[n]
  BY <1>2 DEF Joining
<1> DEFINE G == {k \in Nat : k <= n => /\ ParseContentEncodings(h[k]) = SubSeq(entries, 1, k)
                                       /\ k = 0 <=> h[k] = <<>>}
<1>4. 0 \in G
  <2>1. SubSeq(entries, 1, 0) = <<>>
    OBVIOUS
  <2>2. QED
    BY <1>3, <2>1, ReadNothing
<1>5. ASSUME NEW k \in Nat, k \in G PROVE k + 1 \in G
  <2>1. CASE k + 1 <= n
    <3> DEFINE e == entries[k + 1]
               v == h[k]
    <3>1. k + 1 \in 1 .. n /\ (k + 1) - 1 = k /\ k \in 0 .. n /\ k <= n /\ k + 1 # 0
      BY <1>1, <2>1
    <3>2. e \in Seq(HeaderCharacter) /\ Normal(e) /\ Commaless(e) /\ v \in Seq(HeaderCharacter)
      BY <1>1, <1>3, <3>1
    <3>3. ParseContentEncodings(v) = SubSeq(entries, 1, k) /\ (k = 0 <=> v = <<>>)
      BY <1>5, <3>1
    <3>4. h[k + 1] = JoinEncoding(v, e)
      <4>1. h[k + 1] = JoinEncoding(h[(k + 1) - 1], entries[k + 1])
        BY <1>3, <3>1
      <4>2. QED
        BY <3>1, <4>1
    <3>5. SubSeq(entries, 1, k + 1) = Append(SubSeq(entries, 1, k), e)
      BY <1>1, <3>1
    <3> HIDE DEF e, v
    <3>6. ParseContentEncodings(h[k + 1]) = Append(ParseContentEncodings(v), e) /\ h[k + 1] # <<>>
      <4>1. ParseContentEncodings(e) = <<e>> /\ e # <<>>
        BY <3>2, ParseJoined DEF Normal, Trimmed
      <4>2. CASE v = <<>>
        <5>1. h[k + 1] = e
          BY <3>4, <4>2 DEF JoinEncoding
        <5>2. ParseContentEncodings(v) = <<>>
          BY <4>2, ReadNothing
        <5>3. Append(<<>>, e) = <<e>>
          OBVIOUS
        <5>4. QED
          BY <4>1, <5>1, <5>2, <5>3
      <4>3. CASE v # <<>>
        <5>1. h[k + 1] = v \o <<"comma", "blank">> \o e
          BY <3>4, <4>3 DEF JoinEncoding
        <5>2. ParseContentEncodings(v \o <<"comma", "blank">> \o e) = Append(ParseContentEncodings(v), e)
          BY <3>2, ParseJoined
        <5>3. v \o <<"comma", "blank">> \o e # <<>>
          BY <3>2, <4>3
        <5>4. QED
          BY <5>1, <5>2, <5>3
      <4>4. QED
        BY <4>2, <4>3
    <3>7. ParseContentEncodings(h[k + 1]) = SubSeq(entries, 1, k + 1)
      BY <3>3, <3>5, <3>6
    <3>8. k + 1 \in Nat /\ (k + 1 = 0 <=> h[k + 1] = <<>>)
      BY <3>1, <3>6
    <3>9. QED
      BY <3>7, <3>8
  <2>2. CASE ~(k + 1 <= n)
    BY <2>2
  <2>3. QED
    BY <2>1, <2>2
<1>6. \A k \in Nat : k \in G
  <2> HIDE DEF G
  <2>1. QED
    BY <1>4, <1>5, Induction
<1>7. ParseContentEncodings(h[n]) = SubSeq(entries, 1, n)
  BY <1>1, <1>6
<1>8. SubSeq(entries, 1, n) = entries
  OBVIOUS
<1>9. h[n] \in Seq(HeaderCharacter)
  BY <1>1, <1>3
<1>10. QED
  BY <1>3, <1>7, <1>8, <1>9

(* What Accept-Encoding is for decoders.                                   *)
Announces(accept, decoders) ==
    LET read == ParseContentEncodings(accept)
    IN  /\ accept = Failure <=> ~IsUsable(decoders)
        /\ accept # Failure /\ HasNoComma(decoders) =>
              IsInjective(read) /\ ToSet(read) = Named(decoders)

(* Accept-Encoding lists what the decoders name.                           *)
LEMMA AcceptIsMeant ==
    ASSUME NEW decoders \in Seq(Decoder)
    PROVE  Announces(BuildAcceptEncodingValue(decoders), decoders)
<1> DEFINE entries == BuildDecoderEntries(decoders)
           accept == BuildAcceptEncodingValue(decoders)
<1>1. /\ entries \in Entries
      /\ entries = FailureOfList <=> ~IsUsable(decoders)
      /\ Collected(entries, decoders, Places(decoders))
  BY EntriesAreNamed
<1>2. accept = IF entries = FailureOfList THEN Failure ELSE FoldLeft(JoinEncoding, <<>>, entries)
  BY DEF BuildAcceptEncodingValue
<1> HIDE DEF entries, accept
<1>3. CASE entries = FailureOfList
  BY <1>1, <1>2, <1>3 DEF Announces, accept
<1>4. CASE entries # FailureOfList
  <2>1. entries \in Seq(Seq(HeaderCharacter))
    BY <1>1, <1>4 DEF Entries
  <2>2. \A i \in 1 .. Len(entries) : Listable(decoders, entries[i])
    BY <1>1, <1>4 DEF Collected
  <2>3. ASSUME HasNoComma(decoders) PROVE ParseContentEncodings(accept) = entries
    <3>1. \A i \in 1 .. Len(entries) : Normal(entries[i]) /\ Commaless(entries[i])
      BY <2>2, <2>3 DEF Listable
    <3>2. QED
      BY <1>2, <1>4, <2>1, <3>1, JoinedIsRead
  <2>4. accept # Failure
    BY <1>2, <1>4, <2>1, JoinedIsHeader, NotFailure
  <2>5. DOMAIN entries = 1 .. Len(entries)
    BY <2>1
  <2>6. IsInjective(entries)
    BY <1>1, <1>4, <2>5 DEF IsInjective, Collected
  <2>7. ToSet(entries) = Named(decoders)
    <3>1. \A p \in Places(decoders) : \E i \in DOMAIN entries : entries[i] = NameAt(decoders, p)
      BY <1>1, <1>4, <2>5 DEF Collected
    <3>2. \A i \in DOMAIN entries : \E p \in Places(decoders) : entries[i] = NameAt(decoders, p)
      BY <1>1, <1>4, <2>5 DEF Collected
    <3>3. QED
      BY <3>1, <3>2, Zenon DEF ToSet, Named
  <2>8. QED
    BY <1>1, <1>4, <2>3, <2>4, <2>6, <2>7 DEF Announces, accept
<1>5. QED
  BY <1>3, <1>4

(* Content-Encoding is read as one coding.                                 *)
LEMMA ContentIsMeant ==
    ASSUME NEW advertised \in Seq(HeaderCharacter)
    PROVE  LET content == BuildRequestContentEncodingValue(advertised)
           IN  content # Failure => ParseContentEncodings(content) = <<content>>
<1> DEFINE content == BuildRequestContentEncodingValue(advertised)
           name == NormalizeResponseEncoding(advertised)
<1>1. name \in Seq(HeaderCharacter) /\ (name = <<>> \/ Normal(name))
  BY NormalizedIsNormal
<1>2. content = IF name = <<>> \/ Contains(name, "comma") THEN Failure ELSE name
  BY DEF BuildRequestContentEncodingValue
<1> HIDE DEF content, name
<1>3. ASSUME content # Failure PROVE ParseContentEncodings(content) = <<content>>
  <2>1. content = name /\ Normal(name) /\ ~Contains(name, "comma")
    BY <1>1, <1>2, <1>3
  <2>2. Commaless(name)
    BY <2>1 DEF Contains, Commaless
  <2>3. QED
    BY <1>1, <2>1, <2>2, ParseJoined
<1>4. QED
  BY <1>3 DEF content

-----------------------------------------------------------------------------
(* Part 8.  The bodies of responses.                                       *)

Coding == {"gzip", "deflate", "identity", "br"}

(* Where a value has the letters of codings.                               *)
SpelledAt(value, codings, at) ==
    /\ at \in [DOMAIN codings -> DOMAIN value]
    /\ \A k \in DOMAIN value : value[k] \in Letter <=> \E i \in DOMAIN codings : at[i] = k
    /\ \A i \in DOMAIN codings : ToLowerLetter(value[at[i]]) = codings[i]
    /\ \A i, j \in DOMAIN codings : i < j => \E k \in at[i] .. at[j] : value[k] = "comma"

LEMMA SpelledSomewhere ==
    ASSUME NEW value, NEW codings
    PROVE  Spells(value, codings) <=> \E at : SpelledAt(value, codings, at)
<1>1. ASSUME NEW at \in [DOMAIN codings -> DOMAIN value]
      PROVE  Range(at) = {k \in DOMAIN value : value[k] \in Letter}
               <=> \A k \in DOMAIN value : value[k] \in Letter <=> \E i \in DOMAIN codings : at[i] = k
  <2>1. Range(at) = {at[i] : i \in DOMAIN codings}
    BY DEF Range
  <2>2. QED
    BY <2>1, Zenon
<1>2. ASSUME Spells(value, codings) PROVE \E at : SpelledAt(value, codings, at)
  <2>1. PICK at \in [DOMAIN codings -> DOMAIN value] :
            /\ Range(at) = {k \in DOMAIN value : value[k] \in Letter}
            /\ \A i \in DOMAIN at : ToLowerLetter(value[at[i]]) = codings[i]
            /\ \A i, j \in DOMAIN at : i < j => \E k \in at[i] .. at[j] : value[k] = "comma"
    BY <1>2, Zenon DEF Spells
  <2>2. DOMAIN at = DOMAIN codings
    OBVIOUS
  <2>3. SpelledAt(value, codings, at)
    BY <1>1, <2>1, <2>2, Zenon DEF SpelledAt
  <2>4. QED
    BY <2>3
<1>3. ASSUME NEW at, SpelledAt(value, codings, at) PROVE Spells(value, codings)
  <2>1. at \in [DOMAIN codings -> DOMAIN value] /\ DOMAIN at = DOMAIN codings
    BY <1>3 DEF SpelledAt
  <2>2. /\ Range(at) = {k \in DOMAIN value : value[k] \in Letter}
        /\ \A i \in DOMAIN at : ToLowerLetter(value[at[i]]) = codings[i]
        /\ \A i, j \in DOMAIN at : i < j => \E k \in at[i] .. at[j] : value[k] = "comma"
    <3>1. \A k \in DOMAIN value : value[k] \in Letter <=> \E i \in DOMAIN codings : at[i] = k
      BY <1>3, Zenon DEF SpelledAt
    <3>2. Range(at) = {k \in DOMAIN value : value[k] \in Letter}
      BY <1>1, <2>1, <3>1, Zenon
    <3>3. QED
      BY <1>3, <2>1, <3>2 DEF SpelledAt
  <2>3. QED
    BY <2>1, <2>2, Zenon DEF Spells
<1>4. QED
  BY <1>2, <1>3

(* The letters are in order, each before the next with a comma between.    *)
LEMMA SpelledInOrder ==
    ASSUME NEW value \in Seq(HeaderCharacter), NEW codings \in Seq(Coding),
           NEW at, SpelledAt(value, codings, at),
           NEW i \in 1 .. Len(codings)
    PROVE  /\ at[i] \in 1 .. Len(value) /\ value[at[i]] \in Letter
           /\ ToLowerLetter(value[at[i]]) = codings[i]
           /\ \A j \in 1 .. Len(codings) : i < j =>
                 at[i] < at[j] /\ \E k \in at[i] + 1 .. at[j] - 1 : value[k] = "comma"
<1>1. DOMAIN codings = 1 .. Len(codings) /\ DOMAIN value = 1 .. Len(value)
  OBVIOUS
<1>2. \A j \in 1 .. Len(codings) : at[j] \in 1 .. Len(value) /\ value[at[j]] \in Letter
  BY <1>1 DEF SpelledAt
<1>3. ASSUME NEW j \in 1 .. Len(codings), i < j
      PROVE  at[i] < at[j] /\ \E k \in at[i] + 1 .. at[j] - 1 : value[k] = "comma"
  <2>1. PICK k \in at[i] .. at[j] : value[k] = "comma"
    BY <1>1, <1>3 DEF SpelledAt
  <2>2. k # at[i] /\ k # at[j]
    BY <1>2, <2>1 DEF Letter
  <2>3. k \in at[i] + 1 .. at[j] - 1 /\ at[i] < at[j]
    BY <1>2, <2>2
  <2>4. QED
    BY <2>1, <2>3
<1>4. QED
  BY <1>1, <1>2, <1>3 DEF SpelledAt

(* What is trimmed spells the same.                                        *)
LEMMA TrimmedSpells ==
    ASSUME NEW value \in Seq(HeaderCharacter), NEW codings \in Seq(Coding), Spells(value, codings)
    PROVE  Spells(TrimAscii(value), codings)
<1>1. PICK at : SpelledAt(value, codings, at)
  BY SpelledSomewhere
<1> DEFINE n == Len(codings)
<1>2. DOMAIN codings = 1 .. n /\ DOMAIN value = 1 .. Len(value) /\ Len(value) \in Nat /\ n \in Nat
  OBVIOUS
<1>3. \A i \in 1 .. n : at[i] \in 1 .. Len(value) /\ value[at[i]] \in Letter
                        /\ ToLowerLetter(value[at[i]]) = codings[i]
  BY <1>1, SpelledInOrder
<1>4. \A i \in 1 .. n : value[at[i]] # "blank"
  BY <1>3 DEF Letter
<1>5. CASE \A i \in 1 .. Len(value) : value[i] = "blank"
  <2>1. TrimAscii(value) = <<>>
    BY <1>2, <1>5 DEF TrimAscii
  <2>2. \A i \in 1 .. n : FALSE
    BY <1>3, <1>4, <1>5
  <2>3. DOMAIN codings = {} /\ DOMAIN <<>> = {}
    BY <1>2, <2>2
  <2>4. at \in [DOMAIN codings -> DOMAIN <<>>]
    BY <1>1, <2>3 DEF SpelledAt
  <2>5. SpelledAt(<<>>, codings, at)
    BY <2>3, <2>4 DEF SpelledAt
  <2>6. QED
    BY <2>1, <2>5, SpelledSomewhere
<1>6. CASE \E a, b \in 1 .. Len(value) : IsCut(value, a, b)
  <2>1. PICK a \in 1 .. Len(value), b \in 1 .. Len(value) : IsCut(value, a, b)
    BY <1>6
  <2> DEFINE t == SubSeq(value, a, b)
             l == b - a + 1
             to == [i \in 1 .. n |-> at[i] - a + 1]
  <2>2. TrimAscii(value) = t
    BY <2>1, TrimIs
  <2>3. a <= b /\ \A i \in 1 .. Len(value) : value[i] # "blank" => a <= i /\ i <= b
    BY <2>1 DEF IsCut
  <2>4. t \in Seq(HeaderCharacter) /\ Len(t) = l /\ \A i \in 1 .. l : t[i] = value[i + a - 1]
    BY <2>3, PartOf
  <2> HIDE DEF t
  <2>5. DOMAIN t = 1 .. l
    BY <2>4
  <2>6. \A i \in 1 .. n : at[i] - a + 1 \in 1 .. l /\ (at[i] - a + 1) + a - 1 = at[i]
    BY <1>2, <1>3, <1>4, <2>3
  <2>7. to \in [1 .. n -> 1 .. l] /\ \A i \in 1 .. n : to[i] = at[i] - a + 1 /\ t[to[i]] = value[at[i]]
    BY <2>4, <2>6
  <2> HIDE DEF to
  <2>8. \A k \in 1 .. l : t[k] \in Letter <=> \E i \in 1 .. n : to[i] = k
    <3>1. ASSUME NEW k \in 1 .. l, t[k] \in Letter PROVE \E i \in 1 .. n : to[i] = k
      <4>1. k + a - 1 \in 1 .. Len(value) /\ value[k + a - 1] \in Letter
        BY <1>2, <2>3, <2>4, <3>1
      <4>2. PICK i \in 1 .. n : at[i] = k + a - 1
        BY <1>1, <1>2, <4>1 DEF SpelledAt
      <4>3. to[i] = k
        BY <2>7, <4>2
      <4>4. QED
        BY <4>3
    <3>2. ASSUME NEW k \in 1 .. l, NEW i \in 1 .. n, to[i] = k PROVE t[k] \in Letter
      BY <1>3, <2>7, <3>2
    <3>3. QED
      BY <3>1, <3>2
  <2>9. ASSUME NEW i \in 1 .. n, NEW j \in 1 .. n, i < j
        PROVE  \E k \in to[i] .. to[j] : t[k] = "comma"
    <3>1. PICK k \in at[i] .. at[j] : value[k] = "comma"
      BY <1>1, <1>2, <2>9 DEF SpelledAt
    <3>2. at[i] \in 1 .. Len(value) /\ at[j] \in 1 .. Len(value)
          /\ to[i] = at[i] - a + 1 /\ to[j] = at[j] - a + 1 /\ to[i] \in 1 .. l /\ to[j] \in 1 .. l
      BY <1>3, <2>7
    <3>3. k - a + 1 \in to[i] .. to[j] /\ k - a + 1 \in 1 .. l /\ (k - a + 1) + a - 1 = k
      <4>1. a \in Int /\ l \in Int /\ at[i] \in Int /\ at[j] \in Int /\ k \in Int
            /\ at[i] <= k /\ k <= at[j] /\ 1 <= to[i] /\ to[j] <= l
        BY <1>2, <3>2
      <4> HIDE DEF l
      <4>2. at[i] - a + 1 <= k - a + 1 /\ k - a + 1 <= at[j] - a + 1 /\ (k - a + 1) + a - 1 = k
            /\ k - a + 1 \in Int
        BY <4>1
      <4>3. to[i] <= k - a + 1 /\ k - a + 1 <= to[j] /\ to[i] \in Int /\ to[j] \in Int
        BY <3>2, <4>2
      <4>4. QED
        BY <4>1, <4>2, <4>3
    <3>4. t[k - a + 1] = "comma"
      BY <2>4, <3>1, <3>3
    <3>5. QED
      BY <3>3, <3>4
  <2>10. SpelledAt(t, codings, to)
    <3>1. \A i \in 1 .. n : ToLowerLetter(t[to[i]]) = codings[i]
      BY <1>3, <2>7
    <3>2. QED
      BY <1>2, <2>5, <2>7, <2>8, <2>9, <3>1 DEF SpelledAt
  <2>11. QED
    BY <2>2, <2>10, SpelledSomewhere
<1>7. QED
  BY <1>5, <1>6, CutExists

-----------------------------------------------------------------------------
(* Reading what is spelled.                                                *)

AllBlank(token) == \A i \in 1 .. Len(token) : token[i] = "blank"

OneLetter(token, c) ==
    \E p \in 1 .. Len(token) :
        /\ token[p] \in Letter /\ ToLowerLetter(token[p]) = c
        /\ \A i \in 1 .. Len(token) : i # p => token[i] = "blank"

(* A token of blanks is dropped, one with a letter is the letter.          *)
LEMMA TokenIsRead ==
    ASSUME NEW token \in Seq(HeaderCharacter)
    PROVE  /\ AllBlank(token) => NormalizeResponseEncoding(token) = <<>>
           /\ \A c : OneLetter(token, c) => NormalizeResponseEncoding(token) = <<c>>
<1>1. DOMAIN token = 1 .. Len(token)
  OBVIOUS
<1>2. ASSUME AllBlank(token) PROVE NormalizeResponseEncoding(token) = <<>>
  <2>1. TrimAscii(token) = <<>>
    BY <1>1, <1>2 DEF TrimAscii, AllBlank
  <2>2. QED
    BY <2>1 DEF NormalizeResponseEncoding, ToLowerAscii
<1>3. ASSUME NEW c, OneLetter(token, c) PROVE NormalizeResponseEncoding(token) = <<c>>
  <2>1. PICK p \in 1 .. Len(token) :
            /\ token[p] \in Letter /\ ToLowerLetter(token[p]) = c
            /\ \A i \in 1 .. Len(token) : i # p => token[i] = "blank"
    BY <1>3 DEF OneLetter
  <2>2. IsCut(token, p, p)
    BY <2>1 DEF IsCut, Letter
  <2>3. TrimAscii(token) = SubSeq(token, p, p)
    BY <2>2, TrimIs
  <2> DEFINE t == SubSeq(token, p, p)
  <2>4. t \in Seq(HeaderCharacter) /\ Len(t) = 1 /\ t[1] = token[p]
    OBVIOUS
  <2> HIDE DEF t
  <2>5. DOMAIN t = 1 .. 1
    BY <2>4
  <2>6. ToLowerAscii(t) = [i \in 1 .. 1 |-> c]
    BY <2>1, <2>4, <2>5 DEF ToLowerAscii
  <2>7. [i \in 1 .. 1 |-> c] = <<c>>
    OBVIOUS
  <2>8. QED
    BY <2>3, <2>6, <2>7 DEF NormalizeResponseEncoding, t
<1>4. QED
  BY <1>2, <1>3

(* The names of the first codings.                                         *)
FirstNames(codings, u) == [i \in 1 .. u |-> <<codings[i]>>]

LEMMA NextName ==
    ASSUME NEW codings \in Seq(Coding), NEW u \in Nat, u + 1 <= Len(codings)
    PROVE  /\ FirstNames(codings, u) \in Seq(Seq(Coding))
           /\ Append(FirstNames(codings, u), <<codings[u + 1]>>) = FirstNames(codings, u + 1)
<1>1. \A i \in 1 .. u + 1 : codings[i] \in Coding /\ <<codings[i]>> \in Seq(Coding)
  OBVIOUS
<1>2. FirstNames(codings, u) \in Seq(Seq(Coding)) /\ FirstNames(codings, u + 1) \in Seq(Seq(Coding))
      /\ Len(FirstNames(codings, u)) = u /\ Len(FirstNames(codings, u + 1)) = u + 1
  BY <1>1 DEF FirstNames
<1> DEFINE a == FirstNames(codings, u)
           b == FirstNames(codings, u + 1)
           c == Append(a, <<codings[u + 1]>>)
<1>3. \A i \in 1 .. u : a[i] = b[i]
  BY DEF FirstNames
<1>4. b[u + 1] = <<codings[u + 1]>>
  BY DEF FirstNames
<1> HIDE DEF a, b
<1>5. c \in Seq(Seq(Coding)) /\ Len(c) = u + 1 /\ c[u + 1] = b[u + 1] /\ \A i \in 1 .. u : c[i] = b[i]
  BY <1>1, <1>2, <1>3, <1>4 DEF a
<1> HIDE DEF c
<1>6. \A i \in 1 .. u + 1 : c[i] = b[i]
  <2>1. \A i \in 1 .. u + 1 : i \in 1 .. u \/ i = u + 1
    OBVIOUS
  <2>2. QED
    BY <1>5, <2>1
<1>7. c = b
  BY <1>2, <1>5, <1>6 DEF b
<1>8. QED
  BY <1>2, <1>7 DEF a, b, c

(* What has been read of a value up to k, where u codings have begun.      *)
Begun(codings, at, k, u) == \A i \in 1 .. Len(codings) : i <= u <=> at[i] <= k

SpelledSoFar(r, value, codings, at, k, u) ==
    /\ u \in 0 .. Len(codings) /\ Begun(codings, at, k, u)
    /\ \/ AllBlank(r.token) /\ r.encodings = FirstNames(codings, u)
       \/ /\ u >= 1 /\ OneLetter(r.token, codings[u])
          /\ r.encodings = FirstNames(codings, u - 1)
          /\ \A m \in 1 .. Len(value) : at[u] <= m /\ m <= k => value[m] # "comma"

(* A token grows by a blank, or by its letter.                             *)
LEMMA TokenGrows ==
    ASSUME NEW token \in Seq(HeaderCharacter), NEW ch \in HeaderCharacter
    PROVE  /\ AllBlank(token) /\ ch = "blank" => AllBlank(Append(token, ch))
           /\ \A c : OneLetter(token, c) /\ ch = "blank" => OneLetter(Append(token, ch), c)
           /\ AllBlank(token) /\ ch \in Letter => OneLetter(Append(token, ch), ToLowerLetter(ch))
<1> DEFINE n == Len(token)
           t == Append(token, ch)
<1>1. n \in Nat /\ Len(t) = n + 1 /\ t[n + 1] = ch /\ \A i \in 1 .. n : t[i] = token[i]
  OBVIOUS
<1>2. \A i \in 1 .. n + 1 : i \in 1 .. n \/ i = n + 1
  BY <1>1
<1>3. n + 1 \in 1 .. n + 1 /\ \A i \in 1 .. n : i \in 1 .. n + 1 /\ i # n + 1
  BY <1>1
<1> HIDE DEF t
<1>4. AllBlank(token) /\ ch = "blank" => AllBlank(t)
  BY <1>1, <1>2 DEF AllBlank
<1>5. ASSUME NEW c, OneLetter(token, c), ch = "blank" PROVE OneLetter(t, c)
  <2>1. PICK p \in 1 .. n :
            /\ token[p] \in Letter /\ ToLowerLetter(token[p]) = c
            /\ \A i \in 1 .. n : i # p => token[i] = "blank"
    BY <1>5 DEF OneLetter
  <2>2. t[p] = token[p] /\ p \in 1 .. n + 1 /\ \A i \in 1 .. n + 1 : i # p => t[i] = "blank"
    BY <1>1, <1>2, <1>3, <1>5, <2>1
  <2>3. QED
    BY <1>1, <2>1, <2>2 DEF OneLetter
<1>6. AllBlank(token) /\ ch \in Letter => OneLetter(t, ToLowerLetter(ch))
  BY <1>1, <1>2, <1>3 DEF AllBlank, OneLetter
<1>7. QED
  BY <1>4, <1>5, <1>6 DEF t

(* One more character is read.                                             *)
LEMMA SpelledStep ==
    ASSUME NEW value \in Seq(HeaderCharacter), NEW codings \in Seq(Coding),
           NEW at, SpelledAt(value, codings, at),
           NEW r \in ReadState, NEW k \in Nat, k + 1 <= Len(value),
           NEW u, SpelledSoFar(r, value, codings, at, k, u)
    PROVE  \E w : SpelledSoFar(ReadLetter(r, value[k + 1]), value, codings, at, k + 1, w)
<1> DEFINE ch == value[k + 1]
           new == ReadLetter(r, ch)
           n == Len(codings)
<1>1. n \in Nat /\ Len(value) \in Nat /\ k + 1 \in 1 .. Len(value) /\ u \in 0 .. n /\ u \in Nat
      /\ DOMAIN codings = 1 .. n /\ DOMAIN value = 1 .. Len(value) /\ ch \in HeaderCharacter
  BY DEF SpelledSoFar
<1>2. \A i \in 1 .. n : at[i] \in 1 .. Len(value) /\ value[at[i]] \in Letter
                        /\ ToLowerLetter(value[at[i]]) = codings[i]
  BY SpelledInOrder
<1>3. \A i, j \in 1 .. n : i < j => at[i] < at[j]
  BY SpelledInOrder
<1>4. r.token \in Seq(HeaderCharacter) /\ r.encodings \in Seq(Seq(HeaderCharacter))
  BY DEF ReadState
<1>5. Begun(codings, at, k, u)
  BY DEF SpelledSoFar
<1>6. ch \notin Letter => Begun(codings, at, k + 1, u)
  <2>1. ASSUME ch \notin Letter, NEW i \in 1 .. n PROVE at[i] <= k <=> at[i] <= k + 1
    <3>1. at[i] # k + 1 /\ at[i] \in Int
      BY <1>2, <2>1
    <3>2. QED
      BY <3>1
  <2>2. QED
    BY <1>5, <2>1 DEF Begun
<1> HIDE DEF ch, n
<1>7. CASE ch = "blank"
  <2>1. new.encodings = r.encodings /\ new.token = Append(r.token, ch)
    <3>1. ch # "comma"
      BY <1>7
    <3>2. new = [encodings |-> r.encodings, token |-> Append(r.token, ch)]
      BY <1>1, <3>1, ReadStays
    <3>3. QED
      BY <3>2
  <2>2. Begun(codings, at, k + 1, u)
    BY <1>6, <1>7 DEF Letter
  <2>3. CASE AllBlank(r.token) /\ r.encodings = FirstNames(codings, u)
    <3>1. AllBlank(new.token)
      BY <1>1, <1>4, <1>7, <2>1, <2>3, TokenGrows
    <3>2. SpelledSoFar(new, value, codings, at, k + 1, u)
      BY <1>1, <2>1, <2>2, <2>3, <3>1 DEF SpelledSoFar, n
    <3>3. QED
      BY <3>2 DEF ch
  <2>4. CASE /\ u >= 1 /\ OneLetter(r.token, codings[u]) /\ r.encodings = FirstNames(codings, u - 1)
             /\ \A m \in 1 .. Len(value) : at[u] <= m /\ m <= k => value[m] # "comma"
    <3>1. OneLetter(new.token, codings[u])
      BY <1>1, <1>4, <1>7, <2>1, <2>4, TokenGrows
    <3>2. \A m \in 1 .. Len(value) : at[u] <= m /\ m <= k + 1 => value[m] # "comma"
      <4>1. \A m \in 1 .. Len(value) : m <= k + 1 => m <= k \/ m = k + 1
        BY <1>1
      <4>2. QED
        BY <1>7, <2>4, <4>1 DEF ch
    <3>3. SpelledSoFar(new, value, codings, at, k + 1, u)
      BY <1>1, <2>1, <2>2, <2>4, <3>1, <3>2 DEF SpelledSoFar, n
    <3>4. QED
      BY <3>3 DEF ch
  <2>5. QED
    BY <2>3, <2>4 DEF SpelledSoFar
<1>8. CASE ch = "comma"
  <2> DEFINE name == NormalizeResponseEncoding(r.token)
  <2>1. new.token = <<>> /\ new.encodings = IF name = <<>> THEN r.encodings ELSE Append(r.encodings, name)
    BY <1>1, <1>8, ReadStays, PushStays
  <2> HIDE DEF name
  <2>2. Begun(codings, at, k + 1, u)
    BY <1>6, <1>8 DEF Letter
  <2>3. AllBlank(new.token)
    BY <2>1 DEF AllBlank
  <2>4. new.encodings = FirstNames(codings, u)
    <3>1. CASE AllBlank(r.token) /\ r.encodings = FirstNames(codings, u)
      BY <1>4, <2>1, <3>1, TokenIsRead DEF name
    <3>2. CASE u >= 1 /\ OneLetter(r.token, codings[u]) /\ r.encodings = FirstNames(codings, u - 1)
      <4>1. name = <<codings[u]>>
        BY <1>4, <3>2, TokenIsRead DEF name
      <4>2. new.encodings = Append(FirstNames(codings, u - 1), <<codings[u]>>)
        BY <2>1, <3>2, <4>1
      <4>3. u - 1 \in Nat /\ (u - 1) + 1 = u /\ (u - 1) + 1 <= Len(codings)
        BY <1>1, <3>2 DEF n
      <4>4. Append(FirstNames(codings, u - 1), <<codings[(u - 1) + 1]>>) = FirstNames(codings, (u - 1) + 1)
        BY <4>3, NextName
      <4>5. QED
        BY <4>2, <4>3, <4>4
    <3>3. QED
      BY <3>1, <3>2 DEF SpelledSoFar
  <2>5. SpelledSoFar(new, value, codings, at, k + 1, u)
    BY <1>1, <2>2, <2>3, <2>4 DEF SpelledSoFar, n
  <2>6. QED
    BY <2>5 DEF ch
<1>9. CASE ch \in Letter
  <2>1. ch # "comma" /\ ch # "blank"
    BY <1>9 DEF Letter
  <2>2. new.encodings = r.encodings /\ new.token = Append(r.token, ch)
    <3>1. new = [encodings |-> r.encodings, token |-> Append(r.token, ch)]
      BY <1>1, <2>1, ReadStays
    <3>2. QED
      BY <3>1
  <2>3. PICK j \in 1 .. n : at[j] = k + 1
    BY <1>1, <1>9 DEF SpelledAt, ch
  <2>4. j = u + 1
    <3>1. ~(j <= u)
      BY <1>5, <2>3 DEF Begun, n
    <3>2. ASSUME j > u + 1 PROVE FALSE
      <4>1. u + 1 \in 1 .. n /\ u + 1 < j
        BY <1>1, <3>2
      <4>2. at[u + 1] < k + 1 /\ at[u + 1] \in Int
        BY <1>2, <1>3, <2>3, <4>1
      <4>3. u + 1 <= u
        BY <1>5, <4>1, <4>2 DEF Begun, n
      <4>4. QED
        BY <1>1, <4>3
    <3>3. QED
      BY <1>1, <3>1, <3>2
  <2>5. Begun(codings, at, k + 1, j)
    <3>1. ASSUME NEW i \in 1 .. n PROVE i <= j <=> at[i] <= k + 1
      <4>1. CASE i < j
        BY <1>2, <1>3, <2>3, <4>1
      <4>2. CASE i = j
        BY <2>3, <4>2
      <4>3. CASE i > j
        BY <1>2, <1>3, <2>3, <4>3
      <4>4. QED
        BY <1>1, <4>1, <4>2, <4>3
    <3>2. QED
      BY <3>1 DEF Begun, n
  <2>6. AllBlank(r.token) /\ r.encodings = FirstNames(codings, u)
    <3>1. ASSUME u >= 1, \A m \in 1 .. Len(value) : at[u] <= m /\ m <= k => value[m] # "comma"
          PROVE  FALSE
      <4>1. u \in 1 .. n /\ u < j
        BY <1>1, <2>4, <3>1
      <4>2. PICK m \in at[u] + 1 .. at[j] - 1 : value[m] = "comma"
        BY <4>1, SpelledInOrder DEF n
      <4>3. at[u] \in 1 .. Len(value) /\ at[j] = k + 1
        BY <1>2, <2>3, <4>1
      <4>4. m \in 1 .. Len(value) /\ at[u] <= m /\ m <= k
        BY <1>1, <4>3
      <4>5. QED
        BY <3>1, <4>2, <4>4
    <3>2. QED
      BY <3>1 DEF SpelledSoFar
  <2>7. OneLetter(new.token, codings[j])
    <3>1. ToLowerLetter(ch) = codings[j]
      BY <1>2, <2>3 DEF ch
    <3>2. QED
      BY <1>1, <1>4, <1>9, <2>2, <2>6, <3>1, TokenGrows
  <2>8. j >= 1 /\ j - 1 = u /\ j \in 0 .. n
    BY <1>1, <2>4
  <2>9. \A m \in 1 .. Len(value) : at[j] <= m /\ m <= k + 1 => value[m] # "comma"
    <3>1. \A m \in 1 .. Len(value) : at[j] <= m /\ m <= k + 1 => m = k + 1
      BY <2>3
    <3>2. QED
      BY <2>1, <3>1 DEF ch
  <2>10. SpelledSoFar(new, value, codings, at, k + 1, j)
    BY <2>2, <2>5, <2>6, <2>7, <2>8, <2>9 DEF SpelledSoFar, n
  <2>11. QED
    BY <2>10 DEF ch
<1>10. QED
  BY <1>1, <1>7, <1>8, <1>9 DEF HeaderCharacter

(* A value that spells codings is read as their names, in order.           *)
LEMMA SpelledIsRead ==
    ASSUME NEW value \in Seq(HeaderCharacter), NEW codings \in Seq(Coding), Spells(value, codings)
    PROVE  ParseContentEncodings(value) = FirstNames(codings, Len(codings))
<1> DEFINE n == Len(codings)
           l == Len(value)
<1>1. PICK at : SpelledAt(value, codings, at)
  BY SpelledSomewhere
<1>2. PICK h : Reading(h, value)
  BY HeaderSteps
<1>3. n \in Nat /\ l \in Nat /\ DOMAIN codings = 1 .. n /\ DOMAIN value = 1 .. l
  OBVIOUS
<1>4. /\ h \in [0 .. l -> ReadState] /\ h[0] = NothingRead /\ ReadHeader(value) = h[l]
      /\ \A k \in 1 .. l : h[k] = ReadLetter(h[k - 1], value[k])
  BY <1>2 DEF Reading
<1>5. \A i \in 1 .. n : at[i] \in 1 .. l
  BY <1>1, SpelledInOrder
<1> DEFINE Good(k) == \E u : SpelledSoFar(h[k], value, codings, at, k, u)
           G == {k \in Nat : k <= l => Good(k)}
<1>6. 0 \in G
  <2>1. h[0].token = <<>> /\ h[0].encodings = <<>>
    BY <1>4 DEF NothingRead
  <2>2. AllBlank(h[0].token)
    BY <2>1 DEF AllBlank
  <2>3. FirstNames(codings, 0) = <<>>
    BY DEF FirstNames
  <2>4. Begun(codings, at, 0, 0)
    <3>1. \A i \in 1 .. n : ~(i <= 0) /\ ~(at[i] <= 0)
      BY <1>3, <1>5
    <3>2. QED
      BY <3>1 DEF Begun
  <2>5. SpelledSoFar(h[0], value, codings, at, 0, 0)
    BY <1>3, <2>1, <2>2, <2>3, <2>4 DEF SpelledSoFar
  <2>6. QED
    BY <2>5
<1>7. ASSUME NEW k \in Nat, k \in G PROVE k + 1 \in G
  <2>1. CASE k + 1 <= l
    <3>1. k + 1 \in 1 .. l /\ (k + 1) - 1 = k /\ k \in 0 .. l /\ k <= l
      BY <1>3, <2>1
    <3>2. PICK u : SpelledSoFar(h[k], value, codings, at, k, u)
      BY <1>7, <3>1
    <3>3. h[k + 1] = ReadLetter(h[k], value[k + 1]) /\ h[k] \in ReadState
      <4>1. h[k + 1] = ReadLetter(h[(k + 1) - 1], value[k + 1])
        BY <1>4, <3>1
      <4>2. QED
        BY <1>4, <3>1, <4>1
    <3>4. Good(k + 1)
      <4>1. \E w : SpelledSoFar(ReadLetter(h[k], value[k + 1]), value, codings, at, k + 1, w)
        BY <1>1, <2>1, <3>2, <3>3, SpelledStep
      <4>2. QED
        BY <3>3, <4>1
    <3> HIDE DEF Good
    <3>5. QED
      BY <3>4
  <2>2. CASE ~(k + 1 <= l)
    BY <2>2
  <2>3. QED
    BY <2>1, <2>2
<1>8. \A k \in Nat : k \in G
  <2> HIDE DEF G
  <2>1. QED
    BY <1>6, <1>7, Induction
<1>9. PICK u : SpelledSoFar(h[l], value, codings, at, l, u)
  <2>1. l \in G /\ l <= l
    <3> HIDE DEF G
    <3>1. QED
      BY <1>3, <1>8
  <2>2. QED
    BY <2>1
<1> DEFINE r == h[l]
           name == NormalizeResponseEncoding(r.token)
<1>10. r \in ReadState /\ r.token \in Seq(HeaderCharacter)
  BY <1>3, <1>4 DEF ReadState
<1>11. u = n
  <2>1. u \in 0 .. n /\ Begun(codings, at, l, u)
    BY <1>9 DEF SpelledSoFar
  <2>2. ASSUME u # n PROVE FALSE
    <3>1. n \in 1 .. n /\ ~(n <= u)
      <4> HIDE DEF n
      <4>1. u \in Int /\ 0 <= u /\ u <= n
        BY <1>3, <2>1
      <4>2. u < n
        BY <1>3, <2>2, <4>1
      <4>3. QED
        BY <1>3, <4>1, <4>2
    <3>2. at[n] <= l
      BY <1>5, <3>1
    <3>3. QED
      BY <2>1, <3>1, <3>2 DEF Begun
  <2>3. QED
    BY <2>2
<1>12. ParseContentEncodings(value)
         = IF name = <<>> THEN r.encodings ELSE Append(r.encodings, name)
  BY <1>4, <1>10, PushStays DEF ParseContentEncodings
<1> HIDE DEF r, name
<1>13. CASE AllBlank(r.token) /\ r.encodings = FirstNames(codings, u)
  BY <1>10, <1>11, <1>12, <1>13, TokenIsRead DEF name
<1>14. CASE u >= 1 /\ OneLetter(r.token, codings[u]) /\ r.encodings = FirstNames(codings, u - 1)
  <2>1. name = <<codings[u]>>
    BY <1>10, <1>14, TokenIsRead DEF name
  <2>2. ParseContentEncodings(value) = Append(FirstNames(codings, u - 1), <<codings[u]>>)
    BY <1>12, <1>14, <2>1
  <2>3. u - 1 \in Nat /\ (u - 1) + 1 = u /\ (u - 1) + 1 <= Len(codings)
    BY <1>3, <1>11, <1>14
  <2>4. Append(FirstNames(codings, u - 1), <<codings[(u - 1) + 1]>>) = FirstNames(codings, (u - 1) + 1)
    BY <2>3, NextName
  <2>5. QED
    BY <1>11, <2>2, <2>3, <2>4
<1>15. QED
  BY <1>9, <1>13, <1>14 DEF SpelledSoFar, r

-----------------------------------------------------------------------------
(* The line that counts.                                                   *)

(* Every line has a value, a status line an empty one.                     *)
LEMMA LinesHaveValues ==
    ASSUME NEW line \in HeadLine
    PROVE  line.value \in Seq(HeaderCharacter)
<1>1. CASE line = StatusLine
  <2>1. line.value = <<>>
    BY <1>1 DEF StatusLine
  <2>2. QED
    BY <2>1
<1>2. CASE line # StatusLine
  <2>1. line \in [name : {"Content-Encoding", "content-encoding", "server"},
                  value : Seq(HeaderCharacter)]
    BY <1>2 DEF HeadLine
  <2>2. QED
    BY <2>1
<1>3. QED
  BY <1>1, <1>2

(* A line of the head is read.                                             *)
LEMMA ReadLineStays ==
    ASSUME NEW value \in Seq(HeaderCharacter), NEW line \in HeadLine
    PROVE  ReadLine("content-encoding", value, line) \in Seq(HeaderCharacter)
<1>1. line.value \in Seq(HeaderCharacter)
  BY LinesHaveValues
<1>2. TrimAscii(line.value) \in Seq(HeaderCharacter) /\ <<>> \in Seq(HeaderCharacter)
  BY <1>1, TrimTrims
<1>3. QED
  BY <1>2 DEF ReadLine

(* The value on the way through the lines.                                 *)
Finding(h, lines) ==
    /\ h \in [0 .. Len(lines) -> Seq(HeaderCharacter)]
    /\ h[0] = <<>>
    /\ \A k \in 1 .. Len(lines) : h[k] = ReadLine("content-encoding", h[k - 1], lines[k])
    /\ FindHttpHeaderValue(lines, "content-encoding") = h[Len(lines)]

(* The lines are read one after the other.                                 *)
LEMMA FindSteps ==
    ASSUME NEW lines \in Seq(HeadLine)
    PROVE  \E h : Finding(h, lines)
<1> DEFINE n == Len(lines)
           T == Seq(HeaderCharacter)
           base == <<>>
           F == [k \in 1 .. n |-> [p \in T |-> ReadLine("content-encoding", p, lines[k])]]
           Is(f) == f = [s \in SUBSET (1 .. n) |->
                           IF s = {} THEN base
                           ELSE ReadLine("content-encoding", f[s \ {Max(s)}], lines[Max(s)])]
           iter == CHOOSE f : Is(f)
<1>1. n \in Nat /\ DOMAIN lines = 1 .. n /\ \A k \in 1 .. n : lines[k] \in HeadLine
  OBVIOUS
<1>2. base \in T
  OBVIOUS
<1>3. FindHttpHeaderValue(lines, "content-encoding") = iter[1 .. n]
  BY <1>1, Zenon DEF FoldLeft, MapThenFoldSet, FindHttpHeaderValue
<1> HIDE DEF n, T, base
<1>4. F \in [1 .. n -> [T -> T]]
  BY <1>1, ReadLineStays DEF T
<1>5. \A k \in 1 .. n, x \in T : F[k][x] = ReadLine("content-encoding", x, lines[k])
  OBVIOUS
<1>6. \A s \in SUBSET (1 .. n) : s # {} => Max(s) \in 1 .. n /\ s \ {Max(s)} \in SUBSET (1 .. n)
  BY <1>1, MaxIsAPlace
<1>7. \E f \in [SUBSET (1 .. n) -> T] : IsFold(f, n, base, F)
  <2> HIDE DEF F
  <2>1. QED
    BY <1>1, <1>2, <1>4, FoldExists
<1>8. PICK f \in [SUBSET (1 .. n) -> T] : IsFold(f, n, base, F)
  BY <1>7
<1> HIDE DEF F
<1>9. Is(f)
  BY <1>5, <1>6, <1>8 DEF IsFold
<1>10. Is(iter)
  <2> HIDE DEF Is
  <2>1. QED
    BY <1>9
<1> HIDE DEF iter
<1>11. IsFoldIn(T, iter, n, base, F)
  BY <1>5, <1>6, <1>10 DEF IsFoldIn
<1>12. PICK h \in [0 .. n -> T] : IsRun(h, n, base, F) /\ h[n] = iter[1 .. n]
  <2>1. RunsTo(T, n, base, F, iter[1 .. n])
    BY <1>1, <1>2, <1>4, <1>11, FoldSteps
  <2>2. QED
    BY <2>1 DEF RunsTo
<1>13. \A k \in 1 .. n : k - 1 \in 0 .. n
  BY <1>1
<1>14. h[0] = base /\ \A k \in 1 .. n : h[k] = ReadLine("content-encoding", h[k - 1], lines[k])
  BY <1>5, <1>12, <1>13 DEF IsRun
<1>15. QED
  BY <1>3, <1>12, <1>14 DEF n, T, base, Finding

(* The lines before k that name the header and are not of an earlier head. *)
NamedLines(lines, k) ==
    {j \in 1 .. k : /\ ToLowerLetter(lines[j].name) = "content-encoding"
                    /\ \A m \in j .. k : lines[m] # StatusLine}

(* The value is that of the last of them.                                  *)
IsFound(value, lines, k) ==
    \/ NamedLines(lines, k) = {} /\ value = <<>>
    \/ \E j \in NamedLines(lines, k) :
          (\A i \in NamedLines(lines, k) : i <= j) /\ value = TrimAscii(lines[j].value)

LEMMA FindStep ==
    ASSUME NEW lines \in Seq(HeadLine), NEW k \in Nat, k + 1 <= Len(lines),
           NEW value \in Seq(HeaderCharacter), IsFound(value, lines, k)
    PROVE  IsFound(ReadLine("content-encoding", value, lines[k + 1]), lines, k + 1)
<1> DEFINE line == lines[k + 1]
           new == ReadLine("content-encoding", value, line)
           Is(j) == ToLowerLetter(lines[j].name) = "content-encoding"
<1>1. k + 1 \in 1 .. k + 1 /\ (\A j \in 1 .. k : j \in 1 .. k + 1)
      /\ (\A j \in 1 .. k + 1 : j \in 1 .. k \/ j = k + 1) /\ (\A j \in 1 .. k : j <= k + 1)
      /\ (\A j \in 1 .. k + 1 : k + 1 \in j .. k + 1)
  OBVIOUS
<1>2. \A j \in 1 .. k + 1 : \A m \in j .. k + 1 : m \in j .. k \/ m = k + 1
  OBVIOUS
<1>3. \A j \in 1 .. k + 1 : \A m \in j .. k : m \in j .. k + 1
  OBVIOUS
<1>4. \A m \in k + 1 .. k + 1 : m = k + 1
  OBVIOUS
<1>5. CASE line = StatusLine
  <2>1. NamedLines(lines, k + 1) = {}
    BY <1>1, <1>5, Zenon DEF NamedLines
  <2>2. new = <<>>
    BY <1>5 DEF ReadLine
  <2>3. QED
    BY <2>1, <2>2 DEF IsFound
<1>6. CASE line # StatusLine /\ Is(k + 1)
  <2>1. k + 1 \in NamedLines(lines, k + 1)
    BY <1>1, <1>4, <1>6, Zenon DEF NamedLines
  <2>2. \A i \in NamedLines(lines, k + 1) : i <= k + 1
    BY DEF NamedLines
  <2>3. new = TrimAscii(lines[k + 1].value)
    BY <1>6 DEF ReadLine
  <2>4. QED
    BY <2>1, <2>2, <2>3, Zenon DEF IsFound
<1>7. CASE line # StatusLine /\ ~Is(k + 1)
  <2>1. NamedLines(lines, k + 1) = NamedLines(lines, k)
    <3>1. \A j : j \in NamedLines(lines, k + 1) => j \in NamedLines(lines, k)
      BY <1>1, <1>3, <1>7, Zenon DEF NamedLines
    <3>2. \A j : j \in NamedLines(lines, k) => j \in NamedLines(lines, k + 1)
      BY <1>1, <1>2, <1>7, Zenon DEF NamedLines
    <3>3. QED
      BY <3>1, <3>2, Zenon
  <2>2. new = value
    BY <1>7 DEF ReadLine
  <2>3. QED
    BY <2>1, <2>2, Zenon DEF IsFound
<1>8. QED
  BY <1>5, <1>6, <1>7

(* What the head says is what is read of the header.                       *)
LEMMA HeadIsRead ==
    ASSUME NEW lines \in Seq(HeadLine), NEW codings \in Seq(Coding), Says(lines, codings)
    PROVE  ParseContentEncodings(FindHttpHeaderValue(lines, "content-encoding"))
             = FirstNames(codings, Len(codings))
<1> DEFINE n == Len(lines)
           value == FindHttpHeaderValue(lines, "content-encoding")
<1>1. n \in Nat /\ DOMAIN lines = 1 .. n
  OBVIOUS
<1>2. PICK h : Finding(h, lines)
  BY FindSteps
<1>3. /\ h \in [0 .. n -> Seq(HeaderCharacter)] /\ h[0] = <<>> /\ value = h[n]
      /\ \A k \in 1 .. n : h[k] = ReadLine("content-encoding", h[k - 1], lines[k])
  BY <1>2 DEF Finding
<1> DEFINE G == {k \in Nat : k <= n => IsFound(h[k], lines, k)}
<1>4. 0 \in G
  <2>1. NamedLines(lines, 0) = {}
    <3>1. \A j \in 1 .. 0 : FALSE
      OBVIOUS
    <3>2. QED
      BY <3>1, Zenon DEF NamedLines
  <2>2. QED
    BY <1>3, <2>1 DEF IsFound
<1>5. ASSUME NEW k \in Nat, k \in G PROVE k + 1 \in G
  <2>1. CASE k + 1 <= n
    <3>1. k + 1 \in 1 .. n /\ (k + 1) - 1 = k /\ k \in 0 .. n /\ k <= n
      BY <1>1, <2>1
    <3>2. IsFound(h[k], lines, k) /\ h[k] \in Seq(HeaderCharacter)
      BY <1>3, <1>5, <3>1
    <3>3. h[k + 1] = ReadLine("content-encoding", h[k], lines[k + 1])
      <4>1. h[k + 1] = ReadLine("content-encoding", h[(k + 1) - 1], lines[k + 1])
        BY <1>3, <3>1
      <4>2. QED
        BY <3>1, <4>1
    <3>4. IsFound(h[k + 1], lines, k + 1)
      <4>1. IsFound(ReadLine("content-encoding", h[k], lines[k + 1]), lines, k + 1)
        BY <2>1, <3>2, FindStep
      <4>2. QED
        BY <3>3, <4>1
    <3>5. QED
      BY <3>4
  <2>2. CASE ~(k + 1 <= n)
    BY <2>2
  <2>3. QED
    BY <2>1, <2>2
<1>6. \A k \in Nat : k \in G
  <2> HIDE DEF G
  <2>1. QED
    BY <1>4, <1>5, Induction
<1>7. IsFound(value, lines, n)
  <2>1. n \in G /\ n <= n
    <3> HIDE DEF G
    <3>1. QED
      BY <1>1, <1>6
  <2>2. QED
    BY <1>3, <2>1
<1> HIDE DEF value, G
<1>8. \/ NamedLines(lines, n) = {} /\ codings = <<>>
      \/ \E k \in NamedLines(lines, n) : NamedLines(lines, n) = {k} /\ Spells(lines[k].value, codings)
  <2>1. NamedLines(lines, n) = {k \in DOMAIN lines : /\ ToLowerLetter(lines[k].name) = "content-encoding"
                                                     /\ \A j \in k .. n : lines[j] # StatusLine}
    BY <1>1, Zenon DEF NamedLines
  <2>2. QED
    BY <2>1, Zenon DEF Says
<1>9. CASE NamedLines(lines, n) = {} /\ codings = <<>>
  <2>1. value = <<>>
    BY <1>7, <1>9 DEF IsFound
  <2>2. FirstNames(codings, Len(codings)) = <<>>
    BY <1>9 DEF FirstNames
  <2>3. QED
    BY <2>1, <2>2, ReadNothing DEF value
<1>10. CASE \E k \in NamedLines(lines, n) : NamedLines(lines, n) = {k} /\ Spells(lines[k].value, codings)
  <2>1. PICK k \in NamedLines(lines, n) : NamedLines(lines, n) = {k} /\ Spells(lines[k].value, codings)
    BY <1>10
  <2>2. value = TrimAscii(lines[k].value)
    BY <1>7, <2>1, Zenon DEF IsFound
  <2>3. lines[k].value \in Seq(HeaderCharacter)
    <3>1. k \in 1 .. n
      BY DEF NamedLines
    <3>2. lines[k] \in HeadLine
      BY <3>1
    <3>3. QED
      BY <3>2, LinesHaveValues
  <2>4. Spells(value, codings) /\ value \in Seq(HeaderCharacter)
    BY <2>1, <2>2, <2>3, TrimmedSpells, TrimTrims
  <2>5. QED
    BY <2>4, SpelledIsRead DEF value
<1>11. QED
  BY <1>8, <1>9, <1>10

-----------------------------------------------------------------------------
(* The codings are undone.                                                 *)

Format == {"gzip", "zlib", "raw", "br"}

Body == Seq(Format) \cup {Failure}

(* A body is not the outcome of a throw.                                   *)
LEMMA BodiesAreNoFailure ==
    ASSUME NEW body \in Seq(Format) PROVE body # Failure
<1>1. body = <<"Throws">> => body[1] = "Throws" /\ body[1] \in Format
  OBVIOUS
<1>2. QED
  BY <1>1 DEF Failure, Format

(* A coding is undone.                                                     *)
LEMMA UndoStays ==
    ASSUME NEW entries, NEW coded \in Body, NEW encoding
    PROVE  Undo(entries, coded, encoding) \in Body
<1>1. Failure \in Body
  BY DEF Body
<1>2. CASE coded = Failure
  BY <1>1, <1>2 DEF Undo
<1>3. CASE coded # Failure
  <2>1. coded \in Seq(Format)
    BY <1>3 DEF Body
  <2>2. coded # <<>> => Front(coded) \in Seq(Format)
    BY <2>1 DEF Front
  <2>3. Decode(coded, encoding) \in Body
    BY <1>1, <2>2 DEF Decode, InflatesAs, Body
  <2>4. QED
    BY <1>1, <1>3, <2>3 DEF Undo
<1>4. QED
  BY <1>2, <1>3

(* The body on the way through the codings.                                *)
Undoing(h, entries, body, codings) ==
    /\ h \in [0 .. Len(codings) -> Body]
    /\ h[0] = body
    /\ \A k \in 1 .. Len(codings) : h[k] = Undo(entries, h[k - 1], codings[k])
    /\ FoldLeft(LAMBDA coded, encoding : Undo(entries, coded, encoding), body, codings)
         = h[Len(codings)]

(* The codings are undone one after the other.                             *)
LEMMA UndoSteps ==
    ASSUME NEW entries, NEW body \in Body, NEW codings \in Seq(Seq(Coding))
    PROVE  \E h : Undoing(h, entries, body, codings)
<1> DEFINE n == Len(codings)
           T == Body
           base == body
           F == [k \in 1 .. n |-> [p \in T |-> Undo(entries, p, codings[k])]]
           Is(f) == f = [s \in SUBSET (1 .. n) |->
                           IF s = {} THEN base
                           ELSE Undo(entries, f[s \ {Max(s)}], codings[Max(s)])]
           iter == CHOOSE f : Is(f)
<1>1. n \in Nat /\ DOMAIN codings = 1 .. n /\ \A k \in 1 .. n : codings[k] \in Seq(Coding)
  OBVIOUS
<1>2. base \in T
  OBVIOUS
<1>3. FoldLeft(LAMBDA coded, encoding : Undo(entries, coded, encoding), body, codings) = iter[1 .. n]
  BY <1>1, Zenon DEF FoldLeft, MapThenFoldSet
<1> HIDE DEF n, T, base
<1>4. F \in [1 .. n -> [T -> T]]
  BY <1>1, UndoStays DEF T
<1>5. \A k \in 1 .. n, x \in T : F[k][x] = Undo(entries, x, codings[k])
  OBVIOUS
<1>6. \A s \in SUBSET (1 .. n) : s # {} => Max(s) \in 1 .. n /\ s \ {Max(s)} \in SUBSET (1 .. n)
  BY <1>1, MaxIsAPlace
<1>7. \E f \in [SUBSET (1 .. n) -> T] : IsFold(f, n, base, F)
  <2> HIDE DEF F
  <2>1. QED
    BY <1>1, <1>2, <1>4, FoldExists
<1>8. PICK f \in [SUBSET (1 .. n) -> T] : IsFold(f, n, base, F)
  BY <1>7
<1> HIDE DEF F
<1>9. Is(f)
  BY <1>5, <1>6, <1>8 DEF IsFold
<1>10. Is(iter)
  <2> HIDE DEF Is
  <2>1. QED
    BY <1>9
<1> HIDE DEF iter
<1>11. IsFoldIn(T, iter, n, base, F)
  BY <1>5, <1>6, <1>10 DEF IsFoldIn
<1>12. PICK h \in [0 .. n -> T] : IsRun(h, n, base, F) /\ h[n] = iter[1 .. n]
  <2>1. RunsTo(T, n, base, F, iter[1 .. n])
    BY <1>1, <1>2, <1>4, <1>11, FoldSteps
  <2>2. QED
    BY <2>1 DEF RunsTo
<1>13. \A k \in 1 .. n : k - 1 \in 0 .. n
  BY <1>1
<1>14. h[0] = base /\ \A k \in 1 .. n : h[k] = Undo(entries, h[k - 1], codings[k])
  BY <1>5, <1>12, <1>13 DEF IsRun
<1>15. QED
  BY <1>3, <1>12, <1>14 DEF n, T, base, Undoing

(* The entries of usable decoders, and the codings they take.              *)
Taken(c, decoders) == c = "identity" \/ <<c>> \in Named(decoders)

LEMMA EntriesTake ==
    ASSUME NEW decoders \in Seq(Decoder), IsUsable(decoders), NEW name
    PROVE  LET entries == BuildDecoderEntries(decoders)
           IN  entries # FailureOfList /\ (Contains(entries, name) <=> name \in Named(decoders))
<1> DEFINE entries == BuildDecoderEntries(decoders)
<1>1. /\ entries \in Entries /\ entries # FailureOfList
      /\ Collected(entries, decoders, Places(decoders))
  BY EntriesAreNamed
<1> HIDE DEF entries
<1>2. /\ \A p \in Places(decoders) : \E i \in 1 .. Len(entries) : entries[i] = NameAt(decoders, p)
      /\ \A i \in 1 .. Len(entries) : \E p \in Places(decoders) : entries[i] = NameAt(decoders, p)
  BY <1>1 DEF Collected
<1>3. Contains(entries, name) <=> name \in Named(decoders)
  <2>1. ASSUME Contains(entries, name) PROVE name \in Named(decoders)
    <3>1. PICK i \in 1 .. Len(entries) : entries[i] = name
      BY <2>1 DEF Contains
    <3>2. QED
      BY <1>2, <3>1, Zenon DEF Named
  <2>2. ASSUME name \in Named(decoders) PROVE Contains(entries, name)
    <3>1. PICK p \in Places(decoders) : name = NameAt(decoders, p)
      BY <2>2, Zenon DEF Named
    <3>2. QED
      BY <1>2, <3>1, Zenon DEF Contains
  <2>3. QED
    BY <2>1, <2>2
<1>4. QED
  BY <1>1, <1>3 DEF entries

(* Where the formats of a body come from.                                  *)
CodedBy(body, codings, by) ==
    /\ by \in [1 .. Len(body) -> 1 .. Len(codings)]
    /\ \A i \in 1 .. Len(codings) : codings[i] # "identity" <=> \E l \in 1 .. Len(body) : by[l] = i
    /\ \A l \in 1 .. Len(body) : body[l] \in Formats(codings[by[l]])
    /\ \A l, m \in 1 .. Len(body) : l < m => by[l] < by[m]

LEMMA CodedSomehow ==
    ASSUME NEW body \in Seq(Format), NEW codings \in Seq(Coding), IsCoded(body, codings)
    PROVE  \E by : CodedBy(body, codings, by)
<1>1. DOMAIN body = 1 .. Len(body) /\ DOMAIN codings = 1 .. Len(codings)
  OBVIOUS
<1>2. PICK by \in [DOMAIN body -> DOMAIN codings] :
          /\ Range(by) = {i \in DOMAIN codings : codings[i] # "identity"}
          /\ \A l \in DOMAIN body : body[l] \in Formats(codings[by[l]])
          /\ \A l, m \in DOMAIN body : l < m => by[l] < by[m]
  BY Zenon DEF IsCoded
<1>3. Range(by) = {by[l] : l \in 1 .. Len(body)}
  BY <1>1 DEF Range
<1>4. \A i \in 1 .. Len(codings) : codings[i] # "identity" <=> \E l \in 1 .. Len(body) : by[l] = i
  BY <1>1, <1>2, <1>3, Zenon
<1>5. CodedBy(body, codings, by)
  BY <1>1, <1>2, <1>4 DEF CodedBy
<1>6. QED
  BY <1>5

(* What is left of a body when the codings behind the first d are undone.  *)
Undone(coded, body, codings, by, decoders, d) ==
    \/ coded = Failure /\ \E i \in d + 1 .. Len(codings) : ~Taken(codings[i], decoders)
    \/ /\ \A i \in d + 1 .. Len(codings) : Taken(codings[i], decoders)
       /\ \E l \in 0 .. Len(body) : /\ coded = SubSeq(body, 1, l)
                                     /\ \A m \in 1 .. Len(body) : m <= l <=> by[m] <= d

(* The outermost format of a body, and the body without it.                *)
LEMMA OutermostFormat ==
    ASSUME NEW body \in Seq(Format), NEW l \in 1 .. Len(body)
    PROVE  /\ SubSeq(body, 1, l) \in Seq(Format) /\ SubSeq(body, 1, l) # <<>>
           /\ Last(SubSeq(body, 1, l)) = body[l]
           /\ Front(SubSeq(body, 1, l)) = SubSeq(body, 1, l - 1)
<1> DEFINE s == SubSeq(body, 1, l)
<1>1. s \in Seq(Format) /\ Len(s) = l /\ \A i \in 1 .. l : s[i] = body[i]
  OBVIOUS
<1> HIDE DEF s
<1>2. l \in 1 .. l /\ l - 1 \in Nat /\ l - 1 <= l
  OBVIOUS
<1>3. Last(s) = body[l] /\ s # <<>>
  BY <1>1, <1>2 DEF Last
<1>4. SubSeq(s, 1, l - 1) = SubSeq(body, 1, l - 1)
  BY <1>1, <1>2
<1>5. Front(s) = SubSeq(s, 1, l - 1)
  BY <1>1 DEF Front
<1>6. QED
  BY <1>1, <1>3, <1>4, <1>5 DEF s

(* The coding d is undone.                                                 *)
LEMMA UndoneStep ==
    ASSUME NEW decoders \in Seq(Decoder), IsUsable(decoders),
           Named(decoders) \subseteq {<<"gzip">>, <<"deflate">>},
           NEW body \in Seq(Format), NEW codings \in Seq(Coding),
           NEW by, CodedBy(body, codings, by),
           NEW d \in 1 .. Len(codings), NEW coded, Undone(coded, body, codings, by, decoders, d)
    PROVE  Undone(Undo(BuildDecoderEntries(decoders), coded, <<codings[d]>>),
                  body, codings, by, decoders, d - 1)
<1> DEFINE entries == BuildDecoderEntries(decoders)
           c == codings[d]
           new == Undo(entries, coded, <<c>>)
           n == Len(codings)
           b == Len(body)
<1>1. n \in Nat /\ b \in Nat /\ c \in Coding /\ (d - 1) + 1 = d /\ d \in d .. n
      /\ (\A i \in d .. n : i = d \/ i \in d + 1 .. n) /\ (\A i \in d + 1 .. n : i \in d .. n)
  OBVIOUS
<1>2. Contains(entries, <<c>>) <=> <<c>> \in Named(decoders)
  BY EntriesTake
<1>3. \A m \in 1 .. b : by[m] \in 1 .. n
  BY DEF CodedBy
<1> HIDE DEF entries, c, n, b
<1>4. CASE coded = Failure /\ \E i \in d + 1 .. n : ~Taken(codings[i], decoders)
  <2>1. new = Failure
    BY <1>4 DEF Undo
  <2>2. \E i \in (d - 1) + 1 .. n : ~Taken(codings[i], decoders)
    BY <1>1, <1>4
  <2>3. QED
    BY <2>1, <2>2 DEF Undone, entries, c, n
<1>5. CASE /\ \A i \in d + 1 .. n : Taken(codings[i], decoders)
           /\ \E l \in 0 .. b : coded = SubSeq(body, 1, l) /\ \A m \in 1 .. b : m <= l <=> by[m] <= d
  <2>1. PICK l \in 0 .. b : coded = SubSeq(body, 1, l) /\ \A m \in 1 .. b : m <= l <=> by[m] <= d
    BY <1>5
  <2>2. coded \in Seq(Format) /\ coded # Failure
    <3>1. SubSeq(body, 1, l) \in Seq(Format)
      BY DEF b
    <3>2. QED
      BY <2>1, <3>1, BodiesAreNoFailure
  <2>3. CASE c = "identity"
    <3>1. new = coded
      BY <2>2, <2>3 DEF Undo
    <3>2. \A m \in 1 .. b : by[m] # d
      BY <2>3 DEF CodedBy, c, b
    <3>3. \A m \in 1 .. b : m <= l <=> by[m] <= d - 1
      <4>1. \A m \in 1 .. b : by[m] <= d <=> by[m] <= d - 1
        BY <1>3, <3>2
      <4>2. QED
        BY <2>1, <4>1
    <3>4. \A i \in (d - 1) + 1 .. n : Taken(codings[i], decoders)
      BY <1>1, <1>5, <2>3 DEF Taken, c
    <3>5. QED
      BY <2>1, <3>1, <3>3, <3>4 DEF Undone, entries, c, n, b
  <2>4. CASE c # "identity" /\ <<c>> \notin Named(decoders)
    <3>1. <<c>> # <<"identity">>
      BY <2>4
    <3>2. new = Failure
      BY <1>2, <2>2, <2>4, <3>1 DEF Undo
    <3>3. ~Taken(codings[d], decoders)
      BY <2>4 DEF Taken, c
    <3>4. \E i \in (d - 1) + 1 .. n : ~Taken(codings[i], decoders)
      BY <1>1, <3>3
    <3>5. QED
      BY <3>2, <3>4 DEF Undone, entries, c, n
  <2>5. CASE c # "identity" /\ <<c>> \in Named(decoders)
    <3>1. c = "gzip" \/ c = "deflate"
      <4>1. <<c>> = <<"gzip">> \/ <<c>> = <<"deflate">>
        BY <2>5
      <4>2. QED
        BY <4>1
    <3>2. PICK m \in 1 .. b : by[m] = d
      BY <2>5 DEF CodedBy, c, b
    <3>3. l \in 1 .. b /\ by[l] = d
      <4>1. m <= l
        BY <2>1, <3>2
      <4>2. l \in 1 .. b /\ l <= l
        BY <1>1, <4>1
      <4>3. by[l] <= d /\ by[l] \in Int
        BY <1>3, <2>1, <4>2
      <4>4. ASSUME m < l PROVE FALSE
        <5>1. by[m] < by[l]
          BY <4>2, <4>4 DEF CodedBy, b
        <5>2. QED
          BY <3>2, <4>3, <5>1
      <4>5. m = l
        BY <4>1, <4>2, <4>4
      <4>6. QED
        BY <3>2, <4>5
    <3>4. Last(coded) = body[l] /\ coded # <<>> /\ Front(coded) = SubSeq(body, 1, l - 1)
      BY <2>1, <3>3, OutermostFormat DEF b
    <3>5. body[l] \in Formats(c)
      BY <3>3 DEF CodedBy, b, c
    <3>6. Decode(coded, <<c>>) = Front(coded)
      <4>1. CASE c = "gzip"
        BY <3>4, <3>5, <4>1 DEF Decode, InflatesAs, Formats
      <4>2. CASE c = "deflate"
        BY <3>4, <3>5, <4>2 DEF Decode, InflatesAs, Formats
      <4>3. QED
        BY <3>1, <4>1, <4>2
    <3>7. new = SubSeq(body, 1, l - 1)
      <4>1. <<c>> # <<"identity">>
        BY <2>5
      <4>2. new = Decode(coded, <<c>>)
        BY <1>2, <2>2, <2>5, <4>1 DEF Undo
      <4>3. QED
        BY <3>4, <3>6, <4>2
    <3>8. \A i \in (d - 1) + 1 .. n : Taken(codings[i], decoders)
      BY <1>1, <1>5, <2>5 DEF Taken, c
    <3>9. ASSUME NEW j \in 1 .. b PROVE j <= l - 1 <=> by[j] <= d - 1
      <4>1. CASE j < l
        <5>1. by[j] < by[l]
          BY <3>3, <4>1 DEF CodedBy, b
        <5>2. QED
          BY <1>3, <3>3, <4>1, <5>1
      <4>2. CASE j = l
        BY <3>3, <4>2
      <4>3. CASE j > l
        <5>1. by[l] < by[j]
          BY <3>3, <4>3 DEF CodedBy, b
        <5>2. QED
          BY <1>3, <3>3, <4>3, <5>1
      <4>4. QED
        BY <3>3, <4>1, <4>2, <4>3
    <3>10. l - 1 \in 0 .. b
      BY <1>1, <3>3
    <3>11. QED
      BY <3>7, <3>8, <3>9, <3>10 DEF Undone, entries, c, n, b
  <2>6. QED
    BY <2>3, <2>4, <2>5
<1>6. QED
  BY <1>4, <1>5 DEF Undone, n, b

(* All codings of a body are undone, or the decoder of one is missing.     *)
LEMMA BodyIsDecoded ==
    ASSUME NEW decoders \in Seq(Decoder), IsUsable(decoders),
           Named(decoders) \subseteq {<<"gzip">>, <<"deflate">>},
           NEW body \in Seq(Format), NEW codings \in Seq(Coding), IsCoded(body, codings),
           NEW header, ParseContentEncodings(header) = FirstNames(codings, Len(codings))
    PROVE  DecodeHttpResponseBody(body, header, decoders)
             = IF \A i \in 1 .. Len(codings) : Taken(codings[i], decoders) THEN <<>> ELSE Failure
<1> DEFINE n == Len(codings)
           names == FirstNames(codings, n)
           entries == BuildDecoderEntries(decoders)
           back == Reverse(names)
           result == DecodeHttpResponseBody(body, header, decoders)
<1>1. PICK by : CodedBy(body, codings, by)
  BY CodedSomehow
<1>2. n \in Nat /\ \A i \in 1 .. n : codings[i] \in Coding /\ <<codings[i]>> \in Seq(Coding)
  OBVIOUS
<1>3. names \in Seq(Seq(Coding)) /\ Len(names) = n /\ \A i \in 1 .. n : names[i] = <<codings[i]>>
  BY <1>2 DEF FirstNames
<1>4. entries # FailureOfList
  BY EntriesTake
<1> HIDE DEF names, entries, n
<1>5. CASE n = 0
  <2>1. names = <<>>
    BY <1>3, <1>5
  <2>2. result = body
    BY <2>1 DEF DecodeHttpResponseBody, names, n
  <2>3. \A l \in 1 .. Len(body) : FALSE
    BY <1>1, <1>5 DEF CodedBy, n
  <2>4. body = <<>>
    BY <2>3
  <2>5. \A i \in 1 .. n : FALSE
    BY <1>5
  <2>6. QED
    BY <2>2, <2>4, <2>5 DEF n
<1>6. CASE n # 0
  <2>1. names # <<>>
    BY <1>3, <1>6
  <2>2. back \in Seq(Seq(Coding)) /\ Len(back) = n
        /\ \A k \in 1 .. n : back[k] = <<codings[(n - k) + 1]>>
    <3>1. \A k \in 1 .. n : (n - k) + 1 \in 1 .. n
      BY <1>2
    <3>2. \A k \in 1 .. n : names[(n - k) + 1] \in Seq(Coding)
      BY <1>3, <3>1
    <3>3. back = [k \in 1 .. n |-> names[(n - k) + 1]]
      BY <1>3 DEF Reverse
    <3>4. \A k \in 1 .. n : back[k] = <<codings[(n - k) + 1]>>
      BY <1>3, <3>1, <3>3
    <3> HIDE DEF back
    <3>5. QED
      BY <1>2, <3>2, <3>3, <3>4
  <2> HIDE DEF back
  <2>3. result = FoldLeft(LAMBDA coded, encoding : Undo(entries, coded, encoding), body, back)
    BY <1>4, <2>1, Zenon DEF DecodeHttpResponseBody, names, entries, back, n
  <2>4. PICK h : Undoing(h, entries, body, back)
    <3>1. body \in Body
      BY DEF Body
    <3>2. QED
      BY <2>2, <3>1, UndoSteps
  <2>5. /\ h[0] = body /\ result = h[n]
        /\ \A k \in 1 .. n : h[k] = Undo(entries, h[k - 1], <<codings[(n - k) + 1]>>)
    BY <2>2, <2>3, <2>4, Zenon DEF Undoing
  <2> DEFINE G == {k \in Nat : k <= n => Undone(h[k], body, codings, by, decoders, n - k)}
  <2>6. 0 \in G
    <3>1. \A m \in 1 .. Len(body) : m <= Len(body) /\ by[m] <= n
      BY <1>1, <1>2, SMTT(30) DEF CodedBy, n
    <3>2. SubSeq(body, 1, Len(body)) = body /\ Len(body) \in 0 .. Len(body)
      OBVIOUS
    <3>3. \A i \in n + 1 .. Len(codings) : FALSE
      BY <1>2 DEF n
    <3>4. Undone(h[0], body, codings, by, decoders, n)
      BY <2>5, <3>1, <3>2, <3>3 DEF Undone
    <3>5. n - 0 = n
      BY <1>2
    <3>6. QED
      BY <3>4, <3>5
  <2>7. ASSUME NEW k \in Nat, k \in G PROVE k + 1 \in G
    <3>1. CASE k + 1 <= n
      <4> DEFINE d == n - k
      <4>1. d \in 1 .. n /\ k <= n /\ k + 1 \in 1 .. n /\ (k + 1) - 1 = k /\ (n - (k + 1)) + 1 = d
            /\ n - (k + 1) = d - 1
        BY <1>2, <3>1
      <4>2. Undone(h[k], body, codings, by, decoders, d)
        BY <2>7, <4>1
      <4>3. h[k + 1] = Undo(entries, h[k], <<codings[d]>>)
        <5>1. h[k + 1] = Undo(entries, h[(k + 1) - 1], <<codings[(n - (k + 1)) + 1]>>)
          BY <2>5, <4>1
        <5>2. QED
          BY <4>1, <5>1
      <4> HIDE DEF d
      <4>4. Undone(Undo(entries, h[k], <<codings[d]>>), body, codings, by, decoders, d - 1)
        BY <1>1, <4>1, <4>2, UndoneStep DEF entries, n
      <4>5. Undone(h[k + 1], body, codings, by, decoders, n - (k + 1))
        BY <4>1, <4>3, <4>4
      <4>6. QED
        BY <4>5
    <3>2. CASE ~(k + 1 <= n)
      BY <3>2
    <3>3. QED
      BY <3>1, <3>2
  <2>8. \A k \in Nat : k \in G
    <3> HIDE DEF G
    <3>1. QED
      BY <2>6, <2>7, Induction
  <2>9. Undone(result, body, codings, by, decoders, 0)
    <3>1. n \in G /\ n <= n /\ n - n = 0
      <4> HIDE DEF G
      <4>1. QED
        BY <1>2, <2>8
    <3>2. QED
      BY <2>5, <3>1
  <2> HIDE DEF result, G
  <2>10. 0 + 1 = 1
    OBVIOUS
  <2>11. CASE result = Failure /\ \E i \in 0 + 1 .. n : ~Taken(codings[i], decoders)
    BY <2>10, <2>11 DEF result, n
  <2>12. CASE /\ \A i \in 0 + 1 .. n : Taken(codings[i], decoders)
              /\ \E l \in 0 .. Len(body) : /\ result = SubSeq(body, 1, l)
                                           /\ \A m \in 1 .. Len(body) : m <= l <=> by[m] <= 0
    <3>1. PICK l \in 0 .. Len(body) : /\ result = SubSeq(body, 1, l)
                                      /\ \A m \in 1 .. Len(body) : m <= l <=> by[m] <= 0
      BY <2>12
    <3>2. \A m \in 1 .. Len(body) : ~(m <= l)
      <4>1. \A m \in 1 .. Len(body) : by[m] \in 1 .. n
        BY <1>1 DEF CodedBy, n
      <4>2. \A m \in 1 .. Len(body) : ~(by[m] <= 0)
        BY <1>2, <4>1
      <4>3. QED
        BY <3>1, <4>2
    <3>3. l = 0
      <4>1. l \in 1 .. Len(body) => l <= l
        OBVIOUS
      <4>2. QED
        BY <3>2, <4>1
    <3>4. result = <<>>
      BY <3>1, <3>3
    <3>5. QED
      BY <2>10, <2>12, <3>4 DEF result, n
  <2>13. QED
    BY <2>9, <2>11, <2>12 DEF Undone, n
<1>7. QED
  BY <1>5, <1>6

-----------------------------------------------------------------------------
(* The theorems.                                                           *)

(* What an output is of its input.                                         *)
OutputInv ==
    /\ input \in Input \cup {Pending}
    /\ output.of = "Plan" => input.of = "Plan" /\ output.nodes = DrainPlan(input.plan)
    /\ output.of = "Key" =>
          /\ input.of = "Key"
          /\ output.nodes = DrainPlan(QueryPlanForPartitionKey(input.source, input.seed))
    /\ output.of = "Batch" =>
          LET result == QueryPlanForBatchWrite(input.source, input.writes)
          IN  /\ input.of = "Batch"
              /\ output.throws = result.throws
              /\ output.nodes = IF result.throws THEN <<>> ELSE DrainPlan(result.plan)
    /\ output.of = "Write" =>
          /\ input.of = "Write"
          /\ output.affine = IF input.request.kind = "BatchWriteItem"
                             THEN ShouldUseKeyRouteAffinityForBatch(input.mode)
                             ELSE ShouldUseKeyRouteAffinity(input.mode, input.request.kind,
                                                            WriteOptions(input.request))
    /\ output.of = "Response" =>
          /\ input.of = "Response"
          /\ output.body = ResponseBody(input.lines, input.body, input.decoders)
    /\ output.of = "Codings" =>
          /\ input.of = "Codings"
          /\ output.accept = BuildAcceptEncodingValue(input.decoders)
          /\ output.content = BuildRequestContentEncodingValue(input.advertised)
    /\ output.of = "LocalNodes" =>
          input.of = "LocalNodes" /\ output.parsed = ParseJsonStringArray(input.body)

(* A function returns once, and for the input it was given: every step     *)
(* keeps OutputInv.                                                       *)
LEMMA StepOutput ==
    OutputInv /\ [Next]_vars => OutputInv'
<1> SUFFICES ASSUME OutputInv, [Next]_vars PROVE OutputInv'
  OBVIOUS
<1>1. CASE Drain
  BY <1>1 DEF Drain, Returns, OutputInv
<1>2. CASE RouteKey
  BY <1>2 DEF RouteKey, Returns, OutputInv
<1>3. CASE RouteBatch
  BY <1>3 DEF RouteBatch, Returns, OutputInv
<1>4. CASE RouteWrite
  BY <1>4 DEF RouteWrite, Returns, OutputInv
<1>5. CASE DecodeBody
  BY <1>5 DEF DecodeBody, Returns, OutputInv
<1>6. CASE Announce
  BY <1>6 DEF Announce, Returns, OutputInv
<1>7. CASE ParseAnswer
  BY <1>7 DEF ParseAnswer, Returns, OutputInv
<1>8. CASE SeedOnce
  BY <1>8 DEF SeedOnce, Returns, OutputInv
<1>9. CASE Generate
  BY <1>9 DEF Generate, OutputInv
<1>10. CASE DrawAll
  BY <1>10 DEF DrawAll, Returns, OutputInv
<1>11. CASE Loop \/ UNCHANGED vars
  BY <1>11 DEF Loop, vars, OutputInv
<1>12. QED
  BY <1>1, <1>2, <1>3, <1>4, <1>5, <1>6, <1>7, <1>8, <1>9, <1>10, <1>11 DEF Next

(* Nothing has been returned initially, so that OutputInv holds.          *)
LEMMA InitOutput ==
    Init => OutputInv
  BY DEF Init, OutputInv, Pending

(* Theorem.  A plan of any length, however it is made, gives an operation  *)
(* the entries of its list, each once, in the order of the preferred nodes *)
(* (PlansVisitEveryEntryOnce).                                             *)
THEOREM PlansKeepVisitingEveryEntry ==
    Spec => []PlansVisitEveryEntryOnce
<1>1. OutputInv => PlansVisitEveryEntryOnce
  <2> SUFFICES ASSUME OutputInv, output.of = "Plan" PROVE PlansVisitEveryEntryOnce
    BY DEF PlansVisitEveryEntryOnce
  <2>1. input \in Input /\ input.of = "Plan" /\ output.nodes = DrainPlan(input.plan)
    BY DEF OutputInv, Pending
  <2>2. input.plan \in Plan /\ HasDraws(input.plan)
    BY <2>1, InputAssumption DEF HasDraws
  <2>3. Drained(output.nodes, input.plan)
    BY <2>1, <2>2, DrainPlanDrains
  <2>4. QED
    BY <2>2, <2>3, DrainedVisitsEveryEntryOnce DEF PlansVisitEveryEntryOnce
<1>2. QED
  BY <1>1, InitOutput, StepOutput, PTL DEF Spec

(* Theorem.  The plan of a key has every node of its two reads once, the   *)
(* nodes only the later read has first and then the node that              *)
(* FirstNodeWithSeed names, whatever the reads return                      *)
(* (KeyedPlansKeepEveryNode).                                              *)
THEOREM KeyedPlansStayComplete ==
    Spec => []KeyedPlansKeepEveryNode
<1>1. OutputInv => KeyedPlansKeepEveryNode
  <2> SUFFICES ASSUME OutputInv, output.of = "Key" PROVE KeyedPlansKeepEveryNode
    BY DEF KeyedPlansKeepEveryNode
  <2>1. /\ input \in Input /\ input.of = "Key"
        /\ output.nodes = DrainPlan(QueryPlanForPartitionKey(input.source, input.seed))
    BY DEF OutputInv, Pending
  <2>2. IsSource(input.source, {input.seed})
    BY <2>1, InputAssumption
  <2>3. QED
    BY <2>1, <2>2, KeyedPlanKeepsEveryNode DEF KeyedPlansKeepEveryNode
<1>2. QED
  BY <1>1, InitOutput, StepOutput, PTL DEF Spec

(* Theorem.  A batch of any number of writes is given up only without a    *)
(* usable key or a known node; otherwise its plan has every node once and  *)
(* the active ones in the order of their shares of the batch, also when    *)
(* the names of keys appear or are replaced between the two lookups        *)
(* (BatchPlansFollowTheirKeys).                                            *)
THEOREM BatchPlansKeepFollowingTheirKeys ==
    Spec => []BatchPlansFollowTheirKeys
<1>1. OutputInv => BatchPlansFollowTheirKeys
  <2> SUFFICES ASSUME OutputInv, output.of = "Batch" PROVE BatchPlansFollowTheirKeys
    BY DEF BatchPlansFollowTheirKeys
  <2> DEFINE result == QueryPlanForBatchWrite(input.source, input.writes)
  <2>1. /\ input \in Input /\ input.of = "Batch" /\ output.throws = result.throws
        /\ output.nodes = IF output.throws THEN <<>> ELSE DrainPlan(result.plan)
    BY DEF OutputInv, Pending
  <2>2. IsBatch(input.source, input.writes)
    BY <2>1, InputAssumption DEF IsBatch, BatchWrite
  <2>3. FollowsKeys(input.source, input.writes, output.throws, output.nodes)
    <3> DEFINE throws == output.throws
               nodes == output.nodes
               source == input.source
               writes == input.writes
    <3>1. /\ throws = QueryPlanForBatchWrite(source, writes).throws /\ IsBatch(source, writes)
          /\ nodes = IF throws THEN <<>> ELSE DrainPlan(QueryPlanForBatchWrite(source, writes).plan)
      BY <2>1, <2>2
    <3> HIDE DEF throws, nodes, source, writes
    <3>2. FollowsKeys(source, writes, throws, nodes)
      BY <3>1, BatchPlanFollowsItsKeys
    <3>3. QED
      BY <3>2 DEF throws, nodes, source, writes
  <2>4. QED
    BY <2>3, Zenon DEF BatchPlansFollowTheirKeys, FollowsKeys, Keyed, KnownNodes
<1>2. QED
  BY <1>1, InitOutput, StepOutput, PTL DEF Spec

(* Theorem.  In ReadBeforeWrite mode a write is routed by its key exactly  *)
(* when what it does or answers depends on the item it writes to, or it is *)
(* an update of nothing that asks for the old values, for any number of    *)
(* attribute updates (ReadsBeforeWritesAreRouted).                         *)
THEOREM ReadsBeforeWritesStayRouted ==
    Spec => []ReadsBeforeWritesAreRouted
<1>1. OutputInv => ReadsBeforeWritesAreRouted
  <2> SUFFICES ASSUME OutputInv, output.of = "Write", input.mode = "ReadBeforeWrite"
               PROVE  ReadsBeforeWritesAreRouted
    BY DEF ReadsBeforeWritesAreRouted
  <2>1. input \in Input /\ input.of = "Write"
    BY DEF OutputInv, Pending
  <2>2. Accepted(input.request)
    BY <2>1, InputAssumption
  <2>3. CASE input.request.kind = "BatchWriteItem"
    <3>1. ~output.affine
      BY <2>3 DEF OutputInv, ShouldUseKeyRouteAffinityForBatch, ShouldUseKeyRouteAffinity,
                  DoesWriteNeedReadBeforeWrite
    <3>2. QED
      BY <2>3, <3>1 DEF ReadsBeforeWritesAreRouted
  <2>4. CASE input.request.kind # "BatchWriteItem"
    <3>1. output.affine <=> Reads(input.request)
      BY <2>4 DEF OutputInv, ShouldUseKeyRouteAffinity, Reads
    <3>2. Reads(input.request) <=>
             UpdatesNothing(input.request) \/ DependsOnItem(input.request)
      BY <2>2, <2>4, OthersDoNotRead, ReadersRead, EmptyUpdatesAreReads
    <3>3. QED
      BY <2>4, <3>1, <3>2, Zenon DEF ReadsBeforeWritesAreRouted, DependsOnItem
  <2>5. QED
    BY <2>3, <2>4
<1>2. QED
  BY <1>1, InitOutput, StepOutput, PTL DEF Spec

(* Theorem.  The parser of /localnodes reads every body, of any length,    *)
(* that is a JSON array of strings without escapes it refuses, and beyond  *)
(* those exactly the ones that are not JSON only for control characters in *)
(* a string or other white space between tokens; it gives the strings in   *)
(* order, each with what its escapes mean (AnswersAreReadExactly).         *)
THEOREM AnswersStayReadExactly ==
    Spec => []AnswersAreReadExactly
<1>1. OutputInv => AnswersAreReadExactly
  <2> SUFFICES ASSUME OutputInv, output.of = "LocalNodes" PROVE AnswersAreReadExactly
    BY DEF AnswersAreReadExactly
  <2>1. /\ input \in Input /\ input.of = "LocalNodes"
        /\ output.parsed = ParseJsonStringArray(input.body)
    BY DEF OutputInv, Pending
  <2>2. input.body \in Seq(Character)
    BY <2>1, InputAssumption
  <2>3. QED
    BY <2>1, <2>2, ParserIsExact DEF AnswersAreReadExactly, IsArray
<1>2. QED
  BY <1>1, InitOutput, StepOutput, PTL DEF Spec

(* Theorem.  Whatever decoders are configured, they are refused exactly    *)
(* when they cannot be used (one is null or names nothing, or a name is    *)
(* blank or there twice); when no name has a comma in it, Accept-Encoding  *)
(* is read as the codings they name, each once.  Content-Encoding is read  *)
(* as one coding (AnnouncedCodingsAreMeant).                               *)
THEOREM AnnouncedCodingsStayMeant ==
    Spec => []AnnouncedCodingsAreMeant
<1>1. OutputInv => AnnouncedCodingsAreMeant
  <2> SUFFICES ASSUME OutputInv, output.of = "Codings" PROVE AnnouncedCodingsAreMeant
    BY DEF AnnouncedCodingsAreMeant
  <2>1. /\ input \in Input /\ input.of = "Codings"
        /\ output.accept = BuildAcceptEncodingValue(input.decoders)
        /\ output.content = BuildRequestContentEncodingValue(input.advertised)
    BY DEF OutputInv, Pending
  <2>2. input.decoders \in Decoders /\ input.advertised \in Seq(HeaderCharacter)
    BY <2>1, InputAssumption
  <2>3. input.decoders \in Seq(Decoder)
    BY <2>2, Zenon DEF Decoders, Decoder, CodingText
  <2>4. Announces(output.accept, input.decoders)
    BY <2>1, <2>3, AcceptIsMeant
  <2>5. output.content # Failure => ParseContentEncodings(output.content) = <<output.content>>
    BY <2>1, <2>2, ContentIsMeant
  <2>6. QED
    BY <2>4, <2>5, Zenon DEF AnnouncedCodingsAreMeant, Announces
<1>2. QED
  BY <1>1, InitOutput, StepOutput, PTL DEF Spec

(* Theorem.  A body that was coded with any number of codings, as the one  *)
(* line of its last head says, is returned as it was before; without a     *)
(* decoder for one of the codings the call throws (BodiesAreDecoded).      *)
THEOREM BodiesStayDecoded ==
    Spec => []BodiesAreDecoded
<1>1. OutputInv => BodiesAreDecoded
  <2> SUFFICES ASSUME OutputInv, output.of = "Response" PROVE BodiesAreDecoded
    BY DEF BodiesAreDecoded
  <2>1. /\ input \in Input /\ input.of = "Response"
        /\ output.body = ResponseBody(input.lines, input.body, input.decoders)
    BY DEF OutputInv, Pending
  <2> DEFINE decoders == input.decoders
             codings == input.codings
             lines == input.lines
             body == input.body
  <2>2. IsResponse(input)
    BY <2>1, InputAssumption
  <2>3. /\ decoders \in Seq(Decoder) /\ IsUsable(decoders)
        /\ Named(decoders) \subseteq {<<"gzip">>, <<"deflate">>}
        /\ codings \in Seq(Coding) /\ lines \in Seq(HeadLine) /\ Says(lines, codings)
        /\ body \in Seq(Format) /\ IsCoded(body, codings)
    BY <2>2, Zenon DEF IsResponse, Decoders, Decoder, CodingText, Coding, Format
  <2> HIDE DEF decoders, codings, lines, body
  <2> DEFINE header == FindHttpHeaderValue(lines, "content-encoding")
  <2>4. ParseContentEncodings(header) = FirstNames(codings, Len(codings))
    BY <2>3, HeadIsRead
  <2>5. output.body = DecodeHttpResponseBody(body, header, decoders)
    BY <2>1, Zenon DEF ResponseBody, lines, body, decoders
  <2> HIDE DEF header
  <2>6. output.body = IF \A i \in 1 .. Len(codings) : Taken(codings[i], decoders) THEN <<>> ELSE Failure
    BY <2>3, <2>4, <2>5, BodyIsDecoded
  <2>7. (\A i \in 1 .. Len(codings) : Taken(codings[i], decoders))
          <=> \A c \in ToSet(codings) : c = "identity" \/ <<c>> \in Named(decoders)
    <3>1. DOMAIN codings = 1 .. Len(codings)
      BY <2>3
    <3>2. ToSet(codings) = {codings[i] : i \in 1 .. Len(codings)}
      BY <3>1, Zenon DEF ToSet
    <3>3. QED
      BY <3>2, Zenon DEF Taken
  <2>8. QED
    BY <2>6, <2>7, Zenon DEF BodiesAreDecoded, codings, decoders
<1>2. QED
  BY <1>1, InitOutput, StepOutput, PTL DEF Spec
=============================================================================
