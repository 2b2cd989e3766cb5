---------------------------- MODULE Compression ----------------------------
(***************************************************************************)
(* HTTP bodies and their content codings: src/http_compression.cpp and the *)
(* decoding of responses in src/http_client.cpp.                           *)
(*                                                                         *)
(* A coding's name is a sequence of letters, of which only the case is     *)
(* told apart: "gzip" and "GZIP" are one letter each, so are the others.   *)
(* A header's value is a sequence of letters, blanks and commas.  A body   *)
(* is the sequence of the formats it was put in, the outermost last; a     *)
(* body that is not compressed is <<>>.                                    *)
(***************************************************************************)
EXTENDS Integers, Sequences, SequencesExt

Letter == {"gzip", "GZIP", "deflate", "DEFLATE", "identity", "br"}
HeaderCharacter == Letter \cup {"blank", "comma"}

(***************************************************************************)
(* The outcome of a call that throws, where it returns a string and where  *)
(* it returns a list of strings.                                           *)
(***************************************************************************)
Failure == <<"Throws">>
FailureOfList == <<Failure>>

ToLowerLetter(ch) ==
    CASE ch = "GZIP" -> "gzip"
      [] ch = "DEFLATE" -> "deflate"
      [] ch = "Content-Encoding" -> "content-encoding"
      [] OTHER -> ch

ToLowerAscii(value) == [i \in DOMAIN value |-> ToLowerLetter(value[i])]

TrimAscii(value) ==
    LET solid == {i \in DOMAIN value : value[i] # "blank"}
    IN  IF solid = {} THEN <<>>
        ELSE SubSeq(value, CHOOSE i \in solid : \A j \in solid : i <= j,
                           CHOOSE i \in solid : \A j \in solid : j <= i)

NormalizeResponseEncoding(encoding) == ToLowerAscii(TrimAscii(encoding))

(***************************************************************************)
(* The elements between the commas, trimmed and in lower case, empty ones  *)
(* dropped: what has been read of a header is the list of the elements     *)
(* that ended and the text of the one that has not.                        *)
(***************************************************************************)
PushToken(read) ==
    LET token == NormalizeResponseEncoding(read.token)
    IN  [encodings |-> IF token = <<>> THEN read.encodings ELSE Append(read.encodings, token),
         token |-> <<>>]

ReadLetter(read, ch) ==
    IF ch = "comma" THEN PushToken(read) ELSE [read EXCEPT !.token = Append(@, ch)]

ReadHeader(header) == FoldLeft(ReadLetter, [encodings |-> <<>>, token |-> <<>>], header)

ParseContentEncodings(header) == PushToken(ReadHeader(header)).encodings

(***************************************************************************)
(* The codings the decoders accept, in order; throws on a null decoder, a  *)
(* decoder without codings, an empty coding and a coding accepted twice.   *)
(* A decoder is the sequence of its codings; nobody names the coding that  *)
(* stands for null.                                                        *)
(***************************************************************************)
NullDecoder == << <<"null">> >>

AddEncoding(entries, encoding) ==
    LET normalized == NormalizeResponseEncoding(encoding)
    IN  IF entries = FailureOfList \/ normalized = <<>> \/ Contains(entries, normalized)
        THEN FailureOfList ELSE Append(entries, normalized)

AddDecoder(entries, encodings) ==
    IF encodings = NullDecoder \/ encodings = <<>> THEN FailureOfList
    ELSE FoldLeft(AddEncoding, entries, encodings)

BuildDecoderEntries(decoders) == FoldLeft(AddDecoder, <<>>, decoders)

(***************************************************************************)
(* Mutant: the codings are not separated.                                  *)
(***************************************************************************)
BuildAcceptEncodingValueUnseparated(decoders) ==
    LET entries == BuildDecoderEntries(decoders)
    IN  IF entries = FailureOfList THEN Failure ELSE FlattenSeq(entries)

(***************************************************************************)
(* The Accept-Encoding header of a request, "" when nothing is accepted.   *)
(***************************************************************************)
JoinEncoding(value, encoding) ==
    IF value = <<>> THEN encoding ELSE value \o <<"comma", "blank">> \o encoding

BuildAcceptEncodingValue(decoders) ==
    LET entries == BuildDecoderEntries(decoders)
    IN  IF entries = FailureOfList THEN Failure ELSE FoldLeft(JoinEncoding, <<>>, entries)

(***************************************************************************)
(* The Content-Encoding of compressed requests: one coding, or a throw.    *)
(***************************************************************************)
BuildRequestContentEncodingValue(advertised) ==
    LET encoding == NormalizeResponseEncoding(advertised)
    IN  IF encoding = <<>> \/ Contains(encoding, "comma") THEN Failure ELSE encoding

(***************************************************************************)
(* zlib, external.  A body decodes when its outermost format is the one    *)
(* the window bits ask for.                                                *)
(***************************************************************************)
InflatesAs(body, format) == body # <<>> /\ Last(body) = format

(***************************************************************************)
(* ZlibContentEncodingDecoder::Decode: gzip is taken as such, deflate with *)
(* the zlib wrapper or, when that fails, without.                          *)
(***************************************************************************)
Decode(body, encoding) ==
    IF \/ encoding = <<"gzip">> /\ InflatesAs(body, "gzip")
       \/ encoding = <<"deflate">> /\ (InflatesAs(body, "zlib") \/ InflatesAs(body, "raw"))
    THEN Front(body) ELSE Failure

(***************************************************************************)
(* The codings of a body are undone from the last to the first.            *)
(***************************************************************************)
Undo(entries, coded, encoding) ==
    CASE coded = Failure -> Failure
      [] coded # Failure /\ encoding = <<"identity">> -> coded
      [] OTHER -> IF Contains(entries, encoding) THEN Decode(coded, encoding) ELSE Failure

DecodeHttpResponseBody(body, header, decoders) ==
    LET encodings == ParseContentEncodings(header)
        entries == BuildDecoderEntries(decoders)
    IN  CASE encodings = <<>> -> body
          [] encodings # <<>> /\ entries = FailureOfList -> Failure
          [] OTHER -> FoldLeft(LAMBDA coded, encoding : Undo(entries, coded, encoding),
                               body, Reverse(encodings))

(***************************************************************************)
(* The lines of a response's head: a status line, a line that is no header *)
(* or a header [name, value].  A response may carry several heads (100     *)
(* Continue, redirects): a status line forgets what the heads before it    *)
(* said.                                                                   *)
(***************************************************************************)
StatusLine == [name |-> "HTTP/", value |-> <<>>]

(***************************************************************************)
(* Mutant: the heads before the last one are not forgotten.                *)
(***************************************************************************)
FindHttpHeaderValueOfAnyHead(lines, name) ==
    FoldLeft(LAMBDA value, line : IF ToLowerLetter(line.name) = name THEN TrimAscii(line.value) ELSE value,
             <<>>, lines)

ReadLine(name, value, line) ==
    CASE line = StatusLine -> <<>>
      [] line # StatusLine /\ ToLowerLetter(line.name) = name -> TrimAscii(line.value)
      [] OTHER -> value

FindHttpHeaderValue(lines, name) ==
    FoldLeft(LAMBDA value, line : ReadLine(name, value, line), <<>>, lines)

(***************************************************************************)
(* The body CurlHttpClient::Get returns.                                   *)
(***************************************************************************)
ResponseBody(lines, body, decoders) ==
    DecodeHttpResponseBody(body, FindHttpHeaderValue(lines, "content-encoding"), decoders)
=============================================================================
