---------------------------- MODULE MessageFormat ----------------------------
(***************************************************************************)
(* The bytes of a message of v0.0.0 (ProtocolHandler.cpp).  A payload is a *)
(* sequence of fields, and the layout of a request names their kinds; the  *)
(* fields are written and read one after the other.                        *)
(***************************************************************************)
EXTENDS VersionMessage

CONSTANTS
  MaxHeader,   \* bytes of PAYLOAD_SIZE, 8 in the code
  TimeBytes,   \* bytes of UPDATED_AT, 8 in the code
  HashSize,    \* algo_hash_size
  PACKET_SIZE

ASSUME FormatAssumption ==
  /\ MaxHeader \in Nat \ {0} /\ TimeBytes \in Nat \ {0} /\ PACKET_SIZE \in Nat \ {0}
  /\ HashSize \in [DOMAIN HashSize -> Nat]

\* CommandCode, numbered in its order.
RESPONSE == 0
SEND_FILE == 3
RECEIVE_FILE == 4
LIST_FILES == 5
FILE_LIST == 6
PING == 7
DATA_PACKET == 8

Layout(code) ==
  CASE code = RESPONSE -> <<"byte">>
    [] code = SEND_FILE -> <<"string", "hash", "time", "number", "number">>
    [] code = RECEIVE_FILE -> <<"string", "number", "number">>
    [] code = LIST_FILES -> <<"string">>
    [] code = FILE_LIST -> <<"byte", "number", "files">>
    [] code = DATA_PACKET -> <<"byte", "number", "string">>
    [] code = PING -> <<>>

Request(code, id, values) == [code |-> code, id |-> id, values |-> values]

(***************************************************************************)
(* Writing.                                                                *)
(***************************************************************************)
StringBytes(string) == Encode(Len(string)) \o string

\* Utils::serialize: a fixed number of bytes, the least significant first.
Serialized(n) == [i \in 1 .. TimeBytes |-> (n \div B^(i - 1)) % B]

FileBytes(file) == StringBytes(file.path) \o <<file.file_type>>

FieldBytes(kind, value) ==
  CASE kind = "byte" -> <<value>>
    [] kind = "number" -> Encode(value)
    [] kind = "string" -> StringBytes(value)
    [] kind = "hash" -> <<value.algorithm>> \o value.filehash
    [] kind = "time" -> Serialized(value)
    [] kind = "files" ->
         Encode(Len(value)) \o FlattenSeq([i \in DOMAIN value |-> FileBytes(value[i])])

\* RECEIVE_FILE carries the size of packets of the handler, whatever is asked for.
Sent(request) ==
  IF request.code = RECEIVE_FILE
  THEN [request EXCEPT !.values[2] = PACKET_SIZE] ELSE request

Payload(request) ==
  FlattenSeq([i \in DOMAIN request.values |->
                FieldBytes(Layout(request.code)[i], Sent(request).values[i])])

FormatRequest(request) ==
  MAGIC_BYTES \o <<request.code, request.id>>
    \o Encode(Len(Payload(request))) \o Payload(request)

(***************************************************************************)
(* Reading.  A reader holds what is left of the payload and the values     *)
(* read, or has failed: every error below throws.                          *)
(***************************************************************************)
Reader(rest, values) == [ok |-> TRUE, rest |-> rest, values |-> values]
Failed == [ok |-> FALSE, rest |-> <<>>, values |-> <<>>]

\* The next bytes, and the reader that goes on behind them with their value.
Ahead(reader, count) == SubSeq(reader.rest, 1, count)
Take(reader, count, value) ==
  IF ~reader.ok \/ Len(reader.rest) < count THEN Failed
  ELSE Reader(SubSeq(reader.rest, count + 1, Len(reader.rest)), Append(reader.values, value))

TakeByte(reader) == Take(reader, 1, Head(reader.rest))
TakeNumber(reader, size) ==
  IF size = 0 \/ ~Fits(Ahead(reader, size)) THEN Failed
  ELSE Take(reader, size, Number(Ahead(reader, size)))
ReadNumber(reader) == TakeNumber(reader, Ends(reader.rest))

\* The last value read, a size or a count, is used up by what follows it.
Latest(reader) == Last(reader.values)
Used(reader) == [reader EXCEPT !.values = Front(@)]

TakeString(sized) ==
  IF sized.ok THEN Take(Used(sized), Latest(sized), Ahead(sized, Latest(sized))) ELSE Failed
ReadString(reader) == TakeString(ReadNumber(reader))

ReadHash(reader) ==
  IF reader.rest = <<>> \/ Head(reader.rest) \notin DOMAIN HashSize THEN Failed
  ELSE LET size == 1 + HashSize[Head(reader.rest)]
       IN  IF Len(reader.rest) < size + TimeBytes + 1 THEN Failed
           ELSE Take(reader, size, [algorithm |-> Head(reader.rest),
                                    filehash |-> Tail(Ahead(reader, size))])

\* Utils::parse.
Parse(bytes) == FoldRight(LAMBDA byte, sum : byte + B * sum, bytes, 0)

\* What one reader has read becomes one value of another.
Joined(read, value, values) == IF read.ok THEN Reader(read.rest, Append(values, value)) ELSE Failed
Named(read, values) ==
  Joined(read, [path |-> Latest(Used(read)), file_type |-> Latest(read)], values)
ReadFile(reader) == Named(TakeByte(ReadString(reader)), reader.values)

Listed(read, values) == Joined(read, read.values, values)
TakeFiles(counted, values) ==
  IF ~counted.ok THEN Failed
  ELSE Listed(FoldLeft(LAMBDA reader, i : ReadFile(reader), Reader(counted.rest, <<>>),
                       [i \in 1 .. Latest(counted) |-> i]), values)
ReadFiles(reader) == TakeFiles(ReadNumber(reader), reader.values)

ReadField(reader, kind) ==
  CASE ~reader.ok -> Failed
    [] reader.ok /\ kind = "byte" -> TakeByte(reader)
    [] reader.ok /\ kind = "number" -> ReadNumber(reader)
    [] reader.ok /\ kind = "string" -> ReadString(reader)
    [] reader.ok /\ kind = "hash" -> ReadHash(reader)
    [] reader.ok /\ kind = "time" -> Take(reader, TimeBytes, Parse(Ahead(reader, TimeBytes)))
    [] reader.ok /\ kind = "files" -> ReadFiles(reader)

\* parse_request: 0 while the payload is not complete; its size must end within the
\* bytes that are there, up to MaxHeader of them.
BASE_HEADER_SIZE == Len(MAGIC_BYTES) + 2
PayloadSize(raw) == SubSeq(raw, BASE_HEADER_SIZE + 1, Min({Len(raw), BASE_HEADER_SIZE + MaxHeader}))

GetRequestData(raw, end, read) ==
  IF ~read.ok THEN Invalid
  ELSE Parsed(end, {Request(raw[BASE_HEADER_SIZE - 1], raw[BASE_HEADER_SIZE], read.values)})
ParsePayload(raw, header, end) ==
  IF Len(raw) < end THEN Incomplete
  ELSE GetRequestData(raw, end, FoldLeft(ReadField, Reader(SubSeq(raw, header + 1, end), <<>>),
                                         Layout(raw[BASE_HEADER_SIZE - 1])))
ParseHeader(raw, header) ==
  IF Len(raw) < BASE_HEADER_SIZE THEN Incomplete
  ELSE IF ~IsPrefix(MAGIC_BYTES, raw) \/ header = BASE_HEADER_SIZE THEN Invalid
  ELSE ParsePayload(raw, header, header + Number(SubSeq(raw, BASE_HEADER_SIZE + 1, header)))
ParseRequest(raw) == ParseHeader(raw, BASE_HEADER_SIZE + Ends(PayloadSize(raw)))
==============================================================================
