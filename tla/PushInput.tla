----------------------------- MODULE PushInput -----------------------------
(***************************************************************************)
(* The input buffer of a push parser: raw source bytes come in chunks, the *)
(* encoding is decided once enough of them are there, and from then on     *)
(* each call appends what it can decode and carries an incomplete unit     *)
(* (src/src/xml/parser/input.rs), with the part of a call of the           *)
(* persistent driver that depends on it (src/src/xml/parser/pushdrive.rs). *)
(*                                                                         *)
(* A source byte is written in hexadecimal; "E" stands for all the bytes   *)
(* of encoding="...", and "6C" for the l of <?xml and the blank after it.  *)
(* A decoded character is named by the source bytes of its unit, and the   *)
(* materialized text is a sequence of its UTF-8 bytes: one for ASCII, two  *)
(* (parts 1 and 2) for any other.  A byte materialized as it came is part  *)
(* 0.  Line and column numbers, the C window and the fixed-width           *)
(* encodings that only the declaration names are left out.                 *)
(***************************************************************************)
EXTENDS Naturals, Sequences, FiniteSets, SequencesExt

CONSTANTS Sources,      \* the source streams a caller may push
          Declarable,   \* the encodings that "E" may name
          EbcdicGate,   \* bytes a source that looks like EBCDIC must have
          MaxChunk,     \* bound on the bytes of one call
          NoMark        \* no parked lookup

ASCII == {"00", "1B", "3C", "3E", "3F", "61", "6C", "6D", "78", "E"}
NonASCII == {"4C", "6F", "81", "82", "94", "A0", "A7", "BB", "BF", "C3",
             "D8", "DC", "EF", "FE", "FF"}
Byte == ASCII \cup NonASCII

\* "cp1252" stands for the single-byte sets with bytes that mean nothing,
\* "stateful" for the codecs that encoding_rs decodes.
ASSUME InputConstants ==
  /\ Sources \subseteq Seq(Byte)
  /\ Declarable \subseteq {"utf8", "latin1", "cp1252", "stateful"}
  /\ EbcdicGate \in Nat /\ EbcdicGate >= 4
  /\ MaxChunk \in Nat
  /\ NoMark \notin Nat

\* A declaration is in ASCII, behind a byte order mark, too.  Its text would
\* otherwise have to be UTF-8 to name an encoding (input.rs 1976-1979).
ASSUME AsciiDeclarations ==
  \A s \in Sources, bom \in {0, 3} :
    IsPrefix(<<"3C", "3F", "78", "6D", "6C">>, SubSeq(s, bom + 1, Len(s))) =>
      \A i \in (bom + 1)..Len(s) :
        \/ s[i] \in ASCII
        \/ \E j \in (bom + 1)..(i - 2) : s[j] = "3F" /\ s[j + 1] = "3E"

VARIABLES source,     \* what the caller is going to push
          declared,   \* the encoding "E" names
          received,   \* how many bytes of source were pushed
          closed,     \* the terminating call was made
          input,      \* the base InputBuffer
          phase,      \* "start", "xml_decl", or "content" for all later ones
          mark,       \* where the parked lookup for `?>' goes on
          fatal,      \* the machine is fatal
          errNo       \* an error is recorded, fatal or not

vars == <<source, declared, received, closed, input, phase, mark, fatal, errNo>>

-----------------------------------------------------------------------------
(* Units of the source, and the bytes they materialize as *)

Raw(bytes) == [i \in 1..Len(bytes) |->
                [unit |-> <<bytes[i]>>, part |-> IF bytes[i] \in ASCII THEN 1 ELSE 0]]
SourceOf(data) == [i \in 1..Len(data) |-> data[i].unit[1]]

Utf8(unit) ==
  IF Last(unit) \in ASCII /\ \A b \in ToSet(Front(unit)) : b = "00"
  THEN Raw(<<Last(unit)>>)
  ELSE <<[unit |-> unit, part |-> 1], [unit |-> unit, part |-> 2]>>

\* UTF-16 (here the big-endian one) and UCS-4: a unit has the width its
\* first byte says.
UnitWidth(enc, first) == IF enc = "ucs4" \/ first = "D8" THEN 4 ELSE 2
Malformed(enc, unit) ==
  \/ enc = "ucs4" /\ unit[1] # "00"
  \/ enc = "utf16" /\ unit[1] = "DC"
  \/ enc = "utf16" /\ unit[1] = "D8" /\ unit[3] # "DC"

\* The complete units at the beginning of src: what they materialize as, the
\* bytes they take, and whether what follows them is malformed.
DecodeUnits(enc, src) ==
  LET from[i \in 0..Len(src)] ==
        IF i = Len(src) \/ i + UnitWidth(enc, src[i + 1]) > Len(src)
        THEN [out |-> <<>>, used |-> i, bad |-> FALSE]
        ELSE LET unit == SubSeq(src, i + 1, i + UnitWidth(enc, src[i + 1]))
             IN IF Malformed(enc, unit)
                THEN [out |-> <<>>, used |-> i, bad |-> TRUE]
                ELSE [from[i + Len(unit)] EXCEPT !.out = Utf8(unit) \o @]
  IN from[0]

\* A byte of the codecs of encoding_rs.  "82" leads a two-byte character, and
\* after the escape "1B" every character has two bytes, until the next "1B".
FreshDecoder == [shift |-> FALSE, held |-> <<>>, finished |-> FALSE]
StreamByte(r, b) ==
  IF r.bad THEN r
  ELSE IF r.dec.held # <<>>
  THEN IF b \in {"61", "A0"}
       THEN [r EXCEPT !.dec.held = <<>>, !.out = @ \o Utf8(Append(r.dec.held, b))]
       ELSE [r EXCEPT !.bad = TRUE]
  ELSE IF b = "1B" THEN [r EXCEPT !.dec.shift = ~@]
  ELSE IF r.dec.shift \/ b = "82" THEN [r EXCEPT !.dec.held = <<b>>]
  ELSE IF b \in ASCII THEN [r EXCEPT !.out = @ \o Utf8(<<b>>)]
  ELSE [r EXCEPT !.bad = TRUE]

\* One more byte after what a reader r has read, and a run of bytes: the loops
\* of the codecs and of the single-byte sets.  The branches of the other
\* encodings are the reference's only.
ReadByte(enc, r, b) ==
  LET unit == Append(r.dec.held, b)
  IN IF r.bad THEN r
     ELSE IF enc = "utf8" THEN [r EXCEPT !.out = @ \o Raw(<<b>>)]
     ELSE IF enc = "stateful" THEN StreamByte(r, b)
     ELSE IF enc \notin {"utf16", "ucs4"} THEN [r EXCEPT !.out = @ \o Utf8(<<b>>)]
     ELSE IF Len(unit) < UnitWidth(enc, unit[1]) THEN [r EXCEPT !.dec.held = unit]
     ELSE IF Malformed(enc, unit) THEN [r EXCEPT !.bad = TRUE]
     ELSE [r EXCEPT !.dec.held = <<>>, !.out = @ \o Utf8(unit)]

FreshReader == [dec |-> FreshDecoder, out |-> <<>>, bad |-> FALSE]

ReadBytes(enc, r, bytes) ==
  LET after[k \in 0..Len(bytes)] ==
        IF k = 0 THEN r ELSE ReadByte(enc, after[k - 1], bytes[k])
  IN after[Len(bytes)]

\* RegistrySourceDecoder::decode: a flushed decoder starts afresh, unless it
\* is only flushed again.
RegistryDecode(dec, bytes, last) ==
  LET start == IF dec.finished THEN FreshDecoder ELSE dec
      r == ReadBytes("stateful", [FreshReader EXCEPT !.dec = start], bytes)
  IN IF dec.finished /\ bytes = <<>>
     THEN [dec |-> dec, out |-> <<>>, invalid |-> FALSE, truncated |-> FALSE]
     ELSE [dec |-> [r.dec EXCEPT !.finished = last /\ ~r.bad],
           out |-> r.out, invalid |-> r.bad,
           truncated |-> ~r.bad /\ last /\ r.dec.held # <<>>]

\* decode_whole_buffer_declared of a single-byte set; "81" means nothing in
\* the declared ones.
Undefined(enc, bytes) == enc = "cp1252" /\ "81" \in ToSet(bytes)
ByteWise(enc, bytes) == ReadBytes(enc, FreshReader, bytes).out

-----------------------------------------------------------------------------
(* Deciding the encoding *)

Skeleton == [decoding |-> "parked", pending |-> <<>>, data |-> <<>>, pos |-> 0,
             enc |-> "none", converted |-> FALSE, declPending |-> FALSE,
             decoder |-> FreshDecoder, invalid |-> FALSE, truncated |-> FALSE]

Rest(in) == SubSeq(in.data, in.pos + 1, Len(in.data))
Declaration == Raw(<<"3C", "3F", "78", "6D", "6C">>)
\* `?>' begins at offset i of data, and is found at or after from.
EndsAt(data, i) == SubSeq(data, i + 1, i + 2) = Raw(<<"3F", "3E">>)
HasEnd(data, from) == \E i \in from..(Len(data) - 2) : EndsAt(data, i)

\* detect_encoding_from_xml_declaration
Sniff(in) ==
  LET rest == Rest(in)
      before == {i \in 1..Len(rest) : ~\E j \in 0..(i - 1) : EndsAt(rest, j)}
  IN IF Len(rest) < 5
     THEN [in EXCEPT !.declPending = rest # <<>> /\ IsPrefix(rest, Declaration)]
     ELSE IF ~IsPrefix(Declaration, rest) THEN [in EXCEPT !.declPending = FALSE]
     ELSE IF ~HasEnd(rest, 0) THEN [in EXCEPT !.declPending = TRUE]
     ELSE [in EXCEPT !.declPending = FALSE,
                     !.enc = IF \E i \in before : rest[i].unit = <<"E">>
                             THEN declared ELSE @]

\* convert_via_registry: all of the text, or none of it and then UTF-8.
ConvertViaRegistry(in) ==
  LET raw == SourceOf(in.data)
  IN IF in.data = <<>> THEN in
     ELSE IF Undefined(in.enc, raw)
     THEN [in EXCEPT !.enc = "utf8", !.pos = 0]
     ELSE [in EXCEPT !.data = ByteWise(in.enc, raw), !.pos = 0, !.converted = TRUE]

\* install_registry_decoder, of an input that is decoded as it comes
InstallDecoder(in, terminate) ==
  LET r == RegistryDecode(FreshDecoder, SourceOf(in.data), terminate)
  IN [in EXCEPT !.data = r.out, !.pos = 0, !.converted = TRUE, !.decoder = r.dec,
                !.invalid = @ \/ r.invalid, !.truncated = @ \/ r.truncated]

\* convert_declared_native_encoding: latin1 leaves the cursor where it is.
ConvertDeclared(in, terminate) ==
  IF in.converted THEN in
  ELSE IF in.enc = "latin1"
  THEN [in EXCEPT !.data = ByteWise(in.enc, SourceOf(@)), !.converted = TRUE]
  ELSE IF in.enc = "stateful" THEN InstallDecoder(in, terminate)
  ELSE IF in.enc \in {"cp1252", "ebcdic"} THEN ConvertViaRegistry(in)
  ELSE in

DecodeTail_Impatient(in, terminate) ==
  LET r == DecodeUnits(in.enc, in.pending)
      tail == SubSeq(in.pending, r.used + 1, Len(in.pending))
  IN [in EXCEPT !.data = @ \o r.out, !.pending = tail, !.invalid = @ \/ r.bad,
                !.truncated = @ \/ (~r.bad /\ tail # <<>>)]
DecodeTail_Replaces(in, terminate) ==
  LET r == DecodeUnits(in.enc, in.pending)
      tail == SubSeq(in.pending, r.used + 1, Len(in.pending))
  IN [in EXCEPT !.data = r.out, !.pending = tail, !.invalid = @ \/ r.bad,
                !.truncated = @ \/ (~r.bad /\ terminate /\ tail # <<>>)]

\* decode_units_tail: what is incomplete stays pending.
DecodeTail(in, terminate) ==
  LET r == DecodeUnits(in.enc, in.pending)
      tail == SubSeq(in.pending, r.used + 1, Len(in.pending))
  IN [in EXCEPT !.data = @ \o r.out, !.pending = tail,
                !.invalid = @ \/ r.bad,
                !.truncated = @ \/ (~r.bad /\ terminate /\ tail # <<>>)]

InstallUnits(in, enc, skip, terminate) ==
  DecodeTail([in EXCEPT !.enc = enc, !.converted = TRUE, !.data = <<>>, !.pos = 0,
                        !.pending = SubSeq(@, skip + 1, Len(@))], terminate)

DecideUtf8(in, bom, terminate) ==
  ConvertDeclared(Sniff([in EXCEPT !.enc = "utf8", !.pending = <<>>,
                                   !.data = Raw(in.pending), !.pos = bom]), terminate)

\* xmlDetectEncoding's signatures, in the order of `decide'
Decide(in, terminate) ==
  IF IsPrefix(<<"00", "00", "00", "3C">>, in.pending)
  THEN InstallUnits(in, "ucs4", 0, terminate)
  ELSE IF IsPrefix(<<"00", "3C", "00", "3F">>, in.pending)
  THEN InstallUnits(in, "utf16", 0, terminate)
  ELSE IF IsPrefix(<<"4C", "6F", "A7", "94">>, in.pending)
  THEN ConvertDeclared([in EXCEPT !.enc = "ebcdic", !.pending = <<>>,
                                  !.data = Raw(in.pending)], terminate)
  ELSE IF IsPrefix(<<"EF", "BB", "BF">>, in.pending) THEN DecideUtf8(in, 3, terminate)
  ELSE IF IsPrefix(<<"FE", "FF">>, in.pending)
  THEN InstallUnits(in, "utf16", 2, terminate)
  ELSE DecideUtf8(in, 0, terminate)

\* try_decide: nothing is looked at below four bytes, not even at the end.
MayDecide_Early(pending, terminate) == terminate \/ Len(pending) >= 3
MayDecide(pending, terminate) ==
  \/ terminate
  \/ /\ Len(pending) >= 4
     /\ IsPrefix(<<"4C", "6F", "A7", "94">>, pending) => Len(pending) >= EbcdicGate

PushProgressive(in, bytes, terminate) ==
  LET held == [in EXCEPT !.pending = @ \o bytes]
  IN IF ~MayDecide(held.pending, terminate) THEN held
     ELSE [IF Len(held.pending) < 4 THEN DecideUtf8(held, 0, terminate)
                                    ELSE Decide(held, terminate)
           EXCEPT !.decoding = "decided"]

-----------------------------------------------------------------------------
(* Appending to a decided source *)

AppendRaw(in, bytes) == [in EXCEPT !.data = @ \o Raw(bytes)]

AppendDecided(in, bytes, terminate) ==
  LET r == RegistryDecode(in.decoder, bytes, terminate)
      raw == AppendRaw(in, bytes)
  IN IF in.converted /\ in.enc \in {"utf16", "ucs4"}
     THEN DecodeTail([in EXCEPT !.pending = @ \o bytes], terminate)
     ELSE IF in.converted /\ in.enc = "stateful"
     THEN [in EXCEPT !.data = @ \o r.out, !.decoder = r.dec,
                     !.invalid = @ \/ r.invalid, !.truncated = @ \/ r.truncated]
     ELSE IF in.converted /\ in.enc \in {"latin1", "cp1252", "ebcdic"}
     THEN IF Undefined(in.enc, bytes) THEN raw
          ELSE [in EXCEPT !.data = @ \o ByteWise(in.enc, bytes)]
     ELSE IF bytes # <<>> /\ in.declPending /\ ~in.converted
     THEN ConvertDeclared(Sniff(raw), terminate)
     ELSE raw

PushBytes(in, bytes, terminate) ==
  IF in.decoding = "parked" THEN PushProgressive(in, bytes, terminate)
                            ELSE AppendDecided(in, bytes, terminate)

-----------------------------------------------------------------------------
(* One call of the driver *)

\* for_push and for_push_undecided, of the constructor's bytes
Init ==
  /\ source \in Sources /\ declared \in Declarable
  /\ received \in 0..Len(source)
  /\ LET initial == SubSeq(source, 1, received)
     IN input \in {PushBytes(Skeleton, initial, FALSE),
                   [Skeleton EXCEPT !.pending = initial]}
  /\ closed = FALSE /\ phase = "start" /\ mark = NoMark
  /\ fatal = FALSE /\ errNo = FALSE

Valid(m, in) == m # NoMark /\ in.pos <= m /\ m <= Len(in.data)

\* push_persistent with an invalid unit: the call parses nothing.
Refuse(in, m) ==
  /\ input' = in /\ mark' = m /\ fatal' = TRUE /\ errNo' = TRUE
  /\ phase' = IF phase = "start" THEN "xml_decl" ELSE phase

\* What a call that parsed in leaves.  The grammar may refuse what was read at
\* any time, or note an error that is not fatal, as namespaces have; check_eof
\* then looks at nothing.
Settle(in, terminate) ==
  \E refused, noted \in BOOLEAN :
    /\ noted => in.pos > 0
    /\ fatal' = (refused \/ (terminate /\ ~errNo /\ ~noted
                               /\ (in.pos < Len(in.data) \/ in.truncated)))
    /\ errNo' = (errNo \/ noted \/ fatal')

\* The lookup for the end of `<?' goes on one byte before the end of the text.
NextMark_Whole(in, from) == Max({Len(in.data), from})
NextMark(in, from) == Max({Len(in.data) - 1, from})

\* drive_persistent, step_start and step_xml_decl; what the later states take
\* of the text is up to the grammar.
Drive(in, m, terminate) ==
  LET avail == Len(in.data) - in.pos
      looks == avail >= 2 /\ SubSeq(Rest(in), 1, 2) = Raw(<<"3C", "3F">>)
      from == IF Valid(m, in) THEN m ELSE in.pos + 2
      waits == /\ phase # "content" /\ ~terminate
               /\ avail < 2 \/ (looks /\ ~HasEnd(in.data, from))
  IN IF avail = 0 \/ in.decoding = "parked"
     THEN /\ input' = in /\ UNCHANGED phase /\ mark' = m
          /\ Settle(in, terminate)
     ELSE IF waits
     THEN /\ input' = in /\ phase' = "xml_decl" /\ UNCHANGED <<fatal, errNo>>
          /\ mark' = IF looks THEN NextMark(in, from) ELSE m
     ELSE \E p \in in.pos..Len(in.data) :
            LET read == [in EXCEPT !.pos = p]
            IN /\ input' = read /\ phase' = "content" /\ mark' = NoMark
               /\ Settle(read, terminate)

\* push_persistent: a rebuilt text that was read before shows in the cursor.
Call(n, terminate) ==
  /\ n <= Len(source) - received
  /\ closed => n = 0 /\ terminate
  /\ received' = received + n /\ closed' = (closed \/ terminate)
  /\ LET in == PushBytes(input, SubSeq(source, received + 1, received + n), terminate)
         m == IF in.pos < input.pos THEN NoMark ELSE mark
     IN IF in.invalid THEN Refuse(in, m) ELSE Drive(in, m, terminate)
  /\ UNCHANGED <<source, declared>>

Next ==
  IF fatal THEN UNCHANGED vars
  ELSE \E n \in 0..MaxChunk, terminate \in BOOLEAN : Call(n, terminate)

Spec == Init /\ [][Next]_vars

-----------------------------------------------------------------------------
(* Properties *)

\* What the encoding of the bytes received is, read at once and from their
\* beginning: the first bytes say it, or a whole declaration does.
Received == SubSeq(source, 1, received)
Ends(bytes, k) == k < Len(bytes) /\ bytes[k] = "3F" /\ bytes[k + 1] = "3E"
Names(bytes) ==
  /\ IsPrefix(<<"3C", "3F", "78", "6D", "6C">>, bytes)
  /\ \E e, k \in 1..Len(bytes) :
       /\ e < k /\ bytes[e] = "E" /\ Ends(bytes, k)
       /\ \A j \in 1..e : ~Ends(bytes, j)
Encoding(bytes) ==
  IF Len(bytes) < 4 THEN <<"utf8", 0>>
  ELSE IF IsPrefix(<<"FE", "FF">>, bytes) THEN <<"utf16", 2>>
  ELSE IF IsPrefix(<<"00", "3C", "00", "3F">>, bytes) THEN <<"utf16", 0>>
  ELSE IF IsPrefix(<<"00", "00", "00", "3C">>, bytes) THEN <<"ucs4", 0>>
  ELSE IF IsPrefix(<<"4C", "6F", "A7", "94">>, bytes) THEN <<"ebcdic", 0>>
  ELSE IF Names(bytes) THEN <<declared, 0>>
  ELSE <<"utf8", 0>>

Reading == ReadBytes(Encoding(Received)[1], FreshReader,
                     SubSeq(source, Encoding(Received)[2] + 1, received))

\* However the source was cut into chunks, the text is what reading all of it
\* at once gives: no unit is lost, doubled or split at the end of a chunk, the
\* codec's state goes on from call to call, and a declaration that took
\* several chunks is applied to what was there before (push_bytes_ex,
\* input.rs 703-732).  A source the constructor found malformed is pushed to
\* once more before the driver looks.
DecodedExactly ==
  IF input.decoding = "parked" THEN input.data = <<>> /\ input.pending = Received
  ELSE IF input.invalid THEN IsPrefix(Reading.out, input.data)
  ELSE input.data = Reading.out

\* A malformed unit is noticed by the call that completes it, an incomplete
\* one by the terminating call and no other (input.rs 724-728); and when no
\* error is recorded after a terminating call, of this call or an earlier one,
\* every byte is decoded and read (pushdrive.rs 434-462).
VerdictIsExact ==
  /\ input.invalid <=> (input.decoding = "decided" /\ Reading.bad)
  /\ ~input.invalid => (input.truncated <=> (closed /\ Reading.dec.held # <<>>))
  /\ (closed /\ ~errNo) => (Reading.dec.held = <<>> /\ input.pos = Len(input.data))

\* What the parser has read stays what it was: the text is built anew only
\* while nothing of it is read (pushdrive.rs 207-213).
ReadTextStays ==
  [][/\ input.pos <= input'.pos
     /\ IsPrefix(SubSeq(input.data, 1, input.pos), input'.data)]_vars

\* A call that leaves the parser waiting for the end of `<?' has not missed
\* it, though the text in which the parked offset was taken may have been
\* built anew in between (pushdrive.rs 207-213).
WaitsOnlyForTheEnd ==
  phase = "xml_decl" /\ ~fatal /\ IsPrefix(Raw(<<"3C", "3F">>), Rest(input))
    => ~HasEnd(input.data, input.pos + 2)

\* A UTF-8 byte order mark is never among what is to be read (decide_utf8,
\* input.rs 866-883).
MarkIsSkipped ==
  input.decoding = "decided" /\ Encoding(Received)[1] # "utf16" =>
    \A i \in (input.pos + 1)..Len(input.data) :
      input.data[i].unit \notin {<<"EF">>, <<"BB">>, <<"BF">>}

\* A byte that the declared encoding does not have leaves text that is not
\* UTF-8, which the tokenizer then reports (append_decided, input.rs 968-970, and
\* convert_via_registry, 1723-1727); of the raw bytes here, only "C3" before "81"
\* are a character of UTF-8.
UndefinedByteShows ==
  input.decoding = "decided" /\ Encoding(Received)[1] = "cp1252"
    /\ "81" \in ToSet(Received)
  => \E i \in 1..Len(input.data) :
       /\ input.data[i].part = 0
       /\ input.data[i].unit = <<"C3">> =>
            ~(i < Len(input.data) /\ input.data[i + 1] = [unit |-> <<"81">>, part |-> 0])
       /\ input.data[i].unit = <<"81">> =>
            ~(i > 1 /\ input.data[i - 1] = [unit |-> <<"C3">>, part |-> 0])
=============================================================================
