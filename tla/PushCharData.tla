----------------------------- MODULE PushCharData -----------------------------
(***************************************************************************)
(* Character data in the push driver, byte by byte: the `\r' that          *)
(* push_persistent_chunk withholds, the character data arm of step_content *)
(* and scan_char_data with its fallback scan_char_data_complex.            *)
(*                                                                         *)
(* The stream is text in an element that is open, up to the next markup.   *)
(* Bytes fall into classes: "x" is any byte the accelerated scan accepts,  *)
(* "lead" and "cont" are the bytes of a two-byte UTF-8 character, "ctl" a  *)
(* control character that XML forbids.  Offsets are zero based.            *)
(***************************************************************************)
EXTENDS Integers, Sequences

CONSTANTS
  Docs,         \* the streams considered, sequences of byte classes
  Big,          \* XML_PARSER_BIG_BUFFER_SIZE
  EmptyCalls    \* whether the caller makes non-final calls that bring nothing

Class == {"x", "cr", "lf", "]", ">", "lead", "cont", "ctl", "<"}

ASSUME CharDataAssumption ==
  /\ Docs \subseteq Seq(Class)
  /\ Big \in Nat \ {0} /\ EmptyCalls \in BOOLEAN

VARIABLES
  doc,
  recv,         \* bytes handed over by the caller
  have,         \* bytes the scan can see
  pos,          \* bytes consumed
  out,          \* characters delivered, all `characters' events together
  fatal,        \* a fatal was raised: further callbacks are suppressed
  busy, term    \* inside a call, and its `terminate' flag

vars == <<doc, recv, have, pos, out, fatal, busy, term>>

\* The byte at k of a stream that ends at end: NUL past it.
ByteIn(k, end) == IF k < end THEN doc[k + 1] ELSE "nul"

\* abs_byte
Byte(k) == ByteIn(k, have)

\* `]]>' at k
CdataEnd(k) == Byte(k) = "]" /\ Byte(k + 1) = "]" /\ Byte(k + 2) = ">"

\* A fault: only the first bracket is waited for.
Unsure_FirstOnly(k) == ~term /\ Byte(k) = "]" /\ have - k < 2

\* A bracket at k may begin a `]]>' whose rest has not arrived.
Unsure(k) == /\ ~term /\ Byte(k) = "]"
             /\ have - k < 2 \/ (Byte(k + 1) = "]" /\ have - k < 3)

----------------------------------------------------------------------------
(* The scan: i is the cursor, buf what was scanned and not yet flushed,    *)
(* loop the loop it is in.  A step is one iteration.                       *)

Flushed(s) == [s EXCEPT !.buf = <<>>,
                        !.out = IF s.fatal THEN @ ELSE @ \o s.buf]

Take(s, ch, n) == [s EXCEPT !.i = @ + n, !.buf = Append(@, ch)]
Raised(s) == [s EXCEPT !.fatal = TRUE]

Width(ch) == IF ch = "u" THEN 2 ELSE 1
Bytes(buf) ==
  LET size[n \in 0 .. Len(buf)] ==
        IF n = 0 THEN 0 ELSE size[n - 1] + Width(buf[n])
  IN size[Len(buf)]

\* current_char_at: the character at k, its length, and whether reading it
\* reports an encoding error; length 0 is an incomplete sequence or the end.
CharAt(k) ==
  LET char(ch, n, err) == [ch |-> ch, n |-> n, err |-> err] IN
  IF Byte(k) = "cr" THEN char("lf", IF Byte(k + 1) = "lf" THEN 2 ELSE 1, FALSE)
  ELSE IF Byte(k) \notin {"lead", "cont"}
  THEN char(Byte(k), IF Byte(k) = "nul" THEN 0 ELSE 1, FALSE)
  ELSE IF have - k < 2 THEN char("nul", 0, FALSE)
  ELSE IF Byte(k) = "lead" /\ Byte(k + 1) = "cont" THEN char("u", 2, FALSE)
  ELSE char("fffd", 1, TRUE)

\* What ends the complex scan: a fault that is reported, and its byte skipped.
Stuck(s) ==
  LET ch == CharAt(s.i).ch IN
  IF \/ ch = "nul" /\ s.i < have /\ term       \* an incomplete sequence
     \/ ch = "ctl"                             \* an invalid character
  THEN [Raised(s) EXCEPT !.i = @ + 1]
  ELSE s

Done(s) == [Flushed(s) EXCEPT !.loop = "done"]

Complex(s) ==
  LET at == CharAt(s.i)
      x == IF CdataEnd(s.i) \/ at.err THEN Raised(s) ELSE s
      t == Take(x, at.ch, at.n)
  IN  IF at.ch \in {"<", "nul", "ctl"} \/ Unsure(s.i) THEN Stuck(Done(s))
      ELSE IF Bytes(t.buf) >= Big THEN Flushed(t) ELSE t

\* The accelerated scan.  The `\r' of a CRLF pair is dropped, its `\n' starts
\* the next range.
Fast(s) ==
  LET b == Byte(s.i) IN
  IF Unsure(s.i) \/ b = "<" THEN Done(s)
  ELSE IF CdataEnd(s.i) THEN Take(Raised(s), b, 1)
  ELSE IF b \in {"x", "lf", "]", ">"} THEN Take(s, b, 1)
  ELSE IF b = "cr" /\ Byte(s.i + 1) = "lf" THEN Take(Flushed(s), "lf", 2)
  ELSE [Flushed(s) EXCEPT !.loop = "complex"]

Iterate(s) == CASE s.loop = "fast"    -> Fast(s)
                [] s.loop = "complex" -> Complex(s)
                [] s.loop = "done"    -> s

----------------------------------------------------------------------------
Init == /\ doc \in Docs
        /\ recv = 0 /\ have = 0 /\ pos = 0
        /\ out = <<>> /\ fatal = FALSE
        /\ busy = FALSE /\ term = FALSE

\* A fault: a trailing `\r' is parsed with its chunk.
Withheld_Never(n, t) == FALSE

\* push_persistent_chunk: a non-final chunk that ends in `\r' is parsed
\* without it, and the `\r' is pushed when the call is over.
Withheld(n, t) == ~t /\ n > recv /\ doc[n] = "cr"

Chunk == /\ ~busy /\ ~fatal /\ ~term
         /\ \E n \in recv .. Len(doc), t \in BOOLEAN :
               /\ n = recv => t \/ EmptyCalls
               /\ recv' = n /\ term' = t
               /\ have' = IF Withheld(n, t) THEN n - 1 ELSE n
         /\ busy' = TRUE
         /\ UNCHANGED <<doc, pos, out, fatal>>

\* lookup_char_data
Delimited == \E k \in pos .. have - 1 : Byte(k) = "<"

\* A fault: however much text there is, it waits for markup.
Ready_Waits == /\ busy /\ ~fatal /\ pos < have /\ Byte(pos) # "<"
               /\ term \/ Delimited

\* The character data arm of step_content.
Ready == /\ busy /\ ~fatal /\ pos < have /\ Byte(pos) # "<"
         /\ term \/ have - pos >= Big \/ Delimited

\* Each iteration consumes a byte or leaves its loop for the next.
Scanned ==
  LET after[n \in 0 .. have - pos + 2] ==
        IF n = 0 THEN [loop |-> "fast", i |-> pos, buf |-> <<>>, out |-> out,
                       fatal |-> FALSE]
        ELSE Iterate(after[n - 1])
  IN after[have - pos + 2]

Scan == /\ Ready /\ Scanned.i > pos
        /\ pos' = Scanned.i /\ out' = Scanned.out /\ fatal' = Scanned.fatal
        /\ UNCHANGED <<doc, recv, have, busy, term>>

\* The call returns: no input, markup, a fatal, the lookup parked, or
\* char_data_outcome found nothing consumed.
Return == /\ busy
          /\ ~Ready \/ Scanned.i = pos
          /\ busy' = FALSE
          /\ have' = recv
          /\ UNCHANGED <<doc, recv, pos, out, fatal, term>>

Next == Chunk \/ Scan \/ Return

Spec == Init /\ [][Next]_vars

----------------------------------------------------------------------------
(* The reference: the characters of a text that is known whole.            *)

\* The document: a terminating call ends it where it stands.
End == IF term THEN recv ELSE Len(doc)

\* The byte at k is the second of a line end or of a character.
Joined(k, end) ==
  k > 0 /\ \/ ByteIn(k - 1, end) = "cr" /\ ByteIn(k, end) = "lf"
           \/ ByteIn(k - 1, end) = "lead" /\ ByteIn(k, end) = "cont"
Char(k, end) ==
  CASE ByteIn(k, end) = "cr" -> "lf"
    [] ByteIn(k, end) = "lead" /\ ByteIn(k + 1, end) = "cont" -> "u"
    [] OTHER -> ByteIn(k, end)

\* The characters that begin in the first n bytes.
Text(n, end) ==
  LET upto[k \in 0 .. n] ==
        IF k = 0 THEN <<>>
        ELSE IF Joined(k - 1, end) THEN upto[k - 1]
        ELSE Append(upto[k - 1], Char(k - 1, end))
  IN upto[n]

\* Text that is not well formed at offset k.
Wrong(k, end) ==
  \/ ByteIn(k, end) = "ctl"
  \/ ByteIn(k, end) = "]" /\ ByteIn(k + 1, end) = "]" /\ ByteIn(k + 2, end) = ">"
  \/ ByteIn(k, end) = "lead" /\ ByteIn(k + 1, end) # "cont"
  \/ ByteIn(k, end) = "cont" /\ (k = 0 \/ ByteIn(k - 1, end) # "lead")

(***************************************************************************)
(* The text delivered so far is the normalized text of the bytes consumed, *)
(* and these end with a character: no byte is lost or delivered twice, no  *)
(* character is cut in two, and every line end is one `\n', wherever the   *)
(* chunks and the flushes of the buffer fall.  push_persistent_chunk       *)
(* withholds a trailing `\r' for this.  After a fatal it is the text of    *)
(* some of them, from the beginning.                                       *)
(***************************************************************************)
TextIsExact ==
  IF fatal THEN \E n \in 0 .. pos : out = Text(n, End)
           ELSE out = Text(pos, End) /\ ~Joined(pos, End)

(***************************************************************************)
(* What is wrong with the text is found, though `]]>' and a multi-byte     *)
(* character may arrive in pieces: nothing wrong is ever consumed without  *)
(* a fatal, and there is no fatal without something wrong.                 *)
(***************************************************************************)
WrongTextIsFatal == ~busy => (fatal <=> \E k \in 0 .. pos - 1 : Wrong(k, recv))

(***************************************************************************)
(* Text does not pile up while no markup follows: between calls at most    *)
(* Big bytes are unread, or three: two that may begin a `]]>', and a `\r'  *)
(* that was withheld.                                                      *)
(***************************************************************************)
Backlog == ~busy /\ ~fatal /\ ~Delimited => have - pos <= IF Big > 3 THEN Big ELSE 3
=============================================================================
