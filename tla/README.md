# libxml-rs in TLA+

libxml-rs is a libxml2-compatible XML library: an ABI of C functions over a
parser, a tree, validators, XPath, XSLT and serializers.  Much of it is a
sequential function of one finished input.  Three parts are not, because the
application drives them by calls in an order it alone chooses, and the state
between the calls must stay right whatever that order is; a fourth runs on
threads.

* The **push parser**, `xmlParseChunk`: the document comes in pieces, the parser
  must suspend at any byte, resume, deliver each SAX event exactly once and in
  order, survive callbacks that stop it, and answer as if the document had come
  at once.
* The **tree**: every editing call rewrites by hand several pointers that
  describe one list, and moves or frees what hangs below.
* The **writer**: a flat state and a stack of names have to follow the nesting
  of the text that the calls have produced so far.
* The **structural scanner**: long runs of a document are classified in blocks by
  a pool of threads, and must end where a sequential scan ends them.

This project models those, and every property below is about what the order of
calls, the place of a chunk boundary, a callback or a scheduler may not change.

## Inventory

All paths are under `src/src/xml/parser/` unless they begin with `src/`.

| Part | State it keeps | Operations | Status |
|---|---|---|---|
| Availability lookups (`pushdrive.rs`, `push.rs`) | `ParkedConstruct`: tag, `checked` offset, quote or state byte | `lookup_gt`, `lookup_char`, `lookup_char_data`, `lookup_string`, `lookup_internal_subset`, reset on progress | `PushLookup`, `PushSubset` |
| Internal subset scan (`tokenizer.rs`) | bracket depth | `scan_doctype_subset` | bracket rule in `PushSubset` |
| Character data (`pushdrive.rs`, `helpers.rs`) | cursor, a flush buffer, the withheld `\r` | `push_persistent_chunk`, text arm of `step_content`, `scan_char_data`, `scan_char_data_complex`, `current_char_at`, `flush_char_data` | `PushCharData` |
| Push driver (`pushdrive.rs`, `push.rs`, `helpers.rs`) | `PushMachine`: phase, open elements, `start_document_fired`, `end_document_fired`, `fatal`; of the context `disableSAX`, `errNo`, `wellFormed` | `push_persistent`, `drive_persistent`, ten `step_*` states, `check_eof`, `terminate_document`, `xmlStopParser`, `raise_parser_error` | `PushDriver` |
| SAX event stream | what the application saw | dispatch | `SaxProtocol` (abstract) |
| Push input (`input.rs`) | source bytes, decision, unit carry, materialized text, window | `push_bytes_ex`: `try_decide`, `decide`, the declaration's encoding, `append_decided`, `decode_units_tail`, the persistent decoder | `PushInput` |
| Session table (`helpers.rs`, `src/src/abi/exports_parser.rs`) | `PUSH_SESSIONS`, `PUSH_STATE`, stashed input by context address | take out, parse, put back; `xmlCtxtReset`, `xmlCtxtResetPush`, free and create again | `PushReplay`, without calls from callbacks |
| Replay engine (`helpers.rs`, `state.rs`) | all input so far, `delivered_bytes`, `pending_crs` | probe, deliver above the offset reached before, terminating parse | `PushReplay` |
| Structural scanner (`scan/`, `tokenizer.rs`) | private thread pool; of the tokenizer `scan_index`, `scan_index_attempted`, `class_run_bytes` | `first_match_with` in ordered waves, `class_content_run` with the index of first terminators, `utf8_is_valid_lax` | `ParScan` |
| Tree (`src/src/xml/tree/mod.rs`, `src/src/abi/exports_tree.rs`, `src/src/abi/exports_xml2.rs`) | `parent`, `prev`, `next`, `children`, `last`, `properties`, `doc` of each node | create, link, unlink, insert, replace, merge, move to a document, free | `TreeLinks` |
| Writer (`src/src/xml/writer/mod.rs`) | `WriterState`, names of the open elements, `in_start_tag`, `pending_ns`, `dtd_bare`, `encoder_active` | every Start, End and Write function | `Writer` |
| Dictionaries (`src/src/xml/dictionary/`) | atomic reference count, parent reference | reference, free, sub-dictionary | candidate, `DictRefs` |
| Reader, globals, catalogs, I/O, XPath, XSLT, validators, HTML, URI, C14N, serializer, encodings | various | sequential, data-heavy | not modelled; one row each in `PROJECT.json` |

**How the parts interact.**  `xmlParseChunk` (a call on the caller's thread)
refuses a context with `disableSAX` set, then chooses an engine from the
context's fields, anew on every call.  For the persistent engine it takes the
session out of the table, pushes the bytes into the input's decoder and runs the
driver; the replay engine, for contexts with options the driver does not do,
parses everything received so far from its first byte, twice.  The
driver loops: it looks at the cursor, asks a lookup whether the construct at the
cursor was received whole (only when the call does not terminate), lets the
tokenizer scan it, dispatches SAX events through the context — application code
that may call `xmlStopParser` — and moves phase and stack.  A construct that is
not whole parks, and the call returns.  A terminating call never parks: it scans
what there is and runs the terminate block.  Errors flow back through `errNo`,
`wellFormed` and `disableSAX`, which the loop and later calls read.
The tree and the writer are entered by calls of the application that run to
their end; what a call leaves behind is all that the next one knows.  (The SAX
default handlers also build trees; they are not modelled.)

**What is hard.**  A chunk boundary anywhere: within a quoted value, a needle,
a character, a line end, a `]]>`, a `<!`; continuations that outlive the cursor
they were made for; gates that accept what the scan behind them does not;
callbacks that stop the parser within a step; errors that are recorded but not
fatal and silence later checks; a final call on a finished, failed or stopped
context.  In the tree: a node that is unlinked, moved or replaced next to its own
neighbour, an only child, an attribute that destroys its namesake on the way, a
list that is appended by its head, a document that moves with its subtree.  In
the writer: one state for what is innermost, so that every End must find out
what is open around it; declarations that wait for the end of a tag; Write
functions that stop half-way when a count looks like an error.  `PROJECT.json` lists each hazard at its line with the properties that
watch it, or the reason why none does yet.

**What makes each part correct.**  A lookup answers as a scan of the whole
stream would, never parks on a complete construct and never starts over.  The
subset gate and scan agree.  Text is delivered exactly, normalized, and does not
pile up.  The driver's log is a prefix of the SAX protocol and does not depend on
the chunks; `endDocument` comes once and last; a fatal silences; every call
returns; a terminating call settles the document.  The pointers of the tree agree
with each other and with what is allocated, and a call leaves the other nodes
where they are.  What the writer has written is well-formed as long as the
application asks for what XML allows, and nothing of that is refused.

## Modules

### `PushLookup` — the resumable lookahead

`len` is the number of bytes materialized (`data_len`), `pos` the cursor,
`parked` the `ParkedConstruct`, `at`/`quote` the loop's locals.  `Receive` is a
chunk; `Begin` the head of a lookup (continuation accepted by
`valid_continuation`, or a fresh start); `ScanByte`, `Hit`, `Miss` an iteration
of the byte loops; `StringHit`, `StringMiss` the search of `lookup_string` with
its overlap of `needle_len - 1`; `Consume` the driver's progress, which moves
the cursor and resets the continuation.  After a park the next lookup comes on a
later call (`Receive` clears the verdict), as in the driver.  `lex` is a history
variable: the quoting of a scan that is never interrupted, the reference that
`FoundIsFirst` and `ParkedIsIncomplete` compare with.  `kind` is which lookup, with
which byte or needle; `SectionStart` is 9 in the code, and smaller in the instance so
that a short stream can hold a section's end.  Left out: the scan-work counter.

### `PushSubset` — the end of the internal subset

Its variables and actions have names of their own, so that one module of proofs can
extend it and `PushLookup`: `dtd` is the stream, `received` what of it has come,
`index` the local `i`.  `Step` is one iteration of `lookup_internal_subset` on
`(i, state, start)`; `SubsetMiss` includes the three-byte `StepBack` ("Rescan the three last characters to
detect `<!--' and `-->' split across chunks", but not past `start`).  The
reference (`Read`, kept in the history variable `reading`) reads the whole stream one
byte after the other: it never stops, looks back or jumps, and sees a delimiter whole
where it begins.  `IsReading` repeats in `SubsetInit` what the recursion of `Reading` says,
because the prover cannot unfold it.  State 0 is `"top"`.  `Scan` is `scan_doctype_subset`, run once the lookup succeeded,
by its own rule: every bracket counts, and `>` must follow the last `]` at once.
A terminating call, which scans without asking, is not modelled here.

### `PushCharData` — text, byte by byte

`Chunk` is `push_persistent_chunk` with the withheld `\r`; `Scan` one run of
`scan_char_data` over byte classes, iterated (`Iterate`) until it leaves its loops:
`Fast`, an iteration of the accelerated scan with its ranges, the CRLF rule and the
`]]>` rule, then `Complex`, one of `scan_char_data_complex`, with the flush at
`XML_PARSER_BIG_BUFFER_SIZE`, `current_char_at` (`CharAt`) and its NUL past the end of
input; `Return` the end of the call, which pushes the withheld `\r`.  `out` is the
concatenation of all `characters` events.  Left out: callbacks that stop the
parser within a run, three- and four-byte characters (the gates treat every
incomplete sequence alike), line and column.

### `PushInput` — from source bytes to text

`input` is the base `InputBuffer`: `decoding` parked or decided, `pending` the
source bytes held back, `data` the materialized text with its cursor `pos`, the
encoding, `converted`, `declPending`, the persistent decoder, and the two latches
`encoding_error` and `truncated_source`.  `PushBytes` is `push_bytes_ex` with every
function below it; a call (`Call`) is `push_persistent`: bytes, the test of the
cursor that throws a parked offset away (`mark`), the refusal of an invalid unit,
and the driver, of which `step_start` and `step_xml_decl` are modelled and the rest
is any reading of the text and any refusal by the grammar (`Drive`).  `Settle` is
`check_eof` with its first test: once `errNo` is set, by this call or an earlier one,
fatally or not, as a namespace error does, it looks at nothing.  A cut unit or unread bytes then pass
the terminating call, which returns 0, because `xmlParseChunk` reports `errNo` only
when `wellFormed` is 0 (`helpers.rs:356`): UTF-16 `<p:a/>` and an odd byte is such a
document.  `VerdictIsExact` therefore promises a report only while `errNo` is 0.

| Code | Definitions |
|---|---|
| `for_push`, `for_push_undecided`, `push_skeleton` | `Init`, `Skeleton` |
| `push_bytes_ex`, `push_progressive`, `try_decide` | `PushBytes`, `PushProgressive`, `MayDecide` |
| `decide`, `decide_utf8`, `install_unit_decoder` | `Decide`, `DecideUtf8`, `InstallUnits` |
| `detect_encoding_from_xml_declaration`, `convert_declared_native_encoding` | `Sniff`, `ConvertDeclared` |
| `convert_via_registry`, `install_registry_decoder`, `RegistrySourceDecoder::decode` | `ConvertViaRegistry`, `InstallDecoder`, `RegistryDecode` |
| `append_decided`, `append_raw`, `decode_units_tail` | `AppendDecided`, `AppendRaw`, `DecodeTail` |

A character of the text is named by the source bytes it was decoded from, so a
property sees a unit that is lost, doubled, split or decoded twice without a table
of code points.  One byte order stands for both, `ucs4` for the fixed-width units, `cp1252`
for the single-byte sets with bytes that mean nothing, and `stateful` for the
codecs that `encoding_rs` decodes (`StreamByte`, external: a two-byte character and
a shift state).  The reference, `Reading`, decodes all bytes received at once, a
byte at a time (`ReadByte`, `ReadBytes`, which are also the loops of the single-byte
sets and of the codecs), and does not use the functions of the model that cut and
carry.
Left out: declarations that are not ASCII (`AsciiDeclarations`; `from_utf8` may refuse
their text, `input.rs:1976-1979`), fixed-width encodings that only the declaration names
(`apply_declared_fixed_width_switch`), inputs made whole and pushed to later, an
encoding the caller sets, positions, and the C window, which moves no text.

### `PushDriver` — phases, latches, termination

A stream is a sequence of *cells*: the parts of a construct that some gate of
the driver tells apart (`<`, the rest, the terminator).  `have` is what the
decoder has materialized of `recv` received cells; `half` and `badunit` are
source units that are incomplete or invalid.  `pc` says whether a call is
running (`loop`), about to terminate (`final`) or over (`idle`).  Each action is
one iteration of `drive_persistent` or the terminate block:

| Code | Actions |
|---|---|
| `parse_chunk`, `push_persistent` | `Chunk`, `ChunkInvalid`, `Refuse` |
| loop head of `drive_persistent` | `Latch`, `Exhausted` |
| `step_start`, `step_xml_decl` | `StepStart`, `XmlDeclPark`, `StepXmlDecl` |
| `step_misc` (MISC, PROLOG, EPILOG) | `SkipBlanks`, `MiscPark`, `ScanInline`, `StepDoctype`, `StepDoctypeHead`, `MiscTail`, `EpilogTail` |
| `step_doctype_subset` | `SubsetPark`, `StepSubset` |
| `step_start_tag`, `open_start_tag` | `StartTagPark`, `NotATag`, `BadName`, `WrongToken`, `CutTag`, `OpenTag`, `EmptyTag` |
| `step_content` | `ContentPark`, `ContentTag`, `ScanInline`, `Reference`, `CharData` |
| `step_end_tag` | `EndTagPark`, `EndTag` |
| `terminate_document`, `check_eof` | `Terminate`, `EofCheck` |

A callback may call `xmlStopParser` within any event of a step (`Stops`): the
rest of the step's events is suppressed, as `sax_blocked` does.  `ScanInline` takes a
`<?xml` past the start, too (`Inline`): `scan_pi` reads it as an instruction whose target
is reserved, a fatal that suppresses the event and leaves the phase alone.  A construct
carries at most one fault: `scan` (a fatal that the token's scan reports, the
token produced all the same), `name` (no name after `<`) or `ns` (a namespace
error: recorded in `errNo`, not fatal).  Left out: entity inputs on the stack,
positions and consumed-byte accounting, recovery mode and the other options that
`push_persistent_eligible` refuses, the cap of a hundred errors, and the grammar
within a token.

### `SaxProtocol`, `MCPushDriver`, `PushPartition`

`SaxProtocol` says what an application may rely on, without chunks or phases:
`startDocument` first, nesting, text within the root, silence after a fatal or a
stop, one `endDocument`.  A step of it delivers any number of events at once, since
one step of the driver may (a start and an end for an empty tag, a run of text).
`PushDriver` instantiates it with the context's log, its stack and what `startDoc`,
the phase and the latches say of the stage (`ImplementsSax`); `MCPushDriver` gives
the instances.
`PushPartition` composes two runs of the driver over one document: the first in
chunks of any size, possibly abandoned, the second, on a fresh context, in one
terminating call; `MCPushPartition` gives its instance.

### `PushReplay` — the call as a whole, and the engine without a parser

`ParseChunk` is `parse_chunk` from its first guard to its last return: `Refuse`,
`PersistentChunk`, `AtEof`, and `ReplayChunk` with its three ways out
(`ReplayParked`, `ReplayNonFinal`, `ReplayFinal`).  `push` is `PUSH_STATE`, `stash`
`PARSER_INPUT_STASH`, `session` and `cursor` what `PUSH_SESSIONS` holds; `ctxt` has
the three fields of the context that calls decide on.  Between any two calls the
consumer may reset the context (`Reset`, `ResetPush`) or free it and get its
address for another (`Recreate`).  `Parse` is `parse_document` over one input, an
item of the document at a time, in the modes in which the engines construct it:
the silent probe, the partial delivery, the resume of a document that ended, and
for the persistent engine what `PushDriver` and `PushCharData` say of it.  Where a
run of text ends (`TokenEnd`), what is left out below the boundary (`Fire`) and what
stops a parse at the end of the input (`CutMarkup`, `Run`) are the code's.  The
reference, `Expected`, is read off the bytes of the document and does not use
`Parse`.

A document is a sequence of bytes; markup and a wide character have two, so that a
chunk can end within them.  Left out: calls on the context from its own callbacks,
recovery mode (which delivers nothing before the terminating call), encoding
errors, entity references, the prolog's declarations, errors that are not fatal,
and `startDocument` and `endDocument`, which the replay engine dispatches on each of
its deliveries, as `push.rs` says.  Two things are left out of the inputs of
`replay` because the code treats them differently from what the properties say,
and no text of the repository promises otherwise: a processing instruction cut in
the epilog, which `scan_pi_or_xml_decl` reports as the end of the input and the
check behind it as extra content (`NoPiInEpilog`); and an initial chunk of the
constructor that ends in `\r` (`Initial`), which is not withheld.  The third value
of `Contexts`, `zeroed`, is not in a run either: every engine begins by setting
`wellFormed` to 1 (`state.rs:375`), so a consumer that zeroed it, as PHP does, gets
the replay engine for one call and the persistent one for the next, which adopts
the stash from its first byte and delivers again what was delivered, against
`helpers.rs:1108-1112` ("switching engines after state has escaped could only
re-derive it").  With `zeroed` in `Contexts` of `MCPushReplay.cfg` TLC shows it, and
`EngineIsConstant` is proved without it.

### `ParScan` — runs of content on a pool of threads

`ask` is the class a run is asked for (text, comment or CDATA) or a whole string to
be validated, `answer` what was found.  `AskRun` is `class_content_run` and the
bulk step of `scan_characters` up to where the pool is called: the index, the probe
within `Budget`, the count of bytes already classified (`Exact`), or the sequential
prefix of `first_match_with`.  What the pool is given is `job`, its slots are
`done`; `Work` is any worker doing any block that is left.  A block is one step:
workers read bytes nobody writes during the call, and each writes its own slot.
`CollectWave`, `CollectIndex` with `Resolve`, and `CollectUtf8` are what the caller
does with the slots.  `Chunk` is more input, the last with `final`, which is
`!silent_truncated` during the scans that ask; a document that is pulled comes in
one final chunk.  The push driver clears that flag between its scans, but tags and
references, which it scans then, ask for no run.  `Consume` moves the cursor as the
tokenizer does, past the run and any bytes it looks at singly, so a question may
come from any offset, also behind a terminator the index knows.  Left out: the SIMD
and GPU classifiers, instructions (no scan asks for them), a pool that cannot be
built, entity inputs, whose scans take the loop over characters.

### `TreeLinks` — the pointers of the tree

`heap` holds the link fields of every structure, `live` the allocated ones,
`moved` is a history variable: the nodes the last call was asked to move or free.
An operation is a function from heaps to heaps, store by store (`Put` through a
pointer that may be NULL, `Swap` where the code compares first), so that the
composite calls (`SetRootTo`, `AppendList`, `InsertBetween`) compose them as the
code does.  Walks of the code (`After`, `Below`, `Reach`) are least sets closed
under the pointers the walk follows.

| Code | Actions |
|---|---|
| `new_doc`, `new_node`, `new_text`, `new_doc_node`, `xmlNewChild` | `NewDoc`, `NewNode`, `NewChild` |
| `new_prop_internal`, `set_ns_prop` (creating, existing), `xmlNodeAddContent` | `NewProp`, `SetNsProp`, `AddContent` |
| `unlink_node`, `add_child`, `add_sibling` | `UnlinkNode`, `AddChild`, `AddSibling` |
| `insert_node`, `insert_prop` behind `xmlAddNextSibling`, `xmlAddPrevSibling` | `AddNextSibling`, `AddPrevSibling` (`InsertBetween`) |
| `xmlAddChildList`, `xmlReplaceNode`, `doc_set_root_element`, `xmlSetTreeDoc` | `AddChildList`, `ReplaceNode`, `SetRoot`, `SetTreeDoc` |
| `remove_prop`, `text_merge`, `free_node`, `free_node_list`, `free_doc` | `RemoveProp`, `TextMerge`, `FreeNode`, `FreeNodeList`, `FreeDoc` |

The code checks little of what it is given.  What any caller must keep to is in
the guards (`Fits`: no node below itself, nothing where it does not belong); what
a caller could reasonably do otherwise is an *obligation*, which a run takes out
of `Obligations` to see what happens: `alone` (the node given to
`xmlDocSetRootElement` has no siblings if it has no parent), `unlinked` (the
second text of `xmlTextMerge` is in no list), `childless` (the node given to
`xmlFreeNode` has no children: `free_node` does not free them), `own` (a freed
document is no longer named by nodes outside its tree).  Left out: contents,
names and namespaces except the equality of attribute names, namespace
declarations, entity references, DTD nodes, copies, and failed allocations.

### `Writer` — a flat state and the nesting of the text

The six fields are the writer's.  `out` reads back what was written and knows only
XML: the open elements, where in a document type the text is, and the lexical
context; each call says through `Lex`, `OpenTag`, `EndTag` and the like which
token it writes, and `out.ok` falls when a token stands where XML allows none.
The guards of the actions ask `out`, never the writer's fields, whether XML lets
the application call a function: so the writer has to be right by its own
bookkeeping.  A composite Write function begins with its Start function and
leaves the calls it has still to make in `rest`; `Begin` and `Call` are the two
ways to enter a function, and `base` remembers what was open before.
`close_start_tag` returns a sum of counts (`Counts`).  `write_slice` makes each 0
with an encoder, and `output_buffer_write` makes it 0 when the buffer has a write
callback, as those of memory and file writers do, and fewer than 256 bytes wait; the
empty URI of a pending declaration counts -1 even then (`MutedCount`).  A composite
takes a sum of -1 for an error (`Failed`) and stops.  So after a tag with an empty URI
(`emptyUri`, a history variable) a Write function may leave its element, section or
comment open: `xmlTextWriterWriteElementNS(w, NULL, "b", "", "x")` on a memory writer
writes `<b xmlns="">x` and returns -1, the element still open.  Without content the
element is complete, and the call returns -1 all the same.  `WriteCallsBalance` says that
this is the only case, and that nothing but what the call began stays open then.
Obligations: `declared` (no `xmlTextWriterFullEndElement` while declarations are
pending), `encoded` (Base64 and BinHex only in content), `misc` (no comment or PI
within a document type).  Left out:
contents and escaping, indentation, quote characters, output errors, the Format
variants, invalid arguments, the contents of external entities.

## Runs

| Run | What it asks | Result |
|---|---|---|
| `lookups` | do the resumable lookups answer as an uninterrupted scan, with bounded rescan? | holds |
| `subset` | the same for the internal subset with its state byte | holds |
| `subset_scan` | does the scan behind the gate consume what the gate accepted? | **violated** |
| `char_data` | is text exact, are faults found, does text not pile up? | holds without empty calls |
| `driver` | latches, phases, termination, SAX protocol, with callbacks that stop the parser | holds |
| `partition` | do events depend on the chunks, and does every call return? | they do not; it does |
| `replay` | is nothing lost, repeated, moved or decided by the chunks, whichever engine a call gets, across resets? | holds for whole characters |
| `tree` | do the pointers stay coherent and live, and other nodes where they are, under any calls? | holds for a careful application |
| `writer` | does the flat state follow the nesting of the text? | holds for a careful application |
| `input` | is the text what decoding the whole source gives, are bad and cut units noticed by the right call, does what was read stay? | holds |
| `input_mark` | is a byte order mark skipped whatever the declaration says? | **violated** |
| `scan` | does the pool answer as a sequential scan, always, and never from an index of other input? | holds |

**Disagreements that a run shows.**
`subset_scan`: a legal `<!DOCTYPE a [] >`, or a `]` in a literal or a comment, is
complete for `lookup_internal_subset` and cut short by `scan_doctype_subset`,
against the comments of both.
`input_mark`: behind a UTF-8 byte order mark, a declaration of ISO-8859-1 transcodes
the whole buffer, the mark with it (three bytes become six), and leaves the cursor
at three: the parser goes on within the remains of the mark and refuses the
document, against `input.rs:1394-1395` and `1509-1510`.

**Disagreements seen with other constants.**  With `Docs <- MCNamespaceDocs` in
`MCPushDriver.cfg`, `EndDocumentOnlyAtTheEnd` fails: after a namespace error
`check_eof` returns early, so content after the root ends the document on a
non-final call without any fatal (`push.rs:211-213` says `endDocument` never fires
there), and `TerminateSettles` fails too: a later terminating call returns
`AwaitTermination`, which `drive_persistent` calls reachable on non-terminating calls
only.  With `Kinds = {"open", "close", "char", "wide"}`, `Contexts = {"option"}` and
`MaxItems = 2` in `MCPushReplay.cfg`, `EventsOnce` fails: on a context with an option
such as `XML_PARSE_HUGE`, a chunk that ends within a UTF-8 character of a text is a
fatal encoding error of that call (`tokenizer.rs:3282`), and all later ones are
refused, though `tokenizer.rs:3268` and `state.rs:450-452` say that nothing is raised.
With `Obligations <- MergesSiblings` in `MCTreeLinks.cfg`, `LinksCoherent` and
`NoDangling` fail: `text_merge` frees its second text where it is, and the parent and the neighbours
go on naming it, though its comment asks for valid text nodes only.
With `EmptyCalls = TRUE` in `MCPushCharData.cfg`, `TextIsExact` fails: after
`x x ... \r` an empty non-final call, with 300 or more unread bytes, parses the
withheld `\r`, and the `\n` of the next call is a second line end, against the
comment on the withholding (`helpers.rs:301-303`).  With `Obligations <- EndsInFull`
in `MCWriter.cfg`, `DeclaredInItsTag` fails: `xmlTextWriterFullEndElement` writes `>`
without `flush_pending_ns`, and the declarations appear in a later tag, or never,
against `writer/mod.rs:188-189`.  With `encoded` left out instead, `WellFormed` fails:
in an attribute value the data end the start tag.  With `misc` left out,
`StateIsNesting` and `NothingRefused` fail: after a comment in a document type the
writer has forgotten the document type.  Two instances of `MCPushInput.cfg` have no run of
their own.  With `Sources <- UndefinedSources` and `Declarable = {"cp1252"}`, and
`UndefinedByteShows` as the invariant: a chunk with a byte that windows-1252 does
not have is left or appended raw, for the tokenizer to report (`input.rs:968-969`, `1723-1727`); but C3
81 in one chunk is then the UTF-8 of another character, and nothing is reported.
With `Sources <- EscapedSources` and `Declarable = {"stateful"}`,
`WaitsOnlyForTheEnd` fails: the decoder takes escapes out of a declaration, the text
gets shorter under the parked offset, and the cursor, still at zero, does not show
it (`pushdrive.rs:207-213`); the parser then waits for a `?>` it has, until the
terminating call or a longer text makes the offset harmless.

**Bounds.**  `lookups`: streams of 7 bytes, varying in the first 5 for tags, 4
for text and references, all 7 after `?` for needles and the last 4 for sections,
which begin 3 bytes in; a needle is 3 bytes, so that it, its overlap and a second
construct fit.  `subset`: `[` and four pieces out of eight
(comment marks, brackets, a quote, a blank, a dash), enough for a comment, a
split mark and the end.  `char_data`: six bytes of line ends, of brackets, and
five of split characters, with `Big = 3` in place of 300: flushes fall within
runs.  `driver`: up to four structural constructs, prologs of two constructs
before a root or around a DOCTYPE with a subset, contents of two constructs and
an epilog of two; `Detect = 2` and `Big = 2` cells, so that detection parks and
text is released both by size and by markup.  Nesting and phase changes need at
most two levels; a third and fourth construct covers reentry and mismatch.
`partition` takes contents of two constructs with a short epilog, or of one with
the longer ones, and the prologs and namespace faults of `driver`: both runs of a
document multiply its partitions.  `replay`: three items of nine kinds, which make a root with one
thing in it, or two things after it, and every pair of neighbours a chunk boundary
can fall between or into; chunks of up to five bytes, so that three calls or one
carry a document of six; a constructor given nothing or two bytes; two bytes for the
four that decide the encoding, so that parking happens within and at the end of a
first item; one reuse of the context by a second document.  `tree`: two elements, two texts, two
attributes of one name and two documents, five of them allocated at once; five
suffice for a list of three under a parent with an attribute, for moving a subtree
between two documents, and for a list of two that is inserted next to its own
neighbours.  The structures of a sort are symmetric (no liveness is checked) and
the view hides the history `moved`, which no guard reads.  `writer`: two names, so
that an end tag can have a wrong one, three declarations (two that clash, one with
an empty URI), three open elements: the state is flat, so two levels show what is
forgotten and a third what is restored.
`input`: sources of up to eleven bytes, in every chunking and from constructors given any
beginning: each signature with four or five bytes behind it, of which pairs, lone
halves and cut units are made; a declaration with three bytes behind it in each
kind of encoding; and sources no signature names; `EbcdicGate = 6` stands for the
200 bytes that an EBCDIC source must have.
`scan`: documents of eight bytes with none, one or two of three kinds of terminator
anywhere, cut into chunks anywhere, and strings of five bytes of every shape with
leads of two, three and four; blocks of two bytes, coarse ones of three, two
workers and one block of a wave for each: a prefix, two waves, three coarse blocks,
and a probe that is shorter than what follows it.
Deadlock is not checked because an application may stop calling.

**Fairness.**  `PFairSpec` of `PushPartition` is weak fairness of `DriveOn` alone:
an iteration of the loop runs on the caller's thread and nothing blocks it.  `Spec` of
`ParScan` is weak fairness of `Work` and of `Collect`: workers of a private pool take
what is left, and the caller waits for the pool alone.  No fairness on `Chunk`: the
application owes no further call, so no property says a document ends.

**Meant to depend on chunks.**  `Even` leaves two faults out of the partition
property: an invalid source unit is reported before anything its chunk brought
(`push_persistent`), and a `]]>` suppresses the text before it, white space
included, as far as no earlier call delivered it.

## Proofs

`PushLookups_proofs` (of `PushLookup` and of `PushSubset`), `PushCharData_proofs`,
`PushInput_proofs`, `PushDriver_proofs`,
`PushReplay_proofs` and `ParScan_proofs`, for every stream, every partition and every
value of the constants that satisfies `LookupAssumption`, `SubsetAssumption`,
`CharDataAssumption`, `InputConstants`, `AsciiDeclarations`, `DriverAssumption`,
`ReplayConstants` and `ScanConstants`;
`TreeLinks_proofs` and `Writer_proofs`, for every set of nodes, of names and of
declarations that satisfies `TreeAssumption` and `DeclAssumption`, and for every sequence of calls of an application that keeps to
all obligations (`Careful`, an assumption of each theorem; the instances
above show that `declared` and `unlinked` are needed).

*Lookups.*  `FoundIsFirst` alone is not inductive: after a park the next call
starts in the middle.  `IInv` adds what a continuation knows, `Passed(end, q)`:
no terminator lies between the construct's start and `end`, and `q` is the quote
an uninterrupted scan has at `end`.  A string's continuation may lie before the
end of input, and the proof needs that every needle between them would have been
seen whole, the reason for the overlap.  From `IInv` follow `TypeCorrect`,
`FindsTheFirstTerminator`, `ParksOnlyIfIncomplete`, `ContinuationSurvives` and,
for the step, `OverlapIsBounded`.

*Internal subset.*  The scan and the reading disagree while a delimiter is cut: the
scan passes its first bytes one by one, the reading has seen it whole.  `Trail` says
so: the scan agrees with the reading (`Sync`) from `start` to some place `p`, no end
lies before `p`, and it is past `p` only if a delimiter begins there that is not
complete (`Cut`).  A cut delimiter has at most three bytes, none of which ends the
subset, so stepping back by three, or to `start`, lands where the two agree
(`AtLimit`); this is the reason for both numbers.  One lemma per state shows that an
iteration keeps the trail (`AtTop`, `InComment`, `InLiteral`, `AfterBracket`,
`Behind`).  From it `SubsetAnswerIsRight` and `SubsetRescanIsBounded`.

*Character data.*  The scan is judged one iteration at a time: an iteration halts,
switches to the complex loop or takes one character (`Halts`, `Switches`, `Eats`), and
`CharTaken` says of a character taken by either loop that it is the reference's at that
place, whole, and reported if and only if it is wrong.  `Going` and `ToldBy` carry this
through the iterations, and `Rank`, what is left of the input and of the loops, shows
that the scan leaves them (`ScanEnds`).  Between steps `Judged` says that the bytes
consumed hold no fault that was not reported and do not end within a character; `Told`
that what was delivered, with what is still in the buffer, is the text of the bytes
consumed.  More input cannot undo either: a fault needs all its bytes
(`WrongShrinks`), and the text of whole characters is the same wherever the document
ends behind them (`TextAgrees`).  From it `TypeCorrect`, `FaultsAreFound` and
`TextNeverPilesUp`.  Exact text needs `LineKept` as well: what the parser sees in a call
does not end within a CRLF pair.  That is what withholding the `\r` achieves, and only
if no call before the last comes without bytes: `TextDeliveredExactly` assumes
`EmptyCalls = FALSE`, and without it `TextIsExact` fails, as said above.  The
bound of `Backlog` is one that the proof found: for a buffer of one or two bytes three
may be left, a `]]` and the withheld `\r` behind it.

*Input.*  `DecodedExactly` compares the text with a reading that starts over with every
byte; the proof carries that reading from call to call.  `IInv` says what the input is
after `n` bytes: undecided, and then nothing but those bytes (`Unknown`); as it came,
that is UTF-8, while a declaration may still begin in it (`AsItCame`); or decoded
(`AsDecoded`), and then its carry is what the reading holds back: `pending` for units of
two and four bytes, the decoder's own state for a codec, nothing for a single-byte set.
The encoding of a prefix is that of every longer one from the moment the code acts on it
(`Final`), except in a terminating call, which has no later.  This is the reason for the
four bytes of `try_decide`, for holding the declaration open until its `?>`, and for
deciding a short source only at its end.  `ReadingMore` lets the reading take a chunk where it stands; `TailIs`,
`AppendStateful` and `AppendTable` say the same of the three ways of the code, and
`RebuiltTable` and `RebuiltStream` that a declaration found late gives the text it would
have given from the start.  Sums over bytes are inductions over a sequence, by the least
counterexample (`Upward`).  From it `DecodesExactly`, `VerdictsAreExact` and, for the
step, `ReadTextIsKept`: a text is built anew only while the cursor is at zero.
`WaitsForTheEnd` needs `Mark` on top: no `?>` lies in the text before the parked offset.
Appending keeps it.  Rebuilding keeps it because decoding never brings the first `?>`
nearer to the beginning (`CharBehind`, `LeadBehind`, `StepBehind`, `EndsLater`): a byte
becomes at least one part of a character, and a character of two bytes holds no `?>`.

These theorems speak of sources that satisfy what the deviations above
make necessary.  `Unmarked`: no declaration of another encoding than UTF-8 behind a
UTF-8 byte order mark (`input_mark` shows what happens to one; a mark before a
declaration of UTF-8, or before any text, is covered).  `Defined`: if a set with bytes
that mean nothing can be declared, no source has such a byte.  For `WaitsForTheEnd` also
`EscapesBehind`: if a codec with escapes can be declared, no source has one before its
first `?>`, since an escape is the one thing that takes up source and gives no text.
All sources of `MCPushInput.cfg` satisfy the three.

*Driver.*  `IInv` joins the phase and stack agreement with `LogOK`: an
`endDocument` in the log is followed by fatals only, a fatal by fatals and
`endDocument` only; the log holds no `endDocument` before `endDoc` and no fatal
while `disableSAX` is 0; and `endDoc` implies phase EOF.  Lemmas say what
`Deliver`, `RaiseFatal`, `Stopped` and `Finished` do to `LogOK`; one lemma per
action follows.  From it `TypeCorrect`, `StackFollowsPhase`,
`EndDocumentOnceAndLast` and `FatalSilences`.  `Settling` adds what a call
leaves behind: a recorded error has silenced the context (`Clean`), so the
terminate block runs only on a live context of a terminating call, without error
when no namespace error can be recorded, and what it sets there settles it.  `TerminateAlwaysSettles` and `EndDocumentWaits` follow from
it under `NoNamespaceFaults`, that no document has a namespace error: one is
recorded without silencing the context, and on `MCNamespaceDocs` both properties
fail, as said above.

*Refinement.*  `DriverImplementsSax` says that every behaviour of the driver is one of
the SAX protocol, namespace errors included.  The protocol after several events is
a recursive function; that it is a run, and that a longer list of events only goes
on from where the shorter one led, is induction over a number, obtained as the least
counterexample (`LeastNumber`, from the library's `WFMin`).  On top of `IInv` the
mapping needs `Staged`: a recorded fatal has silenced the context, and a context
that has not been silenced has had its `startDocument` exactly when it is past the
XML declaration.  `Reached` says where the protocol is after the log written so far,
and is carried one callback at a time through every error raised before, between and
after the callbacks and every place the application may stop in; the end of a step
closes the gap (`ReachedDispatch`).  One lemma per action follows.  A variant of the
driver whose `AfterTag` never leaves the content fails in two of them.

*Independence of the chunks.*  `EventsAreTheSame` and `NothingOnSuspicion` compare two
runs, but neither run is followed beside the other: each is compared with a third
reading of the document that knows no chunks.  `Turn(d, n, z)` is one turn of a reader
that has the first `n` cells of `d` before it and stands at `z`: one construct, one cell
of text or one change of phase, as `drive_step` does it when everything is there and the
call is the last one.  It is a function of constants alone.  `Reads(d, n, y, z)` says
that the reader gets from `y` to `z`, without a recursion: `z` is in every set that holds
`y` and that no turn leaves.  An action of the driver is one turn (`...Turns`, one lemma
per action), or several at once, as for a run of blanks or of text that is flushed where
a chunk happened to end (`BlanksRead`, `TextRead`, by the least counterexample), or none.
That it is the *same* turn for every `n` the stream may still grow to is what the
availability lookups are for: what the driver acts on is complete (`Sees`), and what is
not complete it acts on only in the terminating call, where `n` is known.  `PInv` says
then that the driver is at a place the reader passes (`Followed`), of every stream the
caller may still hand over, and after a terminating call at a place the reader never
leaves (`Fixed`); and the same of where the first run was left (`Remembered`).  From a
fixed place of one reading follows all: it is the only one (`SameEvents`), and whatever
the reader passes leads there with a longer log (`PrefixOfEveryContinuation`).  Both
theorems assume `Stops = FALSE`: an application that stops the parser may decide to by
what it was given so far, in the one run and not in the other.  The proof showed that
`Even` had to exclude the fault `]]>` in runs that begin with white space too; the
instances of the run held none.

*Replay.*  `InputIsKept` and `EngineIsConstant` assume that no consumer zeroes
`wellFormed`.  `InputInOrder` is not inductive: which container holds the input, and
whether withheld `\r`s are counted or already in it, depends on the engine, and the
engine on fields that the parses write.  `OneEngine` ties them: `disableSAX` and
`wellFormed` mirror each other, so a call that is not refused chooses by what the
consumer set up and nothing the parses wrote; only a context for which that choice
is the persistent engine has a session, and then no `\r` is counted.  `Kept` says
that the containers hold bytes of the document's alphabet.  Lemmas on sequences
carry the rest: a chunk splits into its slice and the withheld `\r`, and appending
both to what was held gives the longer prefix.

`EventsAreToldOnce` and `OutcomeIsTheSame` also assume that the documents are
`Ordinary`: markup is made of its two bytes, and there are no wide characters and no
processing instructions after the root, on which the replay engine deviates, as said
above and with the model; `MCPushReplay` assumes the same of its documents, so the run
shows that the hypothesis is met.  The proof has three layers.  About the document:
`Passed(p)` says that the items before `p` are whole and right, `Report(n, b)` which of
those whole within `n` bytes are told of to a delivery that leaves out what ends at or
below `b`.  Reports join (`ReportAdds`), and a wrong item ends them for good
(`WrongStops`).  About the parser: `Going` relates what it has written after a token to
`Passed` and `Report`.  One lemma per kind of token keeps it, or arrives at one of the
three ways to end, `Failing`, `Waits` and `Ended`; `ParseSays` is what this comes to, in every
mode and from every offset, under `Reading`: no delivery ends within a line break of the
content, and the input ends within none except for a parser that waits for the rest.  These are what
`TokenEnd` and the withheld `\r` are for.  About the calls: `Spoken` says, on top of
`IInv`, that a session has told of all up to its cursor and has nothing wrong behind it
(`Driven`); that the replay engine has told of all up to `delivered`, which reaches the end
of what was read as soon as the encoding was decided (`Replayed`); that a stopped
context has told of all up to an error within what was read (`Halted`); and that after
the terminating call nothing is left to tell (`Over`).  Inductions over the recursive
functions `InOrder` and `Tokens` are over a number, by the least counterexample
(`Upward`), as in the refinement above.

*Scanner.*  That an answer is sequential depends on what the pool was asked while
it works.  `IInv` says it of every job: a wave is preceded by clean bytes up to
where it begins (`IsWave`), an index job carries an answer that is right already or
none (`IsIndexJob`), a filled slot holds what its block says (`SlotsOK`), and an
index exists only of final input.  `Tiles` is all that is needed of blocks: each
begins where the one before it ends, from end to end.  A run is told by being clean
up to a place that ends it (`IsRun`, `RunFacts`); `Covered` makes one clean piece of
clean blocks, `RunLenFacts` says what the index answers and that it always answers
at a block's beginning, `CollectWaveOutcome` that the first block with a hit holds
the first hit.  No fairness is used: any worker may do any block at any time.  From
it `RunsAreSequential` and `IndexStaysCurrent`.  For UTF-8 the invariant is `UInv`:
while such a question is worked on, all of the string is there, its blocks are those of
`LeadStarts`, and a filled slot holds that block's own verdict.  The walk of `validate_lax_block` is a recursive function; `LaxExists` shows
by the least counterexample that it is one, and `LaxIsWhole` takes it to `Whole`, which
speaks of positions only: every leading byte has the continuations it announces, and
every continuation has a leading byte.  `WholeCut` is the reason the blocks may be
checked apart: at a byte that continues nothing, a string is whole exactly if both
pieces are.  `LeadStartsFacts` shows that every block but the first begins at such a
byte, `SeamsWhole` joins them, and from it `VerdictsAreWhole`.

*Tree.*  `IInv` is `Sound`: the links agree (`Coherent`), sorts are where they
belong (`Placed`), documents agree, and everything that is linked is allocated
(`Within`).  None is inductive alone: a call follows the links of nodes it was not
asked about.  The proof first puts a heap's stores into one normal form: an
unlinked node, `Unlink` seen as the gap it leaves, `Link` into a gap.  Each editing
call is then shown to be an unlinking followed by a linking into a gap that is
still one (`NextGap`, `PrevGap`, `LastPropGap`, `ReplaceIsLink`), and each freeing
call the release of a set that nothing outside names (`CutApart`, `OwnedFacts`,
`AfterFacts`, `BelowFacts`).  That lists end (`ListsEnd`) is stated over sets of
nodes instead of by counting, so that no induction is needed.  From it
`TypeCorrect`, `AlwaysCoherent`, `AlwaysListed`, `AlwaysOneDoc`, `NeverDangling`.

`OthersAlwaysStay` compares the lists before a call with those after it, outside the
set of nodes the call may move (`Order`).  Two heaps have one order outside a set if
the same node follows each node there once the set is passed over (`SameOrder`); where
a walk leaves the set is given by a function (`Leaves`, `Past`) instead of computed, so
that no recursion is needed, and that walks end is `ListsEnd` again.  Unlinking a
node, linking it into a gap and releasing a set that nothing outside follows each keep
the order outside what they touch, and orders compose (`OrderThen`): every call is a
chain of these, and what it touches is in `moved`.

*Writer.*  `IInv` joins `TypeOK` and the five properties of the run with what each
state implies: `Tags` (a start tag is open in two states, and then the pending declarations are
those asked for), `Prolog` (declarations come before elements), and `Underway` (what a
composite has still to do fits what is open).  `Started` says what is open after the
first call of a composite: if that failed, the call closed a tag with an empty URI
(`Counted`), and just what it began is open.  `Context` tells from it, one state at a time, what is open in the text; one
lemma per call follows.  From it `TypeCorrect`, `AlwaysWellFormed`,
`AlwaysNested`, `NeverRefused`, `AlwaysDeclared`, `AlwaysBalanced`.

*Only model-checked:* liveness (`CallsReturn`, `Answered`), out of the prover's reach
with its fairness; and `ScanReachesTheEnd` of `PushSubset` and `MarkIsSkipped` of
`PushInput`, which fail.  Every other property of a run is a theorem.

## Plan

1. Calls from callbacks in `PushReplay`: the session out of the table while its
   parse runs, `xmlParseChunk` and `xmlFreeParserCtxt` on the same context.
2. The rest of `PushInput`: the fixed-width switch within a declaration, inputs made
   whole and pushed to later, entity inputs; and the text it materializes in place
   of `Decoded` and `Invalid` of `PushDriver`.
3. `DictRefs`: reference counts of dictionaries and sub-dictionaries.
4. Entity inputs and the error cap in `PushDriver`; stops within text in
   `PushCharData`.
5. Copies, namespaces and DTD nodes in `TreeLinks`; contents and indentation in
   `Writer`.
6. Theorems: `DictRefs`' count; that the engine's choice and the decoder's verdicts,
   proved of `PushReplay` and `PushInput` apart, hold of the two composed.
