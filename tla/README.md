# A TLA+ verification project for dpack

dpack is a C library that encodes and decodes data in the MessagePack format. An application
drives an *encoder* or a *decoder* one item at a time (`dpack_encode_uint16()`,
`dpack_decode_str()`...), or hands a callback to a function that walks an array or a map and calls
it for each element or field. The library is sequential: no thread, no event loop. What is hard in
it is elsewhere:

* it parses streams it did not write: truncated, nested, out of limits, of the wrong types, with
  integer counters and sizes of fixed width;
* the same stream is walked by functions that call each other recursively, through callbacks of the
  application, and every one of them may fail anywhere;
* a decoder may be in *discard mode* (`dpack_decoder_init_discard_buffer()`): after a refusal it has
  to stand behind what was refused, whatever was consumed of it, or all that follows is decoded from
  the middle of an item;
* the file decoder slides an `mmap()` window that may fail to move halfway through a read.

## 1. Inventory

| component | code | state | operations | what makes it correct |
|---|---|---|---|---|
| Buffer codecs | `src/buffer.c` | a memory area, its capacity, a cursor | init, left, used, write, read, skip, fini | no overrun, with any `size_t`; what was written is what is read; the room announced is exact |
| File decoder | `src/file.c` | descriptor, position, window and its position | init (6 system calls), left, read, skip, remap, fini | a read stores the file's bytes; a failure moves nothing; the window is where the decoder believes |
| Item discarding | `src/common.c`, `src/common.h` | the decoder, the C stack | discard one item, discard n items, both only in discard mode | ends; stops exactly behind the items; the first error comes out |
| Array and map decoding | `src/array.c`, `src/map.c` | the decoder, a count, an index | decode, min, max, equ, range, the count forms, `count_end` | one callback per element at its own item; a refusal or a failed callback leaves the decoder at the end and the error intact |
| Array and map encoding | `src/array.c`, `src/map.c` | the encoder, the collections begun | begin, nested begin, fields of each type, end; the sizes announced | what is begun and filled decodes, at every level; a message cut short shows; sizes are what was announced |
| Scalar codec | `src/scalar.c` | the decoder | encode, decode, min, max, range of 8 integer types, bool, nil, float, double | the value decoded is the value encoded, in whatever type it fits; nothing else is a success |
| String, lvstr and binary codecs | `src/string.c`, `src/lvstr.c`, `src/bin.c` | the decoder, allocated copies | encode, decode, dup, cpy and their bounds | the copy is whole and terminated; no copy is lost; a refused payload is discarded |
| Samples | `sample/` | a structure and its valid fields, the file it is saved to | set, check, pack, save, load, unpack, release | the structure survives a round trip, through a file that may be cut; each field comes from one field of the message; mandatory fields are there; strings are freed |
| Unit tests, build, configuration, documentation | `test/`, `scripts/`, `sphinx/` | | | none of their own; read as statements on the code |

How they interact: every codec of items calls `dpack_encoder_write()`, `dpack_decoder_read()` and
`dpack_decoder_skip()`, function pointers to the buffer or file codec. A collection decoder calls
the application's callback, which calls item decoders on the same decoder, collection decoders
included. Item and collection decoders call the discarding functions of `common.c` when they refuse
something. All this shares one piece of state, the decoder's position, and one convention, the
return code; most properties relate the two.

The hazards that follow from this are listed, at their lines, in `PROJECT.json`.

## 2. Modules

| module | models | used by |
|---|---|---|
| `ByteStream` | the promise of a codec over a fixed buffer: an append-only log, a reader | refined by `BufferCodec` |
| `BufferCodec` | `buffer.c`: one action per operation and outcome, `size_t` arithmetic modulo `SizeMax + 1` | |
| `Wire` | the stream as decoders see it; `SkipItems`, the reference definition of skipping items (`Skim` is its recursive function) | `Discard`, `Collection`, `Payload`, `Encoder` |
| `Discard` | the mutual recursion of `common.c` as a stack machine | |
| `Collection` | the decoding functions of `array.c` and `map.c` around callbacks | |
| `FileCodec` | `file.c`, cut at its system calls | |
| `Scalar` | `scalar.c`: the codecs of the twelve types | |
| `Payload` | the decoding functions of `string.c`, `bin.c`, `lvstr.c`, with the memory they fill | |
| `Encoder` | the encoding functions of `array.c`, `map.c`, `string.c`, `bin.c`, `lvstr.c`, and the sizes announced | |
| `MapSample` | `map_sample.c`, the program around it and the file: two processes | |
| `Wire_proofs` | theorems about `SkipItems` and induction over streams | `Discard_proofs`, `Collection_proofs`, `Payload_proofs`, `Encoder_proofs` |
| `BufferCodec_proofs`, `Discard_proofs`, `Collection_proofs`, `FileCodec_proofs`, `Payload_proofs`, `Encoder_proofs` | theorems about the module they are named after | |
| `RoundTrip_proofs` | theorems about `Scalar`, and about the messages of `MapSample`: what is written is what is read | |
| `MC...` | constants of the finite instances | |

### How state and actions correspond to the code

**BufferCodec.** `tail`, `ecapa` are the fields of `struct dpack_encoder_buffer`, `head`, `dcapa`
those of `struct dpack_decoder_buffer`, `mem` the memory both are given in turn: the samples and
tests pack into a buffer and unpack it. Each call is one action, or two, for the outcomes of the
overflow and capacity tests. The application may give any size to write, read and skip, except
zero, which the code asserts against. The initial memory is arbitrary.

**Wire.** A unit of a stream is a tag, a big-endian count or a payload byte, depending on where a
decoder meets it; this is what makes a decoder that is off by one read nonsense, as in the code.
Tags are grouped in ten kinds by what follows them. The limits of the build
(`DPACK_STRLEN_MAX`, `DPACK_BINSZ_MAX`, `DPACK_ARRAY_ELMNR_MAX`, `DPACK_MAP_FLDNR_MAX`) are
constants. The kinds `str`, `arr` and `map` are what the build handles with a count, the kind `ext` what it
does not: with the default limits (4095 characters, 1024 elements, 128 fields) the 32-bit forms of these.
Binaries may have 65536 bytes, hence a 32-bit count.

**Discard.** `stack` holds the counter `nr` of every active `dpack_discard_items()`; `pc` says
which function is about to run. An action is the code between two calls or returns. The counter is
decremented as the `unsigned int` it is.

**Collection.** One call of one function of the API, `req`, on any stream in either mode. `nr`,
`idx`, `err` are the locals of the C functions. The callback is the application's: it decodes its
item, or fails before it, on its tag, or behind it (`CallbackOutcomes`, after
`sample/map_sample.c`). An application may also walk an array by itself between
`dpack_array_decode_count()` and `dpack_array_decode_count_end()`. Nested collections are items
here: what discarding them comes to is `SkipItems`, and `Discard` shows that the code of
`common.c` comes to that. Assertions are off: what they claim is stated as properties, or as notes
to hazards.

**FileCodec.** A byte of the file is its position, and a copy is a set of pairs of a position in the
destination and a byte, so that misplaced pieces show. A read is cut at each call of
`dpack_decoder_file_remap()`, where `mmap()` may fail. `BitAnd` is the machine operator, a constant
of which the module assumes that it clears bits (`BitAndAssumption`); the instances define it on
four bits. `fds` has the open descriptors. `_dpack_decoder_init_file_at()` takes every descriptor above zero for an
error (`file.c:258-260`) and returns it with the file open, so that only descriptor zero ever makes a decoder;
`told` is a ghost, the descriptors returned in that way.

**Scalar.** Two things happen in turn: an encoding function writes a scalar to a small buffer, and a
decoding function, with any of its bounds, reads the bytes from a fresh decoder; streams
that no encoder wrote are decoded too. A type has a tag, a size and a range (functions
of the type, so that the twelve families are twelve short definitions). The integer functions of a
width take their own tag (`LoadOwn`), that of the other sign when the value fits (`LoadOther`),
and leave every other tag to the width below; the functions of 8 bits end the cascade
(`UnknownTag`), each in its own way. Bytes have `Base` values (256 in the code) and the levels
`Width` bytes (1, 2, 4, 8), so that a number of `k` bytes has `Power[k]` values: instances use small ones. A real is an integer whose
representation is ordered as that of floats, which is all that the bounds and the test for
not-a-number look at; some are doubles and not floats.

**Payload.** An application calls one decoding function after the other on one decoder, with any
bounds the assertions accept. A call is cut where memory or the stream changes hands:
tag and length, bounds, `malloc()`, copy, and, for `lvstr`, the return from `dpack_decode_strdup*()` to
the function that cedes the block. `heap` has the blocks allocated and not freed, `held` those the
application got, `size` the room at the destination, `value` what was written there.
A unit is null when its `n` is zero, which is how `memchr()` sees it.

**Encoder.** The application encodes one message after the other, of any values and nesting, into a buffer of
any size, stops at the first error and starts again with another buffer. A function is the sequence of writes it
makes (`chunks`), and the first one that does not fit ends it with the others left in the
buffer, as in the code, which takes nothing back. What was written is kept as units of `Wire`, so that
`SkipItems` can read it back, and its size in bytes apart. `frames` is a ghost: what the application has begun
and not ended. `quote` has what the sizes announced for the last call were. The limits of the build and the thresholds between
formats are unrelated constants: in the default build strings, arrays and maps never need the
32-bit forms, while a longer `CONFIG_DPACK_STRING_MAXLEN` does; the instance that TLC checks is of the second sort, which
has all the forms.

**MapSample.** One process sets fields, packs and saves; another loads and unpacks, field by field.
They share the file only, which the first one truncates and writes in place: it may die, or the disk be
full, at any point. The other one reads it with `fread()`, which is several `read()`: each is a step (`LoadRead`), which gets some of what
follows, from the file as it is by then. If the file was truncated in between (`load.stale`), what follows is of another message and
from wherever the first one was left (`LoadMixed`): any sequence of fields, the constant `Tails`; nothing
more is said of such a mixture than that it is of no sample. The file may also come from someone else, with fields that are unknown,
repeated, missing, of another type or refused. A field's value is the class that the
checks of `map_sample.c` tell apart; one that was never set has the zero of `MAP_SAMPLE_INIT`, which is packed, decoded and accepted as
any other. `heap` counts the strings that unpacking allocated and did not free. The unpacking actions are one each for the outcomes of
`map_sample_unpack_field()` under `dpack_map_decode_range()`. There is one saving process, so that two of them do not write at once.

## 3. Runs

Passing runs:

| run | states | bounds | what it shows |
|---|---|---|---|
| `buffer_codec` | 23 thousand | 3 bytes of memory, 3-bit `size_t`; sizes 1, 2, 6 and 7 | the sums that wrap around, the last byte of a buffer, and codecs set up one after the other on a memory are all reached; refinement of `ByteStream` |
| `discard` | 2.8 million | every stream of at most 5 units of 10 kinds; limits of 2 elements, 1 field, 2 characters and 1 byte | three levels of nesting, and empty, over-limit, truncated, unsupported items at each; end positions and codes are those of the flat definition; termination |
| `collection` | 374 thousand | every stream of at most 4 units, and those of 5 that begin with a pair; limits of 2 | each function, in each mode, with each outcome of each callback; one nested collection and one item behind the collection fit |
| `file_codec` | 1.5 million | pages of 2 bytes, windows of 1 to 3 pages, files up to 9 bytes and one of 12 that is refused, 3 descriptors | reads over up to five windows, failures of each `mmap()`, any order of skips and reads, a window size that is not a power of two, a file larger than `SIZE_MAX`, initializations that fail at each step with other descriptors open or not |
| `scalar` | 372 thousand | bytes of 6 bits, levels of 1 to 4 bytes, the integers and reals around every bound, a buffer of 5 bytes, streams of up to 6 bytes | every pair of an encoding type and a decoding function of the twelve types, each change of width and sign, not-a-number, truncation and refusal at each, in both modes |
| `payload` | 1.5 million | two calls in a row; every stream of at most 3 units and those of 4 to 6 that begin with a string or a binary; limits of 3 characters, 2 for `lvstr`, 2 bytes | all 18 decoding functions with every bounds, a failure at each step, and what the next call finds |
| `encoder` | 330 thousand | buffers of 5, 9 and 13 bytes, nesting of 3, lengths and counts one apart on both sides of each format | every write of every encoding function is refused at some point; a whole message, at any moment, owes a reader what the application has left to encode |
| `map_sample` | 1.5 million | every sample; files cut at every field, read in any number of steps; files of others of two fields of any kind, of three, or announcing up to five; mixtures that go on with one field, cut or whole, or two | round trip through a file that the saving process may leave cut at any time, while it is read; the sample is filled with what was loaded, and its string is freed once |

Why these bounds are enough: the code treats counts, sizes and levels by comparison with a limit and
with zero, and each bound leaves values on both sides of every comparison; recursion and loops are
uniform in depth and index, and two iterations and two levels of nesting, with something
before and behind, tell apart first, middle and last. In `Scalar`, four levels give each width of the code its own.
In `Payload` a second call is enough to find the decoder out of place, and six units hold two items of which the
first has a length, a payload and a null character. In `Encoder` the smallest buffer cuts every function that writes more than a byte,
and the largest holds collections of collections.

Every property is paired in `PROJECT.json` with a seeded fault of the code (a definition of the
same module, commented `Fault seeded in ...`) that violates it in the same run.

Runs that show the code at odds with what the repository says:

| run | statement | what happens |
|---|---|---|
| `array_error_lost` | the callback's error is returned to the caller (`codec.h:245-248`) | in discard mode all elements, not those left, are discarded after it, and the error of this takes over (`array.c:305`) |
| `file_read` | what is decoded is stored in the destination (`bin.h:431`) | a read that begins inside a window and crosses its end leaves a gap and writes past the destination (`file.c:137,148`) |
| `scalar_sign` | `-ENOMSG` or `-ERANGE` for what is not in the type (`scalar.h:182-185`) | a negative `int8` read as unsigned is a success (`scalar.c:113`) |
| `map_mandatory` | all mandatory fields are set (`map_sample.c:214`) | the mask is made of bit numbers, not bits, and is that of an optional field: a sample without mandatory fields is accepted (`map_sample.h:46`) |

Other disagreements are in the models, as the code has them, without a run of their own:

* the items left of a map, two per field, are compared with the maximum number of fields: the callback's error
  becomes `-ENOTSUP`, in either mode (`map.c:464`);
* the range forms discard half of the map they refuse (`map.c:520`, against `map.h:90-91`);
* window sizes that are not powers of two make the mask, and the window's position, wrong
  (`file.c:116`, against the assertion of `file.c:32-34`);
* 128..255 under the `uint8` tag are refused by `dpack_decode_int16()` and wider, and so on for wider tags
  (`scalar.c:595`, against `scalar.h:874-876`);
* the copy of a binary is not freed when the data end early (`bin.c:205`, against `bin.h:235-237`);
* a string longer than the limit is refused with `-ENOTSUP`, where `string.h:306-307` has `-EMSGSIZE`
  (`common.c:541`).

The passing properties are stated around these: `ArrayErrorReturned`, `RejectedLeavesEnd`,
`FieldErrorLeavesEnd`, `AlignedReadStoresAll`, `Released`, `InRangeDecoded`, `NothingInvented`,
`NothingElseLost` and `UnpackedAsPacked` say what the code does keep, and their comments name the case they leave out:
for `Released` these are the descriptors above zero, left open by the initialization that returns them (`file.c:258-260`), and what a
window that could not be moved left mapped (`file.c:198`); for `UnpackedAsPacked`, what was loaded from two saves (`test.c:39,119`).

Deadlock is checked in `buffer_codec`, `encoder`, `map_sample` and `map_mandatory`, where some step is
always possible. Elsewhere the model stops: at the end of the one call of `Collection`, of the one decoding of
`Scalar`, after the last call of `Payload`, in `Discard` after an error the application gives the stream up, in
`FileCodec` after a crash.

**Fairness.** `Discard` alone has a liveness property, `Terminates`. Its `FairSpec` asks for weak
fairness of `Step`, all the steps of a call that is under way: the code is a thread that waits for
nothing, so that it runs on. Nothing is assumed of the application's calls. The other functions are
loops whose count decreases at each step, or straight code.

## 4. Proofs

TLAPS proves, for all values of the constants that satisfy the named assumptions:

* `BufferCodec_proofs` (assumptions: a memory size of at least one that is a `size_t`; requests of at
  least one byte that are `size_t`, as the code asserts):
  * `TypeCorrect`: `[]TypeOK`; `NoOverrun`: `[]CursorsInBounds`. `TypeOK` alone is not inductive: a
    cursor beyond the capacity would make the room left wrap around. The invariant is `IInv ==
    TypeOK /\ CursorsInBounds`, and the key lemma, `FitsMeansRoom`, says that the test of the code,
    overflow included, is the comparison of plain integers.
  * `LeftExact`: the action property `LeftIsExact`, from `IInv` and `LeftInRange` (the subtraction of
    `left` never wraps).
  * `Refinement`: every step is a step or a stutter of `ByteStream`, whose log is the memory
    below the encoder's cursor: the lemmas on `Prefix` say that a store appends to it and leaves its beginning alone.
* `Wire_proofs` (assumptions: positive limits; units are records of a kind and a natural number; no scalar without
  payload; a count embedded in a tag is within its limit), on which four other modules rest:
  * `SkipItems` is a recursive function on the positions of a stream. That the function exists, and so satisfies its own equation,
    is proved first: a solution is built position by position from the end of the stream (`BackwardInduction`). Induction here is over a *set*
    of numbers, by the least one it lacks (`Least`, `Induction`), since the theorems of the library take an operator that no
    prover at hand can instantiate.
  * The equation is then used as four cases, `SkipNone`, `SkipStops`, `SkipInto`, `SkipBlocked`.
  * `SkipStaysInside`: skipping never goes back nor past the end of the stream. `SkipComposes`: skipping *m* items and then *n* is
    skipping *m + n*, first error included. This is what allows a collection to be walked item by item and given up anywhere.
* `Discard_proofs` (assumptions: those of `Wire`; twice the maximum number of fields is an `unsigned int`; counts asked for are
  not zero):
  * `TypeCorrect`: the position never passes the end of the stream and no counter leaves its range.
  * `NoNullLoop`: `[]LoopsAlive`, no loop runs with a null count, so that `--nr` never wraps around.
  * `BoundedDepth`: `[]DepthBounded`, the recursion is never deeper than the units consumed since the call.
    It is not inductive: a collection pushes a loop without consuming more than its tag. `DepthByPlace`
    adds that between the reading of a tag and the push there is one unit in hand, and that no
    loop is active outside a call. `IInv` is the conjunction of the four.
  * `LayoutFollowed`: `[]AgreesWithLayout`, the recursive code comes to the flat definition. The invariant `Layout` says that
    at each place in the code, skipping from where the decoder stands all that the loops on the stack still have to discard comes to what
    the whole call has to come to.
* `Collection_proofs` (assumptions: those of `Wire`, and `CountsAssumption`: a count of the stream is an `unsigned int`):
  * `ErrorReturned`: `[]ArrayErrorReturned`. The error goes to the label `discard`, which replaces it when the
    count is over the limit: the invariant adds that the count of an array that is walked with callbacks is within it,
    because the bounds of the request are.
  * `TypeCorrect`, `DecodedWhole` (`[]DecodesWhole`), `CountEndAtEnd`, `RejectedAtEnd`, `FieldErrorAtEnd`: where the functions leave the
    decoder. The invariant `Positions` relates, at each place in the code, the position, the index and the count left: the decoder is past
    as many items of the collection as were counted off, one more at each callback by `SkipComposes` (`Placed`), and what a call returned
    agrees with where it ended (`Outcomes`).
* `FileCodec_proofs` (assumptions: a positive page size, and `BitAndAssumption`: a bitwise and with the mask of a
  window lies between zero and either operand; nothing says that the window is a power of two):
  * `TypeCorrect`, `Atomic` (`[]AllOrNothing`), `WindowKnown` (`[]WindowTracked`), `AlignedReadCorrect`
    (`[]AlignedReadStoresAll`), `ResourcesReleased` (`[]Released`: what is open is the decoder's descriptor and those that an
    initialization returned as errors, no other). The invariant says how far a read has got
    at each of its steps: once the first chunk is copied, the position of the window that is mapped, its size
    and what is left to read add up (`AfterFirst`), and when the read began on a border of a window, what was copied is the
    beginning of what was asked for, whole (`Stored`).
* `Payload_proofs` (assumptions: those of `Wire`):
  * `BlocksKept` (`[]NothingElseLost`): the invariant accounts for each block by the entry of its
    call in the log: of a call that is over, it is held or lost as its outcome says, and the one in use is that of
    the call under way (`Holding`, `Accounted`).
  * `NoOverrun` (`[]WrittenInside`): the room is one more than the length for a string that is copied, as many
    for a binary, and the bounds of a copy to the caller's memory leave room for the terminator (`Legal`, `Room`).
  * `TypeCorrect`, `Intactness` (`[]DecodedIntact`), `StaysInStep` (`[]InStep`): the invariant, `InPlace`, says which item of the stream the call
    under way is at, and that each step leaves the decoder on a border of that item that its `pc` names; the whole item is
    then one more for `SkipComposes`.
* `RoundTrip_proofs`, for `Scalar` (assumptions: a byte has a multiple of 8 values; the four widths increase from one byte; the
  tags have their places between the two ranges of tags that are integers; what is encoded as a real is a double). The
  code has 256, (1, 2, 4, 8) and `0xcc` for the first of the tags:
  * `UnsignedBytes`: the bytes of an integer, read back, are the integer modulo the number of values of their width, and `RealRoundTrip`, the
    same for floats and doubles. Both are inductions over the number of bytes, which the sets of `NatSet` and `UpTo` stand for; the arithmetic,
    which is not linear, is reduced to a few lemmas on division (`DividesAs`, `DividesTwice`, `RestTwice`) where products are opaque.
  * `ScalarTypeCorrect`, `ScalarEncodedWhole` (`[]EncodedWhole`), `ScalarInRangeDecoded` (`[]InRangeDecoded`), `ScalarNothingInvented`
    (`[]NothingInvented`), `ScalarRefusedLeavesEnd` (`[]RefusedLeavesEnd`). The invariant, `ScalarInv`, is their conjunction and `NotCalled`: the last
    three are about the outcome of a call in the stream of that call, which does not change any more once decoding has begun. `Correct(type, o, p)` says
    that the outcome `o` is right for a function of `type` at position `p`; it is shown of the functions of 8 bits, tag by tag, then of each
    level from the level below (`LevelRight`), then of reals, booleans and nil. On the encoding side, `Writes(writes, n)` says that what a function writes is
    a tag and a payload that stand for `n`, or one byte that does: shown of each of the twelve functions, level by level, it makes
    `EncodeKeeps` one proof for all, the items before being left as they are by a buffer that grows (`LongerStream`).
* `RoundTrip_proofs`, for `MapSample` (assumptions: the files of others, and what a mixture goes on with, are of any content and length; they
  are not made of a sample packed here):
  * `FilledCorrectly` (`[]FilledFromMessage`): the fields read so far and those filled correspond one to one
    (`AllFilled`, `ReadOnce`, `Counted`), which a repeated field would break.
  * `StringsFreed` (`[]StringFreed`), which needs that unpacking never borrows a string (`NoneLent`), or its release would not free it;
    `TypeCorrect`.
  * `UnpackedFaithfully` (`[]UnpackedAsPacked`): the second invariant, `Shared`, is about both processes. The file is the beginning of what was packed,
    whenever the saving process stopped, and so is what `fread()` got of it, step by step, as long as the file was not truncated
    (`PrefixSaved`, `ExtendedSaved`); so the fields read are those packed, in order and once each,
    and the number announced, which is written first, tells a whole message from a cut one. What was loaded from two saves
    is of no sample (`MixedSaved`), and the statement is not about it.
* `Encoder_proofs` (assumptions: those of `Wire` and `Encoder`, among which: the thresholds between the formats of a kind are in
  order, `lvstr` strings are within the limit of strings, and an integer is a tag and at most 8 bytes; the limits of the build
  are positive, on either side of the thresholds, so that the code's own constants are an instance):
  * `TypeCorrect`, `SizesTold` (`[]SizesAnnounced`), `CutNoticed` (`[]CutIsNoticed`), `MessageReadsBack` (`[]ReadsBack`). None of them is inductive.
    The invariant is `Inv == TypeOK /\ Framed /\ Balance /\ Announced`. `Balance` says that a decoder which
    skips what was written misses a number of items, `Pending`, and that this number is the one that the collections begun still owe
    (`Owed`); `Framed`, that the data of each collection
    begins behind its header, within what was written, from which the size announced for the whole collection follows at its end. Each encoding function is
    shown, write by write, to change both numbers alike when it goes through, and to leave `Pending` above zero at each write that may be refused,
    which is `CutNoticed`. `ReadsBack` then follows by `SkipComposes`, the missing items being appended.
    The sums over writes are recursive functions, and are treated as `SkipItems` is.

Every property that a passing run checks on a small instance is so proved for all instances, with one exception: `Terminates` of `Discard`
is a liveness property, whose proof needs `ENABLED` and fairness, and is model-checked only. The properties of the four runs that expect a
violation are false of the code, and have no theorem.

## 5. Not modelled

* `fix_sample` and `scalar_array_sample`: they call, one after the other, functions that `Scalar` and `Collection` have, and
  return the first error; no state of their own goes beyond the structure.
* Bytes of payloads in `Wire` and `Encoder`, beyond null or not: no property tells them apart there; `BufferCodec` and `Scalar` have theirs.
* Two processes that save at the same time, and what a mixture of two saves is made of.
* Assertions that abort. Builds without some of the types (`CONFIG_DPACK_...`).
* Unit tests, build files, generated configurations and documentation: no behaviour at run time.

## 6. Plan

1. `scalar_array_sample` on `Scalar` and `Collection`, unpacked into an array of fixed size.
2. A model of `Payload` and of `Scalar` side by side on one stream, to join the two theorems on what is decoded in a mixed collection.
