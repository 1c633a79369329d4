------------------------------ MODULE FileCodec ------------------------------
(***************************************************************************)
(* The file decoder of src/src/file.c: a decoder whose data are the bytes  *)
(* of a file, seen through a window of msize bytes that mmap() moves along *)
(* the file.                                                               *)
(*                                                                         *)
(* A byte is known by its position in the file.  The model is that of a    *)
(* build without assertions: what dpack_assert_api() and                   *)
(* dpack_assert_intern() say is stated as properties.                      *)
(***************************************************************************)
EXTENDS Integers

CONSTANTS
    PageSize,       \* stroll_page_size()
    FileSizes,      \* the sizes of the files
    MapSizes,       \* the values of the argument map_size
    SizeMax,        \* SIZE_MAX
    OffMax,         \* OFF_MAX, where off_t additions overflow
    Descriptors,    \* the file descriptors that open() may give
    BitAnd(_, _)    \* the operator & on machine words

ASSUME SizesAssumption ==
    /\ PageSize \in Nat \ {0}
    /\ FileSizes \subseteq Nat /\ MapSizes \subseteq Nat \ {0}
    /\ SizeMax \in Nat /\ OffMax \in Nat
    /\ Descriptors \subseteq Nat /\ 0 \in Descriptors

\* stroll_align_upper(), stroll_min()
AlignUpper(n, align) == ((n + align - 1) \div align) * align
Least(m, n) == IF m < n THEN m ELSE n

\* The sizes that a file may be mapped with, and the size of the window.
Mappable == FileSizes \cap 1 .. SizeMax
Window(size, mapSize) == AlignUpper(Least(mapSize, size), PageSize)

\* What BitAnd must have of the machine operator: it clears bits of its operands.
ASSUME BitAndAssumption ==
    \A size \in Mappable, mapSize \in MapSizes : \A offset \in 0 .. size :
        LET msk == Window(size, mapSize) - 1 IN
        BitAnd(offset, msk) \in 0 .. Least(offset, msk)

VARIABLES
    pc,         \* "none" when no decoder is initialized, "ready" between two
                \* calls, or where dpack_decoder_file_read() has got to
    foff, moff, fsize, msize,   \* the fields of the decoder
    map,        \* decoder->map: "valid", or "failed" for MAP_FAILED
    area,       \* the position of the file that is mapped, or Nowhere
    fds,        \* the descriptors opened by the initializations, and not closed
    told,       \* ghost: the descriptors that an initialization returned
    want,       \* read: the local variable `size'
    base,       \* read: the local variable `moff'
    dest,       \* read: how far `data' is from the destination
    ret,        \* what the last call returned
    from,       \* ghost: foff when the last call began
    asked,      \* ghost: the size it was given
    copied      \* ghost: what it copied: pairs of a position in the
                \* destination and a byte

decoder == <<foff, moff, fsize, msize>>
mapping == <<map, area>>
files == <<fds, told>>
locals == <<want, base, dest>>
ghosts == <<from, asked, copied>>
vars == <<pc, decoder, mapping, files, locals, ret, ghosts>>

Nowhere == -1

\* decoder->fd: the one descriptor that _dpack_decoder_init_file_at() goes on with.
DecoderFd == 0

\* `offset & msk' and `offset & ~msk', for the mask msz - 1
InWindow(offset) == BitAnd(offset, msize - 1)
WindowBase(offset) == offset - InWindow(offset)

-----------------------------------------------------------------------------
(* _dpack_decoder_init_file_at() *)

Init ==
    /\ pc = "none"
    /\ foff = 0 /\ moff = 0 /\ fsize = 0 /\ msize = 0
    /\ map = "valid" /\ area = Nowhere
    /\ fds = {} /\ told = {}
    /\ want = 0 /\ base = 0 /\ dest = 0
    /\ ret = "OK"
    /\ from = 0 /\ asked = 0 /\ copied = {}

\* ufile_open_at() fails and its error is returned.  When it succeeds, what is
\* not zero is returned too: the decoder is left uninitialized, and the file open.
InitNotOpened ==
    /\ pc = "none"
    /\ \/ ret' = "ENOENT" /\ UNCHANGED files
       \/ \E fd \in Descriptors \ (fds \cup {DecoderFd}) :
            ret' = "FD" /\ fds' = fds \cup {fd} /\ told' = told \cup {fd}
    /\ UNCHANGED <<pc, decoder, mapping, locals, ghosts>>

\* Fault seeded in InitFails: the label `close' is not reached.
InitFailsOpen(code) ==
    /\ ret' = code
    /\ fds' = fds \cup {DecoderFd}
    /\ UNCHANGED <<pc, told, decoder, mapping, locals, ghosts>>

\* The descriptor zero was opened, and is closed again.
InitFails(code) ==
    /\ ret' = code
    /\ UNCHANGED <<pc, decoder, mapping, files, locals, ghosts>>

InitRejected(size) ==
    /\ pc = "none"
    /\ \/ InitFails("EIO")                              \* ufile_fstat()
       \/ size = 0 /\ InitFails("ENODATA")
       \/ size > SizeMax /\ InitFails("EOVERFLOW")
       \/ size \in Mappable /\ InitFails("ENOMEM")    \* mmap()

InitAccepted(size, mapSize) ==
    /\ pc = "none"
    /\ size \in Mappable
    /\ pc' = "ready"
    /\ foff' = 0 /\ moff' = 0
    /\ fsize' = size
    /\ msize' = Window(size, mapSize)
    /\ map' = "valid" /\ area' = 0
    /\ fds' = fds \cup {DecoderFd}
    /\ ret' = "OK"
    /\ from' = 0 /\ asked' = 0 /\ copied' = {}
    /\ UNCHANGED <<told, locals>>

-----------------------------------------------------------------------------
(* dpack_decoder_file_left(), and the bounds of reading and skipping *)

Left == fsize - foff

Fits(size) == foff + size <= OffMax /\ foff + size <= fsize

\* A call begins, and ends at once with the return code `code'.
Ends(size, code) ==
    /\ pc = "ready"
    /\ ret' = code
    /\ from' = foff /\ asked' = size /\ copied' = {}
    /\ UNCHANGED <<pc, moff, fsize, msize, mapping, files, locals>>

\* Fault seeded in Skip: the position is not compared with the size of the file.
SkipUnchecked(size) ==
    \/ foff + size <= OffMax /\ foff' = foff + size /\ Ends(size, "OK")
    \/ foff + size > OffMax /\ Ends(size, "ENODATA") /\ UNCHANGED foff

\* dpack_decoder_file_skip(): the window stays where it is.
Skip(size) ==
    \/ Fits(size) /\ foff' = foff + size /\ Ends(size, "OK")
    \/ ~Fits(size) /\ Ends(size, "ENODATA") /\ UNCHANGED foff

ReadRefused(size) ==
    /\ ~Fits(size)
    /\ Ends(size, "ENODATA")
    /\ UNCHANGED foff

-----------------------------------------------------------------------------
(* dpack_decoder_file_read(), between its calls to dpack_decoder_file_remap() *)

\* Fault seeded in ReadBegin: the position is moved before the data are there.
ReadBeginMoved(size) ==
    /\ pc = "ready"
    /\ Fits(size)
    /\ pc' = "first"
    /\ want' = size /\ base' = WindowBase(foff) /\ dest' = 0
    /\ from' = foff /\ asked' = size /\ copied' = {}
    /\ foff' = foff + size
    /\ UNCHANGED <<moff, fsize, msize, mapping, files, ret>>

ReadBegin(size) ==
    /\ pc = "ready"
    /\ Fits(size)
    /\ pc' = "first"
    /\ want' = size /\ base' = WindowBase(foff) /\ dest' = 0
    /\ from' = foff /\ asked' = size /\ copied' = {}
    /\ UNCHANGED <<decoder, mapping, files, ret>>

\* memcpy() of n bytes at position `start' of the window at `window'
Bytes(target, window, start, n) ==
    { <<target + i, window + start + i>> : i \in 0 .. n - 1 }

\* dpack_decoder_file_remap() succeeds: the window shows the file at `offset'.
Remapped(offset) ==
    /\ map = "valid"
    /\ area' = offset
    /\ UNCHANGED map

FirstChunk == Least(want, msize - InWindow(foff))

\* Fault seeded in WindowMoves: the window moves forward only.
WindowMovesForward == base > moff + msize

WindowMoves == base # moff

\* The first chunk is in the window that is mapped already, or in another one.
CopyFirst ==
    /\ pc = "first" /\ map = "valid"
    /\ IF WindowMoves THEN Remapped(base) ELSE UNCHANGED mapping
    /\ copied' = Bytes(0, area', InWindow(foff), FirstChunk)
    /\ want' = want - FirstChunk
    /\ pc' = "next"
    /\ UNCHANGED <<decoder, files, base, dest, ret, from, asked>>

\* The loop: a whole window.
CopyWindow ==
    /\ pc = "next" /\ want >= msize
    /\ Remapped(base + msize)
    /\ base' = base + msize
    /\ dest' = dest + msize
    /\ copied' = copied \cup Bytes(dest', area', 0, msize)
    /\ want' = want - msize
    /\ UNCHANGED <<pc, decoder, files, ret, from, asked>>

\* What is left, at the beginning of one more window.
CopyLast ==
    /\ pc = "next" /\ want > 0 /\ want < msize
    /\ Remapped(base + msize)
    /\ base' = base + msize
    /\ copied' = copied \cup Bytes(dest + msize, area', 0, want)
    /\ want' = 0
    /\ UNCHANGED <<pc, decoder, files, dest, ret, from, asked>>

\* mmap() fails in dpack_decoder_file_remap(): whether the pages it was going to
\* replace are still there depends on how far it went.
RemapFails ==
    /\ \/ pc = "first" /\ WindowMoves
       \/ pc = "next" /\ want > 0
    /\ \/ map = "valid" /\ ret' = "ENOMEM" /\ area' \in {area, Nowhere}
       \/ map = "failed" /\ ret' = "EINVAL" /\ UNCHANGED area
    /\ map' = "failed"
    /\ pc' = "ready"
    /\ UNCHANGED <<decoder, files, locals, ghosts>>

\* memcpy() from MAP_FAILED
Crash ==
    /\ pc = "first" /\ map = "failed" /\ ~WindowMoves
    /\ pc' = "crashed"
    /\ UNCHANGED <<decoder, mapping, files, locals, ret, ghosts>>

\* Fault seeded in ReadDone: the position of the window is not recorded.
ReadDoneUnrecorded ==
    /\ pc = "next" /\ want = 0
    /\ pc' = "ready"
    /\ foff' = foff + asked
    /\ ret' = "OK"
    /\ UNCHANGED <<moff, fsize, msize, mapping, files, locals, ghosts>>

ReadDone ==
    /\ pc = "next" /\ want = 0
    /\ pc' = "ready"
    /\ foff' = foff + asked
    /\ moff' = base
    /\ ret' = "OK"
    /\ UNCHANGED <<fsize, msize, mapping, files, locals, ghosts>>

-----------------------------------------------------------------------------
(* dpack_decoder_file_fini() *)

\* munmap() fails on MAP_FAILED.
Unmapped ==
    \/ map = "valid" /\ area' = Nowhere /\ UNCHANGED map
    \/ map = "failed" /\ UNCHANGED mapping

\* When munmap() succeeds, what decides between the return code of ufile_close()
\* and some other value is a local variable that was never assigned.
Fini ==
    /\ pc = "ready"
    /\ pc' = "none"
    /\ Unmapped
    /\ fds' = fds \ {DecoderFd}
    /\ IF map = "valid" THEN ret' \in {"OK", "EIO", "GARBAGE"} ELSE ret' = "EINVAL"
    /\ UNCHANGED <<told, decoder, locals, ghosts>>

Next ==
    \/ InitNotOpened
    \/ \E size \in FileSizes : InitRejected(size)
    \/ \E size \in FileSizes, mapSize \in MapSizes : InitAccepted(size, mapSize)
    \/ \E size \in 1 .. fsize + 1 : Skip(size) \/ ReadRefused(size) \/ ReadBegin(size)
    \/ CopyFirst \/ CopyWindow \/ CopyLast \/ RemapFails \/ Crash \/ ReadDone
    \/ Fini

Spec == Init /\ [][Next]_vars

-----------------------------------------------------------------------------
(* Properties *)

\* Every variable has its type: the positions stay within the file, and what
\* the loop of a read has left to do is never negative.
TypeOK ==
    /\ pc \in {"none", "ready", "first", "next", "crashed"}
    /\ fsize \in FileSizes \cup {0} /\ fsize <= SizeMax
    /\ msize \in Nat /\ msize % PageSize = 0
    /\ foff \in 0 .. fsize
    /\ moff \in 0 .. foff
    /\ map \in {"valid", "failed"}
    /\ area \in Nat \cup {Nowhere}
    /\ fds \subseteq Descriptors /\ told \subseteq Descriptors
    /\ {want, base, dest, from, asked} \subseteq Nat
    /\ ret \in {"OK", "FD", "ENOENT", "EIO", "ENODATA", "EOVERFLOW", "ENOMEM", "EINVAL",
               "GARBAGE"}
    /\ copied \subseteq (Nat \X Nat)

\* A call that fails leaves the decoder where it was, wherever in the course of a
\* read the window could not be moved; one that succeeds moves it past exactly
\* what it was asked for.
AllOrNothing ==
    pc = "ready" => foff = from + (IF ret = "OK" THEN asked ELSE 0)

\* Between two calls the window shows the part of the file that decoder->moff
\* says ("Current offset of data mapping window base from start of file.",
\* codec.h:490), after any sequence of skips, reads and failures: the next read
\* relies on it to leave the window where it is (file.c:122).
WindowTracked == pc = "ready" /\ map = "valid" => area = moff

\* The bytes of the file from position `from' on, at the destination.
Expected == { <<i, from + i>> : i \in 0 .. asked - 1 }

HasRead == pc = "next" /\ want = 0

\* A read that stays within one window, or begins at the beginning of one, stores
\* the bytes of the file that follow the position of the decoder, whatever window
\* was mapped before.
AlignedReadStoresAll ==
    HasRead /\ (InWindow(foff) = 0 \/ InWindow(foff) + asked <= msize) =>
        copied = Expected

\* Of all the initializations and finalizations so far, what is still open is the
\* descriptor of the decoder while there is one, and the descriptors above zero: of
\* these each was returned by the initialization that opened it, in place of an
\* error code (file.c:258-260), which is the one failure that leaves the file open.
\* Without a decoder nothing is mapped, except what a window that could not be
\* moved left there (munmap() of MAP_FAILED, file.c:198).
Released ==
    /\ fds = IF pc = "none" THEN told ELSE told \cup {DecoderFd}
    /\ DecoderFd \notin told
    /\ pc = "none" /\ map = "valid" => area = Nowhere

\* Claimed by the documentation of the decoding functions (scalar.h, string.h,
\* bin.h): one that returns success has stored the value decoded, that is, a
\* read stores the bytes that follow the position of the decoder.
ReadStoresAll == HasRead => copied = Expected
=============================================================================
