--------------------------- MODULE FileCodec_proofs ---------------------------
(***************************************************************************)
(* Theorems about FileCodec, for every page size, every size of files and  *)
(* windows, and every machine operator & that clears bits.                 *)
(***************************************************************************)
EXTENDS FileCodec, TLAPS

-----------------------------------------------------------------------------
(* The inductive invariant: TypeOK, and what each place of a read relies on. *)

\* The window of a decoder was computed from the size of its file.
Mapped ==
    pc # "none" =>
        /\ fsize \in Mappable
        /\ \E mapSize \in MapSizes : msize = Window(fsize, mapSize)

\* A read that is under way stays within the file and moves nothing yet.
Reading == pc \in {"first", "next", "crashed"}
ReadWithin == Reading => from = foff /\ foff + asked <= fsize

\* Before the first chunk nothing is read, and the window needed is known.
BeforeFirst == pc = "first" => want = asked /\ base = WindowBase(foff) /\ dest = 0

\* After it the window is the one of `base', and when something is left, what was
\* read ends with it.
AfterFirst ==
    pc = "next" =>
        /\ map = "valid" /\ area = base
        /\ want <= asked
        /\ IF want > 0 THEN base + msize = foff + asked - want ELSE base <= foff + asked

\* Before a read moves the window, it is where the decoder says.
Shown == pc \in {"ready", "first"} /\ map = "valid" => area = moff

\* The bytes of the file from position f on, at the destination.
FromOn(f, n) == { <<i, f + i>> : i \in 0 .. n - 1 }

\* The bytes a read has copied, when it is one that is stored in its place.
Aligned == InWindow(foff) = 0 \/ InWindow(foff) + asked <= msize
Done == FromOn(from, asked - want)
Stored ==
    pc = "next" /\ Aligned =>
        copied = Done /\ (want > 0 => dest + msize = asked - want)

IInv ==
    /\ TypeOK /\ AllOrNothing /\ WindowTracked /\ Released
    /\ Mapped /\ ReadWithin /\ BeforeFirst /\ AfterFirst /\ Shown /\ Stored

-----------------------------------------------------------------------------
(* Facts about the constants, alignment and the window. *)

LEMMA Constants ==
    /\ PageSize \in Nat /\ PageSize > 0
    /\ SizeMax \in Nat /\ OffMax \in Nat
    /\ \A size \in FileSizes : size \in Nat
    /\ \A mapSize \in MapSizes : mapSize \in Nat /\ mapSize > 0
BY SizesAssumption

\* What is aligned is a multiple, and no less than what it was aligned from.
LEMMA MultipleModulo ==
    ASSUME NEW q \in Nat, NEW b \in Nat, b > 0
    PROVE  (q * b) % b = 0
OBVIOUS

LEMMA AlignedUpper ==
    ASSUME NEW n \in Nat, n > 0
    PROVE  /\ AlignUpper(n, PageSize) \in Nat
           /\ AlignUpper(n, PageSize) > 0
           /\ AlignUpper(n, PageSize) % PageSize = 0
<1> DEFINE q == (n + PageSize - 1) \div PageSize
<1>1. q \in Nat /\ q > 0
  BY Constants
<1>2. q * PageSize \in Nat /\ q * PageSize > 0
  BY <1>1, Constants
<1>3. (q * PageSize) % PageSize = 0
  BY <1>1, Constants, MultipleModulo
<1> QED
  BY <1>2, <1>3 DEF AlignUpper

LEMMA WindowSize ==
    ASSUME NEW size \in Mappable, NEW mapSize \in MapSizes
    PROVE  /\ Window(size, mapSize) \in Nat
           /\ Window(size, mapSize) > 0
           /\ Window(size, mapSize) % PageSize = 0
<1>1. Least(mapSize, size) \in Nat /\ Least(mapSize, size) > 0
  BY Constants DEF Mappable, Least
<1> QED
  BY <1>1, AlignedUpper DEF Window

\* Where a position is in its window, and where that window is.
LEMMA InWindowBounds ==
    ASSUME TypeOK, Mapped, pc # "none"
    PROVE  /\ msize \in Nat /\ msize > 0
           /\ InWindow(foff) \in 0 .. foff /\ InWindow(foff) < msize
           /\ WindowBase(foff) \in 0 .. foff
<1>1. PICK mapSize \in MapSizes : msize = Window(fsize, mapSize)
  BY DEF Mapped
<1>2. fsize \in Mappable /\ foff \in 0 .. fsize /\ fsize \in Nat
  BY Constants DEF Mapped, TypeOK, Mappable
<1>3. msize \in Nat /\ msize > 0
  BY <1>1, <1>2, WindowSize
<1>4. BitAnd(foff, msize - 1) \in 0 .. Least(foff, msize - 1)
  BY <1>1, <1>2, BitAndAssumption
<1> QED
  BY <1>2, <1>3, <1>4 DEF InWindow, WindowBase, Least

-----------------------------------------------------------------------------
(* Each step preserves the invariant. *)

LEMMA InitIInv == Init => IInv
BY Constants DEF Init, IInv, TypeOK, AllOrNothing, WindowTracked, Released, files, DecoderFd, Mapped,
   ReadWithin, Reading, BeforeFirst, AfterFirst, Shown, Stored, Nowhere

\* Initializing moves nothing, but a decoder that is set up shows the first window.
LEMMA InitKeeps ==
    ASSUME IInv,
           \/ InitNotOpened
           \/ \E size \in FileSizes : InitRejected(size)
           \/ \E size \in FileSizes, mapSize \in MapSizes : InitAccepted(size, mapSize)
    PROVE  IInv'
<1> USE DEF IInv, TypeOK, AllOrNothing, WindowTracked, Released, files, DecoderFd, Mapped,
            ReadWithin, Reading, BeforeFirst, AfterFirst, Shown, Stored, Nowhere
<1>1. CASE InitNotOpened
  BY <1>1 DEF InitNotOpened, decoder, mapping, locals, ghosts
<1>2. CASE \E size \in FileSizes : InitRejected(size)
  BY <1>2 DEF InitRejected, InitFails, decoder, mapping, locals, ghosts
<1>3. ASSUME NEW size \in FileSizes, NEW mapSize \in MapSizes, InitAccepted(size, mapSize)
      PROVE  IInv'
  <2>1. size \in Mappable /\ size \in Nat /\ size <= SizeMax
    BY <1>3, Constants DEF InitAccepted, Mappable
  <2>2. msize' = Window(size, mapSize) /\ fsize' = size /\ pc' = "ready"
    BY <1>3 DEF InitAccepted
  <2>3. msize' \in Nat /\ msize' % PageSize = 0
    BY <2>1, <2>2, WindowSize
  <2>4. TypeOK'
    BY <1>3, <2>1, <2>2, <2>3, SizesAssumption DEF InitAccepted, locals
  <2>5. Mapped'
    BY <2>1, <2>2
  <2> QED
    BY <1>3, <2>2, <2>4, <2>5 DEF InitAccepted
<1> QED
  BY <1>1, <1>2, <1>3

\* Skipping moves the position within the file and leaves the window behind.
LEMMA SkipKeeps ==
    ASSUME IInv, NEW size \in 1 .. fsize + 1, Skip(size) \/ ReadRefused(size)
    PROVE  IInv'
<1> USE DEF IInv, TypeOK, AllOrNothing, WindowTracked, Released, files, DecoderFd, Mapped,
            ReadWithin, Reading, BeforeFirst, AfterFirst, Shown, Stored, Nowhere
<1>1. fsize \in Nat /\ size \in Nat /\ foff \in Nat /\ moff \in Nat
  BY Constants
<1>2. \E code \in {"OK", "ENODATA"} :
        /\ Ends(size, code)
        /\ IF code = "OK" THEN foff' = foff + size /\ foff + size <= fsize ELSE foff' = foff
  BY DEF Skip, ReadRefused, Fits
<1>3. TypeOK'
  BY <1>1, <1>2 DEF Ends, mapping, locals
<1> QED
  BY <1>1, <1>2, <1>3 DEF Ends, mapping, locals

LEMMA ReadBeginKeeps ==
    ASSUME IInv, NEW size \in 1 .. fsize + 1, ReadBegin(size)
    PROVE  IInv'
<1> USE DEF IInv, TypeOK, AllOrNothing, WindowTracked, Released, files, DecoderFd, Mapped,
            ReadWithin, Reading, BeforeFirst, AfterFirst, Shown, Stored, Nowhere
<1>1. fsize \in Nat /\ size \in Nat /\ foff \in Nat /\ pc = "ready"
  BY Constants DEF ReadBegin
<1>2. WindowBase(foff) \in 0 .. foff
  BY <1>1, InWindowBounds
<1>3. WindowBase(foff)' = WindowBase(foff)
  BY DEF ReadBegin, decoder, WindowBase, InWindow
<1>4. TypeOK'
  BY <1>1, <1>2 DEF ReadBegin, decoder, mapping
<1> QED
  BY <1>1, <1>2, <1>3, <1>4 DEF ReadBegin, decoder, mapping, Fits

\* A failure to move the window, a crash and a finalization keep the position.
LEMMA FailureKeeps ==
    ASSUME IInv, RemapFails \/ Crash \/ Fini
    PROVE  IInv'
<1> USE DEF IInv, TypeOK, AllOrNothing, WindowTracked, Released, files, DecoderFd, Mapped,
            ReadWithin, Reading, BeforeFirst, AfterFirst, Shown, Stored, Nowhere
<1>1. CASE RemapFails
  <2>1. TypeOK' /\ pc \in {"first", "next"}
    BY <1>1 DEF RemapFails, decoder, locals, ghosts
  <2> QED
    BY <1>1, <2>1 DEF RemapFails, decoder, locals, ghosts
<1>2. CASE Crash
  BY <1>2 DEF Crash, decoder, mapping, locals, ghosts
<1>3. CASE Fini
  <2>1. TypeOK'
    BY <1>3 DEF Fini, Unmapped, decoder, mapping, locals, ghosts
  <2> QED
    BY <1>3, <2>1 DEF Fini, Unmapped, decoder, mapping, locals, ghosts
<1> QED
  BY <1>1, <1>2, <1>3

-----------------------------------------------------------------------------
(* The steps of a read that copy. *)

\* What memcpy() writes are pairs of naturals.
LEMMA BytesType ==
    ASSUME NEW target \in Nat, NEW window \in Nat, NEW start \in Nat, NEW n \in Nat
    PROVE  Bytes(target, window, start, n) \subseteq Nat \X Nat
BY DEF Bytes

\* A chunk that follows what was copied, from the byte that follows it, extends it.
LEMMA Extended ==
    ASSUME NEW c \in Nat, NEW n \in Nat, NEW f \in Nat, NEW w \in Nat, w = f + c
    PROVE  FromOn(f, c) \cup Bytes(c, w, 0, n) = FromOn(f, c + n)
<1> DEFINE before == FromOn(f, c)
           after == FromOn(f, c + n)
<1> USE DEF FromOn
<1>1. ASSUME NEW p \in before PROVE p \in after
  OBVIOUS
<1>2. ASSUME NEW p \in Bytes(c, w, 0, n) PROVE p \in after
  <2>1. PICK i \in 0 .. n - 1 : p = <<c + i, w + 0 + i>>
    BY DEF Bytes
  <2>2. c + i \in 0 .. c + n - 1 /\ w + 0 + i = f + (c + i)
    OBVIOUS
  <2> QED
    BY <2>1, <2>2
<1>3. ASSUME NEW p \in after PROVE p \in before \cup Bytes(c, w, 0, n)
  <2>1. PICK i \in 0 .. c + n - 1 : p = <<i, f + i>>
    OBVIOUS
  <2>2. CASE i < c
    BY <2>1, <2>2
  <2>3. CASE i >= c
    <3>1. i - c \in 0 .. n - 1 /\ c + (i - c) = i /\ w + 0 + (i - c) = f + i
      BY <2>3
    <3> QED
      BY <2>1, <3>1 DEF Bytes
  <2> QED
    BY <2>2, <2>3
<1> QED
  BY <1>1, <1>2, <1>3

\* The first chunk ends with the read or with its window.
LEMMA CopyFirstKeeps ==
    ASSUME IInv, CopyFirst
    PROVE  IInv'
<1> DEFINE start == InWindow(foff)
           chunk == FirstChunk
<1>1. /\ pc = "first" /\ map = "valid" /\ want = asked /\ base = WindowBase(foff) /\ dest = 0
      /\ from = foff /\ foff + asked <= fsize
      /\ foff \in Nat /\ asked \in Nat /\ fsize \in Nat /\ moff \in Nat
  BY Constants DEF CopyFirst, IInv, TypeOK, BeforeFirst, ReadWithin, Reading
<1>2. /\ msize \in Nat /\ msize > 0
      /\ start \in 0 .. foff /\ start < msize /\ base = foff - start /\ base \in Nat
  BY <1>1, InWindowBounds DEF IInv, WindowBase
<1>3. chunk \in Nat /\ chunk <= asked /\ chunk <= msize - start
      /\ (chunk < asked => chunk = msize - start)
  BY <1>1, <1>2 DEF FirstChunk, Least
<1>4. /\ UNCHANGED <<foff, moff, fsize, msize, base, dest, from, asked, fds, told, ret>>
      /\ want' = asked - chunk /\ pc' = "next" /\ map' = "valid"
      /\ copied' = Bytes(0, area', start, chunk)
      /\ area' = base
  <2>1. CASE WindowMoves
    BY <1>1, <2>1 DEF CopyFirst, files, Remapped, decoder
  <2>2. CASE ~WindowMoves
    BY <1>1, <2>2 DEF CopyFirst, files, WindowMoves, mapping, decoder, IInv, Shown
  <2> QED
    BY <2>1, <2>2
<1>5. copied' \subseteq Nat \X Nat
  BY <1>2, <1>3, <1>4, BytesType
<1>6. TypeOK'
  BY <1>2, <1>3, <1>4, <1>5 DEF IInv, TypeOK
<1>7. copied' = FromOn(foff, chunk)
  <2>1. \A i \in 0 .. chunk - 1 : <<0 + i, base + start + i>> = <<i, foff + i>>
    BY <1>1, <1>2, <1>3
  <2> QED
    BY <1>4, <2>1 DEF Bytes, FromOn
<1>8. Stored'
  <2>1. copied' = Done'
    BY <1>1, <1>3, <1>4, <1>7 DEF Done
  <2>2. ASSUME Aligned', want' > 0 PROVE dest' + msize' = asked' - want'
    <3>1. start = 0 \/ start + asked <= msize
      BY <1>4, <2>2 DEF Aligned, InWindow
    <3>2. start = 0 /\ chunk = msize /\ dest' = 0
      BY <1>1, <1>2, <1>3, <1>4, <2>2, <3>1
    <3> QED
      BY <1>1, <1>2, <1>3, <1>4, <3>2
  <2> QED
    BY <2>1, <2>2 DEF Stored
<1> QED
  BY <1>1, <1>2, <1>3, <1>4, <1>6, <1>8
     DEF IInv, AllOrNothing, WindowTracked, Released, files, DecoderFd, Mapped,
         ReadWithin, Reading, BeforeFirst, AfterFirst, Shown

\* The loop reads one more window, the one that follows.
LEMMA CopyWindowKeeps ==
    ASSUME IInv, CopyWindow
    PROVE  IInv'
<1>1. /\ pc = "next" /\ map = "valid" /\ want >= msize /\ want <= asked
      /\ from = foff /\ foff + asked <= fsize
      /\ {foff, asked, fsize, want, base, dest} \subseteq Nat
      /\ msize \in Nat /\ msize > 0
      /\ base + msize = foff + asked - want
  <2>1. pc = "next" /\ {foff, asked, fsize, want, base, dest} \subseteq Nat
    BY Constants DEF CopyWindow, IInv, TypeOK
  <2>2. msize \in Nat /\ msize > 0
    BY <2>1, InWindowBounds DEF IInv
  <2> QED
    BY <2>1, <2>2 DEF CopyWindow, IInv, AfterFirst, ReadWithin, Reading
<1>2. /\ UNCHANGED <<pc, foff, moff, fsize, msize, from, asked, fds, told, ret, map>>
      /\ want' = want - msize /\ base' = base + msize /\ dest' = dest + msize /\ area' = base'
      /\ copied' = copied \cup Bytes(dest', area', 0, msize)
  BY DEF CopyWindow, files, Remapped, decoder
<1>3. TypeOK'
  <2>1. copied' \subseteq Nat \X Nat
    <3>1. copied \subseteq Nat \X Nat
      BY DEF IInv, TypeOK
    <3>2. dest' \in Nat /\ area' \in Nat /\ msize \in Nat
      BY ONLY <1>1, <1>2
    <3>3. Bytes(dest', area', 0, msize) \subseteq Nat \X Nat
      BY ONLY <3>2, BytesType
    <3> QED
      BY ONLY <1>2, <3>1, <3>3
  <2>2. {want', base', dest', from', asked'} \subseteq Nat /\ area' \in Nat
    BY <1>1, <1>2
  <2>3. TypeOK
    BY DEF IInv
  <2>4. UNCHANGED <<pc, foff, moff, fsize, msize, map, fds, told, ret>>
    BY <1>2
  <2> QED
    BY ONLY <2>1, <2>2, <2>3, <2>4 DEF TypeOK
<1>4. Stored'
  <2>1. SUFFICES ASSUME Aligned' PROVE copied' = Done' /\ (want' > 0 => dest' + msize' = asked' - want')
    BY DEF Stored
  <2>2. Aligned
    BY <1>2, <2>1 DEF Aligned, InWindow
  <2>3. copied = Done /\ dest + msize = asked - want
    BY <1>1, <2>2 DEF IInv, Stored
  <2>4. dest' = asked - want /\ area' = foff + (asked - want) /\ asked - want \in Nat
    BY <1>1, <1>2, <2>3
  <2>5. copied' = FromOn(foff, (asked - want) + msize)
    <3>1. copied' = FromOn(foff, asked - want)
                      \cup Bytes(asked - want, foff + (asked - want), 0, msize)
      BY <1>1, <1>2, <2>3, <2>4 DEF Done
    <3>2. foff + (asked - want) \in Nat /\ foff \in Nat /\ msize \in Nat
      BY <1>1, <2>4
    <3> QED
      BY ONLY <2>4, <3>1, <3>2, Extended
  <2>6. (asked - want) + msize = asked' - want'
    BY <1>1, <1>2
  <2> QED
    BY <1>1, <1>2, <2>4, <2>5, <2>6 DEF Done
<1>5. AfterFirst'
  BY <1>1, <1>2 DEF AfterFirst
<1> QED
  BY <1>1, <1>2, <1>3, <1>4, <1>5
     DEF IInv, AllOrNothing, WindowTracked, Released, files, DecoderFd, Mapped,
         ReadWithin, Reading, BeforeFirst, Shown

\* What is left is read at the beginning of the window that follows.
LEMMA CopyLastKeeps ==
    ASSUME IInv, CopyLast
    PROVE  IInv'
<1>1. /\ pc = "next" /\ map = "valid" /\ want > 0 /\ want < msize /\ want <= asked
      /\ from = foff /\ foff + asked <= fsize
      /\ {foff, asked, fsize, want, base, dest} \subseteq Nat
      /\ msize \in Nat /\ msize > 0
      /\ base + msize = foff + asked - want
  <2>1. pc = "next" /\ {foff, asked, fsize, want, base, dest} \subseteq Nat
    BY Constants DEF CopyLast, IInv, TypeOK
  <2>2. msize \in Nat /\ msize > 0
    BY <2>1, InWindowBounds DEF IInv
  <2> QED
    BY <2>1, <2>2 DEF CopyLast, IInv, AfterFirst, ReadWithin, Reading
<1>2. /\ UNCHANGED <<pc, foff, moff, fsize, msize, from, asked, fds, told, ret, map, dest>>
      /\ want' = 0 /\ base' = base + msize /\ area' = base'
      /\ copied' = copied \cup Bytes(dest + msize, area', 0, want)
  BY DEF CopyLast, files, Remapped, decoder
<1>3. TypeOK'
  <2>1. copied' \subseteq Nat \X Nat
    BY <1>1, <1>2, BytesType DEF IInv, TypeOK
  <2> QED
    BY <1>1, <1>2, <2>1 DEF IInv, TypeOK
<1>4. Stored'
  <2>1. SUFFICES ASSUME Aligned' PROVE copied' = Done'
    BY <1>2 DEF Stored
  <2>2. Aligned
    BY <1>2, <2>1 DEF Aligned, InWindow
  <2>3. copied = Done /\ dest + msize = asked - want
    BY <1>1, <2>2 DEF IInv, Stored
  <2>4. area' = foff + (asked - want) /\ asked - want \in Nat
    BY <1>1, <1>2
  <2>5. copied' = FromOn(foff, (asked - want) + want)
    <3>1. copied' = FromOn(foff, asked - want)
                      \cup Bytes(asked - want, foff + (asked - want), 0, want)
      BY <1>1, <1>2, <2>3, <2>4 DEF Done
    <3>2. foff + (asked - want) \in Nat /\ foff \in Nat /\ want \in Nat
      BY <1>1, <2>4
    <3> QED
      BY ONLY <2>4, <3>1, <3>2, Extended
  <2>6. (asked - want) + want = asked' - want'
    BY <1>1, <1>2
  <2> QED
    BY <1>1, <1>2, <2>5, <2>6 DEF Done
<1>5. AfterFirst'
  BY <1>1, <1>2 DEF AfterFirst
<1> QED
  BY <1>1, <1>2, <1>3, <1>4, <1>5
     DEF IInv, AllOrNothing, WindowTracked, Released, files, DecoderFd, Mapped,
         ReadWithin, Reading, BeforeFirst, Shown

\* The read ends: the position moves past it, and the window behind that position.
LEMMA ReadDoneKeeps ==
    ASSUME IInv, ReadDone
    PROVE  IInv'
<1> USE DEF ReadDone, files, mapping, locals, ghosts
<1>1. /\ pc = "next" /\ map = "valid" /\ area = base /\ base <= foff + asked
      /\ from = foff /\ foff + asked <= fsize
      /\ {foff, asked, fsize, base} \subseteq Nat
  BY Constants DEF IInv, TypeOK, AfterFirst, ReadWithin, Reading
<1>2. TypeOK'
  BY <1>1 DEF IInv, TypeOK
<1> QED
  BY <1>1, <1>2
     DEF IInv, AllOrNothing, WindowTracked, Released, files, DecoderFd, Mapped,
         ReadWithin, Reading, BeforeFirst, AfterFirst, Shown, Stored

LEMMA NextKeeps == IInv /\ [Next]_vars => IInv'
<1> SUFFICES ASSUME IInv, [Next]_vars PROVE IInv'
  OBVIOUS
<1>1. CASE UNCHANGED vars
  BY <1>1 DEF vars, decoder, mapping, locals, ghosts, IInv, TypeOK, AllOrNothing, WindowTracked,
      Released, files, DecoderFd, Mapped, ReadWithin, Reading, BeforeFirst, AfterFirst, Shown,
      Stored, Done, Aligned, InWindow, WindowBase
<1>2. CASE Next
  BY <1>2, InitKeeps, SkipKeeps, ReadBeginKeeps, FailureKeeps, CopyFirstKeeps, CopyWindowKeeps,
     CopyLastKeeps, ReadDoneKeeps DEF Next
<1> QED
  BY <1>1, <1>2

LEMMA Invariant == Spec => []IInv
<1> QED
  BY InitIInv, NextKeeps, PTL DEF Spec

-----------------------------------------------------------------------------
(* The theorems. *)

\* Every variable of the file decoder keeps its type: its positions stay within the
\* file, and no read goes on for a negative size (file.c:131-149).
THEOREM TypeCorrect == Spec => []TypeOK
<1>1. IInv => TypeOK
  BY DEF IInv
<1> QED
  BY <1>1, Invariant, PTL

\* A call that fails leaves the decoder where it was, one that succeeds moves it past
\* what it was asked for (file.c:96-180).
THEOREM Atomic == Spec => []AllOrNothing
<1>1. IInv => AllOrNothing
  BY DEF IInv
<1> QED
  BY <1>1, Invariant, PTL

\* Between two calls the window is where decoder->moff says (file.c:122,151-152).
THEOREM WindowKnown == Spec => []WindowTracked
<1>1. IInv => WindowTracked
  BY DEF IInv
<1> QED
  BY <1>1, Invariant, PTL

\* A read within one window, or from the beginning of one, stores the bytes of the file
\* that follow the decoder, through any number of windows (file.c:116-149).
THEOREM AlignedReadCorrect == Spec => []AlignedReadStoresAll
<1>1. IInv => AlignedReadStoresAll
  <2> SUFFICES ASSUME IInv, HasRead, Aligned PROVE copied = Expected
    BY DEF AlignedReadStoresAll, Aligned
  <2>1. copied = Done /\ want = 0 /\ asked \in Nat
    BY DEF IInv, Stored, HasRead, TypeOK
  <2> QED
    BY <2>1 DEF Done, FromOn, Expected
<1> QED
  BY <1>1, Invariant, PTL

\* Every descriptor that is open is that of the decoder or one that an initialization
\* returned in place of an error code (file.c:258-260), and nothing is mapped outside
\* the life of a decoder but what a failed remapping left (file.c:182-219,305-308).
THEOREM ResourcesReleased == Spec => []Released
<1>1. IInv => Released
  BY DEF IInv
<1> QED
  BY <1>1, Invariant, PTL
=============================================================================
