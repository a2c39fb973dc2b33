------------------------------- MODULE BlockIO -------------------------------
(***************************************************************************)
(* Reads, writes and wipes of any sector range through a device that can   *)
(* only be accessed in whole blocks (lib/utils_io.c, lib/utils_wipe.c).    *)
(*                                                                         *)
(* The unit is the sector: requests that are no multiple of 512 bytes are  *)
(* refused by crypt_wipe_device before it opens the device.  An open file  *)
(* is a record: its sectors, the number of sectors it can have (a regular  *)
(* file grows, a device does not) and the sectors with I/O errors.  The    *)
(* operators return the file, the position and the C return value.         *)
(***************************************************************************)
EXTENDS Integers, Sequences, FiniteSets

\* A sector of zeroes, and one with whatever the allocator left in a buffer.
Zeroes == 0
Garbage == -1

EIO == -5
EINTR == -4
EINVAL == -22

SetMin(S) == CHOOSE x \in S : \A y \in S : x <= y

Least2(a, b) == IF a < b THEN a ELSE b
Most2(a, b) == IF a < b THEN b ELSE a

\* The sectors s with buf written over them from position pos.
Overlay(s, pos, buf) ==
  [i \in 1..(IF buf = <<>> THEN Len(s) ELSE Most2(Len(s), pos + Len(buf))) |->
     IF i > pos /\ i <= pos + Len(buf) THEN buf[i - pos]
     ELSE IF i <= Len(s) THEN s[i] ELSE Zeroes]

\* read(2) until the length or the end of the file; an error is returned though
\* sectors before it were read.
read_buffer(f, pos, length) ==
  LET last == Least2(pos + length, Len(f.data))
      fails == \E i \in (pos + 1)..last : i \in f.bad
      n == IF fails THEN -1 ELSE IF last > pos THEN last - pos ELSE 0
  IN  [buf |-> IF n > 0 THEN SubSeq(f.data, pos + 1, last) ELSE <<>>, ret |-> n]

\* write(2) until everything is written: what lies before the first bad sector,
\* or before the end of a device, is written also when the call fails.
write_buffer(f, pos, buf) ==
  LET fails == {i \in (pos + 1)..(pos + Len(buf)) : i \in f.bad \/ i > f.limit}
      n == IF fails = {} THEN Len(buf) ELSE SetMin(fails) - pos - 1
  IN  [f   |-> [f EXCEPT !.data = Overlay(@, pos, SubSeq(buf, 1, n))],
       pos |-> pos + n,
       ret |-> IF fails = {} THEN Len(buf) ELSE -1]

\* Mutation: the rest of the last block is not read before it is written.
HangoverZeroed(f, pos, bsize, rest) ==
  [f |-> f, block |-> Overlay([i \in 1..bsize |-> Zeroes], 0, rest), ret |-> 0]

\* The last, partial block of a write: read, and its beginning replaced.
Hangover(f, pos, bsize, rest) ==
  LET r == read_buffer(f, pos, bsize)
  IN  [f |-> f, block |-> Overlay(Overlay([i \in 1..bsize |-> Zeroes], 0, r.buf), 0, rest), ret |-> r.ret]

\* Whole blocks as they are, then the partial one.  The position is left at the
\* end of the last block, which may be behind the end of buf.
write_blockwise(f, pos, bsize, buf) ==
  LET hangover == Len(buf) % bsize
      solid == Len(buf) - hangover
      first == IF solid = 0 THEN [f |-> f, pos |-> pos, ret |-> 0] ELSE write_buffer(f, pos, SubSeq(buf, 1, solid))
      last == Hangover(first.f, first.pos, bsize, SubSeq(buf, solid + 1, Len(buf)))
      second == write_buffer(last.f, first.pos, last.block)
  IN  IF first.ret < 0 \/ hangover = 0
      THEN [first EXCEPT !.ret = IF @ < 0 THEN -1 ELSE Len(buf)]
      ELSE IF last.ret < 0
      THEN [first EXCEPT !.ret = -1]
      ELSE [second EXCEPT !.ret = IF @ < hangover THEN -1 ELSE Len(buf)]

read_blockwise(f, pos, bsize, length) ==
  LET hangover == length % bsize
      solid == length - hangover
      first == read_buffer(f, pos, solid)
      last == read_buffer(f, pos + solid, bsize)
  IN  IF first.ret # solid \/ (hangover > 0 /\ last.ret < hangover)
      THEN [buf |-> <<>>, ret |-> -1]
      ELSE [buf |-> first.buf \o (IF hangover > 0 THEN SubSeq(last.buf, 1, hangover) ELSE <<>>), ret |-> length]

\* The part of a request that lies in a block begun before it.
InnerCount(bsize, offset, length) ==
  IF offset % bsize = 0 THEN 0 ELSE Least2(bsize - (offset % bsize), length)

\* The first block is read into an uninitialised buffer, changed and written
\* back whole; the others follow by write_blockwise.
write_lseek_blockwise(f, bsize, buf, offset) ==
  LET frontHang == offset % bsize
      inner == InnerCount(bsize, offset, Len(buf))
      r == read_buffer(f, offset - frontHang, bsize)
      pad == Overlay(Overlay([i \in 1..bsize |-> Garbage], 0, r.buf), frontHang, SubSeq(buf, 1, inner))
      front == IF inner = 0 THEN [f |-> f, pos |-> offset - frontHang, ret |-> 0]
               ELSE IF r.ret < frontHang + inner THEN [f |-> f, pos |-> offset, ret |-> -1]
               ELSE write_buffer(f, offset - frontHang, pad)
      rest == write_blockwise(front.f, front.pos, bsize, SubSeq(buf, inner + 1, Len(buf)))
  IN  IF front.ret < 0 \/ inner = Len(buf)
      THEN [front EXCEPT !.ret = IF @ < 0 THEN -1 ELSE inner]
      ELSE [rest EXCEPT !.ret = IF @ < 0 THEN -1 ELSE @ + inner]

\* Mutation: the first block is copied from its beginning.
ReadFromBlockStart(f, bsize, length, offset) ==
  read_blockwise(f, offset - (offset % bsize), bsize, length)

read_lseek_blockwise(f, bsize, length, offset) ==
  LET frontHang == offset % bsize
      inner == InnerCount(bsize, offset, length)
      r == read_buffer(f, offset - frontHang, bsize)
      rest == read_blockwise(f, offset - frontHang + (IF inner = 0 THEN 0 ELSE bsize), bsize, length - inner)
  IN  IF inner > 0 /\ r.ret < frontHang + inner THEN [buf |-> <<>>, ret |-> -1]
      ELSE IF rest.ret < 0 THEN rest
      ELSE [buf |-> SubSeq(r.buf, frontHang + 1, frontHang + inner) \o rest.buf, ret |-> rest.ret + inner]

-----------------------------------------------------------------------------
Wiped == 1000

Patterns == {"zero", "random", "encrypted_zero", "special"}

\* One block of a wipe: at the position of the descriptor, except that the
\* passes of the Gutmann method each seek to the offset.
wipe_block(f, pos, pattern, bsize, size, offset) ==
  LET sf == [i \in 1..size |-> Wiped]
      w == IF pattern = "special" THEN write_lseek_blockwise(f, bsize, sf, offset)
           ELSE write_blockwise(f, pos, bsize, sf)
  IN  IF pattern \notin Patterns THEN [f |-> f, pos |-> pos, ret |-> EINVAL]
      ELSE [w EXCEPT !.ret = IF @ = size THEN 0 ELSE EIO]

\* The pattern that is used: the Gutmann method only on rotational devices.
UsedPattern(pattern, rotational) ==
  IF pattern = "special" /\ ~rotational THEN "random" ELSE pattern

\* Mutation: the last block is not cut at the end of the range.
BlockUncut(wipe_block_size, offset, dev_size) == wipe_block_size

\* The size of the block at offset.
BlockAt(wipe_block_size, offset, dev_size) == Least2(wipe_block_size, dev_size - offset)

\* crypt_wipe, crypt_wipe_device.  stop is the number of the progress callback
\* that asks to stop, the first of which comes before any change; 0 is never.
crypt_wipe_device(f, pattern, rotational, offset, length, wipe_block_size, bsize, stop) ==
  LET dev_size == IF length > 0 THEN offset + length ELSE Len(f.data)
      steps == (dev_size - offset + wipe_block_size - 1) \div wipe_block_size
      At(k) == offset + k * wipe_block_size
      W[k \in 0..steps] ==
        IF k = 0 THEN [f |-> f, pos |-> offset, ret |-> 0]
        ELSE IF W[k - 1].ret # 0 THEN W[k - 1]
        ELSE LET w == wipe_block(W[k - 1].f, W[k - 1].pos, UsedPattern(pattern, rotational), bsize,
                                 BlockAt(wipe_block_size, At(k - 1), dev_size), At(k - 1))
             IN  [w EXCEPT !.ret = IF @ = 0 /\ stop = k + 1 THEN EINTR ELSE @]
  IN  IF dev_size <= offset \/ stop = 1 THEN [f |-> f, pos |-> offset, ret |-> EINVAL]
      ELSE W[steps]
=============================================================================
