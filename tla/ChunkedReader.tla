----------------------------- MODULE ChunkedReader -----------------------------
(***************************************************************************)
(* common::chunked_reader (snail/common/chunked_reader.hpp) as a value: a   *)
(* section of a file is read into a buffer that may be shorter than the    *)
(* section.  A byte is its place in the file, so that what a reader hands  *)
(* out says where it was read.  The place of the stream belongs to whoever *)
(* owns the stream, because readers share one.                             *)
(***************************************************************************)
EXTENDS Integers, Sequences

\* What an element of the buffer is that nothing was read into.
Uninitialized == 0

\* The constructor, but for the stream, which it moves.
Reader(size, chunk) ==
  [total_size |-> size, total_processed_size |-> 0,
   chunk_buffer |-> [i \in 1 .. chunk |-> Uninitialized], chunk_size |-> 0,
   chunk_processed_size |-> 0, is_chunk_exhausted |-> TRUE]

done(r) == r.total_processed_size = r.total_size

chunk_has_more_data(r) == r.chunk_processed_size < r.chunk_size

\* keep_going() calls read_next_chunk().
needs_chunk(r) == r.is_chunk_exhausted \/ ~chunk_has_more_data(r)

\* The numbers of read_next_chunk().
last_chunk_remaining_bytes(r) == r.chunk_size - r.chunk_processed_size
remaining_data_bytes(r) ==
  r.total_size - (r.total_processed_size + r.chunk_processed_size)
all_bytes_to_read(r) ==
  LET room == Len(r.chunk_buffer) - last_chunk_remaining_bytes(r)
      rest == remaining_data_bytes(r)
  IN  IF rest > room THEN room ELSE rest
chunk_bytes_to_read(r) ==
  LET room == Len(r.chunk_buffer) - last_chunk_remaining_bytes(r)
      rest == remaining_data_bytes(r) - last_chunk_remaining_bytes(r)
  IN  IF rest > room THEN room ELSE rest

\* read_next_chunk() with data left and the stream at a given place: the bytes
\* that were not used are the last ones of the buffer, and move to its front.
read_next_chunk(r, place) ==
  LET kept == last_chunk_remaining_bytes(r)
      read == chunk_bytes_to_read(r)
      byte(i) == IF i <= kept THEN r.chunk_buffer[Len(r.chunk_buffer) - kept + i]
                 ELSE IF i <= kept + read THEN place + i - kept
                 ELSE r.chunk_buffer[i]
  IN  [r EXCEPT !.chunk_buffer = [i \in DOMAIN r.chunk_buffer |-> byte(i)],
                !.chunk_size = kept + read,
                !.total_processed_size = @ + r.chunk_processed_size,
                !.chunk_processed_size = 0,
                !.is_chunk_exhausted = FALSE]

\* What keep_going() returns.
keep_going(r) == ~done(r) /\ (needs_chunk(r) => remaining_data_bytes(r) # 0)

\* retrieve_data(size): whether there are so many bytes in the chunk, which ones,
\* and the reader afterwards.
has_data(r, size) == last_chunk_remaining_bytes(r) >= size
retrieve_data(r, size) ==
  SubSeq(r.chunk_buffer, r.chunk_processed_size + 1, r.chunk_processed_size + size)
retrieved(r, size) == [r EXCEPT !.chunk_processed_size = @ + size]
unmarked(r) == r
starved(r) == [r EXCEPT !.is_chunk_exhausted = TRUE]
=============================================================================
