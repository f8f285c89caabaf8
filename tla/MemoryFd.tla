------------------------------ MODULE MemoryFd ------------------------------
(***************************************************************************)
(* memory_fd::read of src/fd/memory_fd.hpp: a read-only file over a buffer *)
(* of Length bytes.  size_t arithmetic is kept modulo 2^WordBits.  A read  *)
(* changes nothing in the object, so each step is one read with a          *)
(* caller-chosen offset and count, and last records the bytes the memcpy   *)
(* touched, from the first read on.  The value the function returns on the *)
(* copy path is left out: the code has no return statement there.          *)
(***************************************************************************)
EXTENDS Naturals

CONSTANTS WordBits, Length

ASSUME WordBits \in Nat \ {0} /\ Length \in 0..2^WordBits - 1

Word == 0..2^WordBits - 1
W(x) == x % 2^WordBits

\* The bytes memcpy copies from addr + offset: none at end of file.
Copied(offset, count) ==
  IF W(offset + count) >= Length THEN 0
  ELSE LET bytes_left == W(W(Length - offset) - count)
       IN IF count < bytes_left THEN count ELSE bytes_left

VARIABLE last   \* the last read: [offset, count, copied]

Read(offset, count) ==
  last' = [offset |-> offset, count |-> count, copied |-> Copied(offset, count)]

Init == \E offset, count \in Word :
          last = [offset |-> offset, count |-> count, copied |-> Copied(offset, count)]

Next == \E offset, count \in Word : Read(offset, count)

Spec == Init /\ [][Next]_last

-----------------------------------------------------------------------------
(* Properties                                                              *)

\* The memcpy of memory_fd::read never touches a byte outside the buffer,
\* whatever offset and count the caller passes.
CopyInBounds == last.copied = 0 \/ last.offset + last.copied <= Length
=============================================================================
