----------------------------- MODULE MCStartup ------------------------------
(***************************************************************************)
(* Start-up in a small machine: sectors of 8 bytes, segments of 4 sectors, *)
(* 80 bytes of real-mode memory; pages of 64 bytes, 64 frames.             *)
(***************************************************************************)
EXTENDS Startup

Flat(n, a) == [n |-> n, form |-> "flat", hi |-> a, lo |-> 0]
Pair(n, s, o) == [n |-> n, form |-> "pair", hi |-> s, lo |-> o]

\* The kernel is loaded at 32 (0x10000), the trampoline at 16 (0x8000).
MCLayouts ==
    { <<Flat(5, 32), Flat(1, 16)>>,                 \* the Makefile's: over a segment's end
      <<Pair(5, 6, 8), Pair(2, 4, 0)>>,             \* the same, as pairs
      <<Flat(3, 42), Flat(2, 16), Flat(1, 70)>>,    \* not on a sector boundary
      <<Flat(1, 16), Flat(1, 24), Flat(1, 32), Flat(1, 40)>>,   \* the table fills its room
      <<Flat(1, 16), Flat(1, 24), Flat(1, 32), Flat(1, 40), Flat(1, 48)>>,     \* and more
      <<Flat(1, 16), Flat(1, 24), Flat(1, 32), Flat(1, 40), Flat(1, 48), Flat(1, 56)>>,
      <<Pair(2, 20, 0)>>,                           \* a segment that is negative
      <<Flat(0, 32), Flat(1, 16)>>,                 \* an empty first program
      <<Flat(5, 33)>>,                              \* one that wraps in its segment
      <<Flat(6, 32)>>,                              \* one that is too large
      <<Flat(5, 32), Flat(5, 32)>> }                \* all the disk has

MCDirty == {{}, {3, 16, 20, 40}, 3..40}
=============================================================================
