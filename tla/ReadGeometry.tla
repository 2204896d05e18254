----------------------------- MODULE ReadGeometry -----------------------------
(***************************************************************************)
(* The arithmetic a read request goes through before it may reach a shard: *)
(* `aligned_geometry` and the checks of `UringDriver::submit`              *)
(* (src/src/driver.rs).  The widths are constants, so that TLC can run     *)
(* through every boundary: CURRENT_POSITION is u64::MAX, USIZE_MAX is      *)
(* usize::MAX.  A limit the code holds as None is a limit nothing reaches. *)
(***************************************************************************)
EXTENDS Reap

CONSTANTS
    USIZE_MAX,            \* usize::MAX of the target
    MAX_READ_LEN,         \* MAX_RW_COUNT, the kernel's cap on one read
    max_read_len,         \* ReadLimits::max_read_len
    max_in_flight_bytes   \* ReadLimits::max_in_flight_bytes

\* The cap is far below every width (0x7fff_f000 against 32 or 64 bits), so the
\* allocation `region_len + align - 1` of a legal read cannot wrap.
ASSUME GeometryAssumption ==
  /\ {USIZE_MAX, MAX_READ_LEN, max_read_len, max_in_flight_bytes} \subseteq Nat
  /\ 2 * MAX_READ_LEN <= USIZE_MAX
  /\ USIZE_MAX <= CURRENT_POSITION

I64_MAX == CURRENT_POSITION \div 2

IsPowerOfTwo(n) == \E k \in 0..n : n = 2 ^ k

None == [some |-> FALSE, kernel_offset |-> 0, head |-> 0, region_len |-> 0]

\* Defect: the region is not rounded up.
NextMultiple_same(n, align) == n

\* usize::checked_next_multiple_of, before the overflow check
NextMultiple(n, align) == IF n % align = 0 THEN n ELSE n + (align - (n % align))

aligned_geometry(offset, len, align) ==
  IF align = 0 \/ ~IsPowerOfTwo(align) \/ align > MAX_READ_LEN THEN None
  ELSE IF align = 1
       THEN [some |-> TRUE, kernel_offset |-> offset, head |-> 0, region_len |-> len]
  ELSE LET head   == offset % align            \* offset - (offset & !(align - 1))
           region == NextMultiple(head + len, align)
       IN  IF head + len > USIZE_MAX \/ region > USIZE_MAX THEN None
           ELSE [some |-> TRUE, kernel_offset |-> offset - head,
                 head |-> head, region_len |-> region]

\* The Vec allocated for a read, and the charge its byte permits carry.
Allocation(region_len, align) == region_len + align - 1

\* The early returns of `submit`: the request reaches admission iff this holds.
Accepted(offset, len, align, allow_current_position) ==
  LET stream == allow_current_position /\ offset = CURRENT_POSITION
      g == aligned_geometry(offset, len, align)
  IN  /\ ~(~allow_current_position /\ offset = CURRENT_POSITION)
      /\ ~(offset # CURRENT_POSITION /\ offset > I64_MAX)
      /\ len <= MAX_READ_LEN /\ len <= max_read_len
      /\ g.some
      /\ g.region_len <= MAX_READ_LEN
      /\ stream \/ g.kernel_offset + g.region_len <= I64_MAX
      /\ Allocation(g.region_len, align) <= max_in_flight_bytes
===============================================================================
