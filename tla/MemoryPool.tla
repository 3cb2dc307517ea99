----------------------------- MODULE MemoryPool -----------------------------
(***************************************************************************)
(* src/src/wrappers/posix/MemoryPool.cpp: the fixed buffer from which      *)
(* ServerSocket takes its read buffers.  m_mutex makes every operation     *)
(* atomic, so one action stands for one call.  The vector m_regions is a   *)
(* sequence, std::size_t subtraction wraps at WordSize.                    *)
(***************************************************************************)
EXTENDS Integers, SequencesExt

CONSTANTS
  Total,      \* m_total_size
  Requests,   \* the sizes callers ask for
  WordSize    \* 2^w for the w bits of std::size_t

ASSUME SizesAssumption ==
  /\ WordSize \in Nat \ {0}
  /\ Total \in 0 .. WordSize - 1
  /\ Requests \subseteq 0 .. WordSize - 1

VARIABLES
  regions,    \* m_regions
  used,       \* m_used_size
  result      \* what the last call returned (an offset stands for a pointer)

vars == <<regions, used, result>>

Null == -1    \* nullptr
Void == -2    \* the last call returned nothing

Region == [offset : 0 .. WordSize - 1, size : 0 .. WordSize - 1]

\* std::size_t arithmetic.
Minus(a, b) == IF b <= a THEN a - b ELSE WordSize + a - b
Plus(a, b)  == IF a + b < WordSize THEN a + b ELSE a + b - WordSize

-----------------------------------------------------------------------------
(* allocate: scan the gaps in order, take the first that is large enough.  *)

\* Mutants: a cursor that forgets the size of the region it steps over, a
\* buffer one byte too long.
CursorAtStart(i) == IF i = 1 THEN 0 ELSE regions[i - 1].offset
EdgePastEnd(i) == IF i <= Len(regions) THEN regions[i].offset ELSE Total + 1

\* Where gap i begins: the end of the region before it.
Cursor(i) == IF i = 1 THEN 0
             ELSE Plus(regions[i - 1].offset, regions[i - 1].size)

\* Where gap i ends: the next region, or the end of the buffer.
Edge(i) == IF i <= Len(regions) THEN regions[i].offset ELSE Total

\* Mutant: more room demanded than was asked for.
FittingStrict(size) ==
  {i \in 1 .. Len(regions) + 1 : Minus(Edge(i), Cursor(i)) > size}

Fitting(size) ==
  {i \in 1 .. Len(regions) + 1 : Minus(Edge(i), Cursor(i)) >= size}

Allocate(size) ==
  IF size = 0 \/ Fitting(size) = {}
  THEN /\ result' = Null
       /\ UNCHANGED <<regions, used>>
  ELSE LET i == Min(Fitting(size)) IN
       /\ regions' = InsertAt(regions, i, [offset |-> Cursor(i), size |-> size])
       /\ used' = Plus(used, size)
       /\ result' = Cursor(i)

-----------------------------------------------------------------------------
(* free: drop the region that begins at the pointer, if there is one.      *)

At(ptr) == {i \in 1 .. Len(regions) : regions[i].offset = ptr}

\* Mutant: free forgets to give the size back to m_used_size.
FreeUncounted(ptr) ==
  /\ result' = Void
  /\ UNCHANGED used
  /\ \/ At(ptr) = {} /\ UNCHANGED regions
     \/ \E i \in At(ptr) : regions' = RemoveAt(regions, i)

Free(ptr) ==
  /\ result' = Void
  /\ \/ /\ At(ptr) = {}
        /\ UNCHANGED <<regions, used>>
     \/ \E i \in At(ptr) :
          /\ used' = Minus(used, regions[i].size)
          /\ regions' = RemoveAt(regions, i)

Reset ==
  /\ regions' = << >>
  /\ used' = 0
  /\ result' = Void

Init == regions = << >> /\ used = 0 /\ result = Void

Next ==
  \/ \E size \in Requests : Allocate(size)
  \/ \E ptr \in (0 .. Total) \cup {Null} : Free(ptr)
  \/ Reset

Spec == Init /\ [][Next]_vars

-----------------------------------------------------------------------------
(* Properties.                                                             *)

\* Every variable has its type.
TypeOK ==
  /\ regions \in Seq(Region)
  /\ used \in 0 .. WordSize - 1
  /\ result \in (0 .. Total - 1) \cup {Null, Void}

\* Regions are kept sorted, in bounds, not empty, and never overlap, which
\* is what makes one pass over the gaps enough and what keeps the unsigned
\* subtraction of allocate from wrapping.
Sorted ==
  \A i \in 1 .. Len(regions) :
    /\ regions[i].size > 0
    /\ regions[i].offset + regions[i].size <= Total
    /\ \A j \in 1 .. Len(regions) :
         i < j => regions[i].offset + regions[i].size <= regions[j].offset

\* m_used_size, which used_size, free_size, empty and full report from, is
\* the total size of the regions after any sequence of calls.
UsedIsSum ==
  used = FoldLeft(LAMBDA sum, r : sum + r.size, 0, regions)

\* The pool implements the arena: first fit gives the lowest address there
\* is, refuses only when there is no room at all, and free gives back one
\* block and nothing else.
Arena == INSTANCE ByteArena WITH blocks <- Range(regions), answer <- result
ImplementsArena == Arena!Spec

\* While all regions have one size that divides the pool and lie on
\* multiples of it, one more is put on such a multiple, and refused only
\* when every byte is in use.
NoFragments ==
  \A size \in Requests \ {0} :
    /\ Total % size = 0
    /\ \A i \in 1 .. Len(regions) :
         regions[i].size = size /\ regions[i].offset % size = 0
    => IF Fitting(size) = {} THEN used = Total
       ELSE Cursor(Min(Fitting(size))) % size = 0

\* What ServerSocket relies on for its read buffers, all of one size, and the
\* callers of used_size and full on for the count: no byte is lost to the
\* account or to fragments.
PoolAccounted == UsedIsSum /\ NoFragments
=============================================================================
