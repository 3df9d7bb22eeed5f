------------------------------- MODULE Isqrt -------------------------------
(***************************************************************************)
(* ac_isqrt_u64 (common.c), which turns a stake into its weight in votes,  *)
(* committees and priorities: Newton's iteration from above, and two       *)
(* loops that correct its result. Sums wrap as unsigned words do. Words    *)
(* may have any even width of four bits or more.                           *)
(***************************************************************************)
EXTENDS Integers

CONSTANT SqrtMax \* SQRT_MAX, the root of the largest word

Word == (SqrtMax + 1) * (SqrtMax + 1)
WordWidth == SqrtMax \in Nat /\ SqrtMax > 1

VARIABLES word, root, phase

rvars == <<word, root, phase>>

\* 0 and 1 are answered at once.
RInit ==
  /\ word \in 0 .. Word - 1
  /\ root = IF word > SqrtMax THEN SqrtMax ELSE word
  /\ phase = IF word <= 1 THEN "done" ELSE "newton"

Newton ==
  LET nr == ((root + word \div root) % Word) \div 2
  IN
  /\ phase = "newton"
  /\ \/ nr >= root /\ phase' = "down" /\ UNCHANGED root
     \/ nr < root /\ root' = nr /\ UNCHANGED phase
  /\ UNCHANGED word

TooLarge == root > 0 /\ root > word \div root

CorrectDown ==
  /\ phase = "down"
  /\ \/ TooLarge /\ root' = root - 1 /\ UNCHANGED phase
     \/ ~TooLarge /\ phase' = "up" /\ UNCHANGED root
  /\ UNCHANGED word

TooSmall == root < SqrtMax /\ root + 1 <= word \div (root + 1)

CorrectUp ==
  /\ phase = "up"
  /\ \/ TooSmall /\ root' = root + 1 /\ UNCHANGED phase
     \/ ~TooSmall /\ phase' = "done" /\ UNCHANGED root
  /\ UNCHANGED word

RNext == Newton \/ CorrectDown \/ CorrectUp

RSpec == RInit /\ [][RNext]_rvars

-----------------------------------------------------------------------------
\* What is returned is the integer square root.
IsRoot == phase = "done" => root * root <= word /\ word < (root + 1) * (root + 1)

\* No division by zero, and no sum of the iteration wraps.
NoWrap == phase = "newton" => root > 0 /\ root + word \div root < Word

\* The correction loops never have anything to correct.
CorrectionsIdle == [][phase # "newton" => root' = root]_rvars

\* The iteration stays at or above the root, and ends at it.
RInv ==
  /\ word \in 0 .. Word - 1 /\ root \in 0 .. SqrtMax
  /\ phase \in {"newton", "down", "up", "done"}
  /\ word < (root + 1) * (root + 1)
  /\ phase = "newton" => root > 0 /\ word > 1
  /\ phase # "newton" => root * root <= word
=============================================================================
