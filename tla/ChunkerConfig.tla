--------------------------- MODULE ChunkerConfig ---------------------------
(***************************************************************************)
(* The size of a chunk as an operator writes it, and the sizes the chunker *)
(* accepts.  A size is <<number, unit>>, or <<>> where it does not parse.  *)
(***************************************************************************)
EXTENDS Integers

CONSTANTS
    KIB, USIZE_MAX,
    Limits          \* the sizes FastCDC supports: [min, target, max]

ASSUME LimitsAssumption == Limits.target \subseteq Nat \ {0}

Multiplier(unit) == CASE unit = "" -> 1 [] unit = "K" -> KIB [] unit = "M" -> KIB * KIB
parse_size(size) == size[1] * Multiplier(size[2])
Parses(size) == size # <<>> /\ parse_size(size) <= USIZE_MAX
with_target(target) ==
    target \div 4 \in Limits.min /\ target \in Limits.target /\ target * 4 \in Limits.max
=============================================================================
