------------------------------- MODULE Features -------------------------------
(***************************************************************************)
(* Rate features (pkg/types/codecs.go, internal/protocol/helpers.go).  The *)
(* codecs are <<>> for nil, or <<names>>, the names in the order of the    *)
(* router; an answer tells features by a mask, the set of its bits.        *)
(***************************************************************************)
EXTENDS Naturals, SequencesExt

\* The names of the bits of a mask, as far as it has bits and they have names.
Named(names, mask, bits) ==
  FlattenSeq([i \in 1..Len(names) |->
                IF i <= bits /\ i - 1 \in mask THEN <<names[i]>> ELSE <<>>])

\* A fault: the last bit is forgotten.
BitmaskToRateFeatureStringsShort(codecs, mask) ==
  IF codecs = <<>> THEN <<>> ELSE Named(codecs[1], mask, 23)

BitmaskToRateFeatureStrings(codecs, mask) ==
  IF codecs = <<>> THEN <<>> ELSE Named(codecs[1], mask, 24)

\* The router packs names into a mask of 24 bits.
Mask(names, registry) ==
  {i - 1 : i \in {k \in 1..Len(registry) : registry[k] \in ToSet(names) /\ k <= 24}}
===============================================================================
