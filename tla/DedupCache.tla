----------------------------- MODULE DedupCache -----------------------------
(***************************************************************************)
(* node/dedup_cache.py: the bounded memory of message ids of one mesh node *)
(* as a sequence, the id touched longest ago first.                        *)
(***************************************************************************)
EXTENDS Integers, SequencesExt

SeenBefore(cache, id) == id \in ToSet(cache)

\* Of a sequence without repetitions.
Without(s, x) ==
    IF x \in ToSet(s) THEN RemoveAt(s, CHOOSE i \in DOMAIN s : s[i] = x) ELSE s

\* Faulty variant: a repeat does not move the id to the end.
RememberedInPlace(cache, id, size) ==
    IF SeenBefore(cache, id) THEN cache
    ELSE LET longer == Append(cache, id) IN
         IF Len(longer) > size THEN Tail(longer) ELSE longer

\* What seen_before leaves behind: the id is the one touched last, and the one
\* touched longest ago makes room.
Remembered(cache, id, size) ==
    IF SeenBefore(cache, id) THEN Append(Without(cache, id), id)
    ELSE LET longer == Append(cache, id) IN
         IF Len(longer) > size THEN Tail(longer) ELSE longer

----------------------------------------------------------------------------
After(ids, size) ==
    FoldLeft(LAMBDA cache, id : Remembered(cache, id, size), <<>>, ids)

\* Known are the ids since whose last touch fewer than size others were touched,
\* for all runs of up to five ids out of three.
KnowsTheLatest ==
    \A size \in 1 .. 2 : \A ids \in BoundedSeq(1 .. 3, 5) : \A id \in 1 .. 3 :
        SeenBefore(After(ids, size), id) <=>
            \E i \in DOMAIN ids :
                /\ ids[i] = id
                /\ Cardinality({ids[j] : j \in i + 1 .. Len(ids)} \ {id}) < size
=============================================================================
