---------------------------- MODULE OrderedStream ----------------------------
(***************************************************************************)
(* What event ingestion promises a consumer of one stream: events are      *)
(* handed over in the order of their sequence numbers, one event for each  *)
(* number, without a hole, and as far as those that have arrived allow.    *)
(***************************************************************************)
EXTENDS Naturals, Sequences, SequencesExt

CONSTANTS Events,    \* the events a publisher may send on the stream
          Position   \* the sequence number each of them carries

VARIABLES arrived,   \* the events kept so far
          stream     \* those handed over, in order

Init == arrived = {} /\ stream = <<>>

InPosition(s) == \A i \in DOMAIN s : Position[s[i]] = i

\* One arrival hands over the longest unbroken run it completes.
Arrive(e) ==
  /\ arrived' = arrived \cup {e}
  /\ IsPrefix(stream, stream')
  /\ ToSet(stream') \subseteq arrived'
  /\ InPosition(stream')
  /\ \A x \in arrived' : Position[x] # Len(stream') + 1

Next == \E e \in Events \ arrived : Arrive(e)

Spec == Init /\ [][Next]_<<arrived, stream>>
=============================================================================
