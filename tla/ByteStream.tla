----------------------------- MODULE ByteStream -----------------------------
(***************************************************************************)
(* What a pipe promises: a bounded first-in first-out stream of bytes.     *)
(* A read returns the oldest bytes, and returns none only at the end of    *)
(* the stream, which is when it is empty and every writer has closed.      *)
(***************************************************************************)
EXTENDS Naturals, Sequences

CONSTANTS Byte,      \* the bytes
          Capacity   \* most bytes the stream holds

VARIABLES stream,    \* bytes written and not yet read
          got,       \* what the last read returned
          ended      \* all writers have closed

svars == <<stream, got, ended>>

Init == stream = <<>> /\ got = <<>> /\ ended = FALSE

Put ==
  /\ ~ended
  /\ \E k \in 1..(Capacity - Len(stream)) : \E s \in [1..k -> Byte] :
       stream' = stream \o s
  /\ UNCHANGED <<got, ended>>

Get ==
  \E k \in 0..Len(stream) :
    /\ k = 0 => ended /\ stream = <<>>
    /\ got' = SubSeq(stream, 1, k)
    /\ stream' = SubSeq(stream, k + 1, Len(stream))
    /\ UNCHANGED ended

End == ended' = TRUE /\ UNCHANGED <<stream, got>>

Next == Put \/ Get \/ End

Spec == Init /\ [][Next]_svars
=============================================================================
