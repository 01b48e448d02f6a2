----------------------------- MODULE ClipStore -----------------------------
(***************************************************************************)
(* What recording promises, with no buffer, index, header or recovery in   *)
(* sight: chunks are added to one recording at a time, some of them become *)
(* safe, a loss of power costs only chunks that were not safe yet, and a   *)
(* recording that holds a frame is kept whole under a name of its own.     *)
(***************************************************************************)
EXTENDS Naturals, Sequences

VARIABLES recording,  \* is there a recording that has no name yet
          open,       \* its chunks
          safe,       \* how many of them a loss of power cannot take
          kept        \* the named recordings, each a name and its chunks

storeVars == <<recording, open, safe, kept>>

IsPrefixOf(s, t) == Len(s) <= Len(t) /\ s = SubSeq(t, 1, Len(s))
HasFrame(s) == \E i \in 1..Len(s) : s[i].kind = "00dc"

Init == ~recording /\ open = <<>> /\ safe = 0 /\ kept = {}

Start ==
    /\ ~recording /\ recording'
    /\ open' = <<>> /\ safe' = 0
    /\ UNCHANGED kept

Add ==
    /\ recording
    /\ IsPrefixOf(open, open')
    /\ safe' \in safe..Len(open')
    /\ UNCHANGED <<recording, kept>>

LosePower ==
    /\ IsPrefixOf(open', open) /\ safe <= Len(open')
    /\ UNCHANGED <<recording, safe, kept>>

Keep ==
    /\ recording /\ ~recording'
    /\ open' = <<>> /\ safe' = 0
    /\ \E k \in kept' :
          /\ k.chunks = open
          /\ \A other \in kept : other.name # k.name
          /\ kept' = kept \cup {k}

Discard ==
    /\ recording /\ ~HasFrame(open)
    /\ ~recording' /\ open' = <<>> /\ safe' = 0
    /\ UNCHANGED kept

Next == Start \/ Add \/ LosePower \/ Keep \/ Discard

Spec == Init /\ [][Next]_storeVars
=============================================================================
