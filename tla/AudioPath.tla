------------------------------ MODULE AudioPath ------------------------------
(***************************************************************************)
(* What the media path of a call promises: the frames that are recorded on *)
(* one phone are played on the other one in their order, each once.  At    *)
(* the end of the stream the last one is played once more (silence, frame  *)
(* 0, if there was none).                                                  *)
(***************************************************************************)
EXTENDS Naturals, Sequences

VARIABLES recorded,  \* number of frames recorded so far
          played,    \* the frames played, in order
          over       \* the player has stopped

vars == <<recorded, played, over>>

Init == recorded = 0 /\ played = << >> /\ over = FALSE

Record == recorded' = recorded + 1 /\ UNCHANGED <<played, over>>

Play == /\ ~ over /\ Len(played) < recorded
        /\ played' = Append(played, Len(played) + 1)
        /\ UNCHANGED <<recorded, over>>

\* Frame n is the n-th to be played, so the last one has the number Len(played).
PlayLastAgain == /\ ~ over
                 /\ played' = Append(played, Len(played))
                 /\ over' = TRUE
                 /\ UNCHANGED recorded

Next == Record \/ Play \/ PlayLastAgain

Spec == Init /\ [][Next]_vars
=============================================================================
