------------------------------ MODULE Playlist ------------------------------
(* What an EDL is, whatever its format: the clips of the request one after    *)
(* the other without a gap, all of them or, when the request is refused, none.*)
EXTENDS Naturals, Sequences

CONSTANTS
    Length(_),   \* frames a clip takes
    Shown(_, _)  \* how the format shows a position, in a statement on a clip

VARIABLES
    clips,   \* the clips of the request; nobody changes them
    placed,  \* the places of the clips so far
    end,     \* the position the last of them ends at
    verdict  \* "open", "done" or "refused"

playlistVars == <<clips, placed, end, verdict>>

Init == placed = <<>> /\ end = 0 /\ verdict = "open"

Place ==
    /\ verdict = "open" /\ Len(placed) < Len(clips)
    /\ LET c == clips[Len(placed) + 1]
       IN  /\ end' = end + Length(c)
           /\ placed' = Append(placed, [from |-> Shown(c, end), to |-> Shown(c, end')])
    /\ UNCHANGED <<clips, verdict>>

Refuse ==
    /\ verdict = "open" /\ verdict' = "refused"
    /\ UNCHANGED <<clips, placed, end>>

Finish ==
    /\ verdict = "open" /\ Len(placed) = Len(clips)
    /\ verdict' = "done"
    /\ UNCHANGED <<clips, placed, end>>

Next == Place \/ Refuse \/ Finish

Spec == Init /\ [][Next]_playlistVars

=============================================================================
