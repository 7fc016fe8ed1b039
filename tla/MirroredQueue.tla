--------------------------- MODULE MirroredQueue ---------------------------
(***************************************************************************)
(* What a client is promised about the queue of the server: it sees the    *)
(* states of the queue in the order in which they occurred, without        *)
(* skipping any of them, and of each state a part that starts at the       *)
(* front, which may be nothing at all.                                     *)
(***************************************************************************)
EXTENDS Sequences, SequencesExt

VARIABLES
    unseen,              \* states of the queue the client has not seen yet
    seen,                \* the last state of the queue that it has seen
    view                 \* what it shows of that state

mirrorVars == <<unseen, seen, view>>

MirrorInit == unseen = << >> /\ seen = << >> /\ view = << >>

(* The queue changes, or is sent to the client once more.                  *)
Change ==
    /\ IsStrictPrefix(unseen, unseen')
    /\ UNCHANGED <<seen, view>>

(* The client learns of the next state.                                    *)
See ==
    /\ unseen # << >>
    /\ seen' = Head(unseen)
    /\ unseen' = Tail(unseen)
    /\ IsPrefix(view', seen')

MirrorNext == Change \/ See

Mirror == MirrorInit /\ [][MirrorNext]_mirrorVars
=============================================================================
