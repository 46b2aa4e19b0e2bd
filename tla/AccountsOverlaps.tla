-------------------------- MODULE AccountsOverlaps --------------------------
(***************************************************************************)
(* What goes wrong when two handlers of Accounts meet at one email or one  *)
(* invitation, and that nothing else makes it go wrong.  Two history       *)
(* variables record who has met and who has joined; they change no step of *)
(* Accounts, so every execution of Spec is an execution of RecordedSpec.   *)
(***************************************************************************)
EXTENDS AccountsProperties

VARIABLES
    met,        \* <<c, d>>: two invites of one email, or two acceptances of one invitation, ran
                \* between their first read and their last write at the same time
    joined      \* <<c, i>>: the acceptance c has made an account out of invitation i

Inviting(c) == local[c].kind = "invite" /\ pc[c] \in {"checkAccount", "createInvitation"}
Accepting(c) == local[c].kind = "accept" /\ pc[c] \in {"checkAccount", "createUser", "accept"}

Meeting ==
    {p \in Calls \X Calls :
        /\ p[1] # p[2]
        /\ \/ /\ Inviting(p[1]) /\ Inviting(p[2])
              /\ local[p[1]].email = local[p[2]].email
           \/ /\ Accepting(p[1]) /\ Accepting(p[2])
              /\ local[p[1]].target = local[p[2]].target}
Joining == {<<c, local[c].target>> : c \in {d \in Calls : local[d].kind = "accept" /\ IsUser(d)}}

Record ==
    /\ met' = met \cup Meeting'
    /\ joined' = joined \cup Joining'

recorded == <<vars, met, joined>>
RecordedInit == Init /\ met = {} /\ joined = {}
RecordedNext == Next /\ Record
RecordedSpec == RecordedInit /\ [][RecordedNext]_recorded

-----------------------------------------------------------------------------

\* createInvitation refuses an email that has a pending invitation; no unique constraint says
\* so again when the row is inserted.  An email gets a second one only when the two invites
\* were between check and insert at the same time.
SecondInvitationOnlyByMeeting ==
    \A e \in Emails : \A i, j \in PendingFor(e) : i = j \/ <<i, j>> \in met

\* An invitation makes one account, unless the acceptances met at it or the first one failed
\* or died between the account and the mark; deleting the account does not make the link good
\* again.
UsedTwiceOnlyByMeeting ==
    \A p, q \in joined : p[2] = q[2] =>
        \/ p = q \/ <<p[1], q[1]>> \in met
        \/ pc[p[1]] = "failed" \/ pc[q[1]] = "failed"
=============================================================================
