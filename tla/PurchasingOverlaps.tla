------------------------- MODULE PurchasingOverlaps -------------------------
(***************************************************************************)
(* What goes wrong when two handlers of Purchasing meet at one row, and    *)
(* that nothing else makes it go wrong.  Two history variables record      *)
(* which calls have met; they change no step of Purchasing, so every       *)
(* execution of Spec is an execution of RecordedSpec.                      *)
(***************************************************************************)
EXTENDS PurchasingProperties, FiniteSets, Functions

VARIABLES
    resolvers,  \* <<c, d>>: c and d were both between their read and their write of a request
    spenders    \* <<c, d>>: c and d were both between their read and their write of a balance

AtOneRequest ==
    {p \in Calls \X Calls : /\ p[1] # p[2] /\ Resolving(p[1]) /\ Resolving(p[2])
                            /\ local[p[1]].target = local[p[2]].target}
AtOneBalance ==
    {p \in Calls \X Calls : /\ p[1] # p[2] /\ Withdrawing(p[1]) /\ Withdrawing(p[2])
                            /\ Key(p[1]) = Key(p[2])}

Record ==
    /\ resolvers' = resolvers \cup AtOneRequest'
    /\ spenders' = spenders \cup AtOneBalance'

recorded == <<vars, resolvers, spenders>>
RecordedInit == Init /\ resolvers = {} /\ spenders = {}
RecordedNext == Next /\ Record
RecordedSpec == RecordedInit /\ [][RecordedNext]_recorded

-----------------------------------------------------------------------------

\* approveOrderRequest turns one request into two orders only when the two approvals met at
\* the request: no order of other steps, no retry, crash or timeout does it.
SecondOrderOnlyByMeeting ==
    \A r \in Calls : \A o, p \in OrderedFor(r) : o = p \/ <<o.id, p.id>> \in resolvers

\* A rejected request has been bought only when the rejection met the approval at it.
RejectedOrderOnlyByMeeting ==
    \A r \in Calls : \A o \in OrderedFor(r) : requests[r].status = "REJECTED" =>
        \E d \in Calls : /\ local[d].kind = "reject" /\ local[d].target = r
                         /\ pc[d] = "done"
                         /\ <<o.id, d>> \in resolvers

\* The call of d has been answered with success; it was about request r.
Settled(d, r) == local[d].target = r /\ pc[d] = "done"

\* A resolved request is changed or removed again only by a handler that met the one which
\* resolved it.
ReopenedOnlyByMeeting ==
    [][\A r \in Calls : Resolved(r) /\ requests'[r] # requests[r] =>
          \E c, d \in Calls : /\ Resolving(c) /\ local[c].target = r /\ pc'[c] = "done"
                              /\ Settled(d, r) /\ <<c, d>> \in resolvers]_recorded

\* What the ledger says was taken from a budget, and the part of it whose call met no other
\* at the balance.
Entries(k) == {w \in ledger : w.key = k}
Sum(S) == SumFunctionOnSet([w \in ledger |-> w.amount], S)
Unmet(k) == {w \in Entries(k) : \A c \in Calls : <<w.id, c>> \notin spenders}

\* S is what the balance n of budget k accounts for: everything that was taken alone and
\* perhaps more.
Explains(S, k, n) == Unmet(k) \subseteq S /\ n = budget[k].initial - Sum(S)

\* Overlapping deductions overwrite each other's balance, but each lost withdrawal is one
\* that met another at the balance: currentAmount is initialAmount minus a part of the ledger
\* that contains every withdrawal made alone (deductCompanyBudgetByUserId), as long as no
\* administrator has set it.
BalanceExplained ==
    \A k \in Keys : ~Administered(k) =>
        \E S \in SUBSET Entries(k) : Explains(S, k, budget[k].current)

-----------------------------------------------------------------------------
(* The inductive invariant of RecordedSpec *)

Recorded == /\ AtOneRequest \subseteq resolvers /\ AtOneBalance \subseteq spenders
            /\ \A c, d \in Calls : <<c, d>> \in resolvers => <<d, c>> \in resolvers

\* Only rejections come to the last step of rejectOrderRequest.
RejectErrand == \A c \in Calls : pc[c] = "reject" => local[c].kind = "reject"

\* A handler that has read its request as pending finds it so, or met whoever settled it.
StaleByMeeting ==
    \A c \in Calls : Resolving(c) =>
        \/ requests[local[c].target].status = "PENDING"
        \/ \E d \in Calls : Settled(d, local[c].target) /\ <<c, d>> \in resolvers

\* A request that has been ordered is not read as pending any more, and whoever has read it
\* met the one that ordered it.
OrderedIsResolved ==
    \A r \in Calls : \A o \in OrderedFor(r) :
        /\ pc[r] = "done" /\ requests[r].status # "PENDING"
        /\ \A c \in Calls : Resolving(c) /\ local[c].target = r => <<o.id, c>> \in resolvers

MeetingInv == /\ Recorded /\ RejectErrand /\ StaleByMeeting /\ OrderedIsResolved
              /\ SecondOrderOnlyByMeeting /\ RejectedOrderOnlyByMeeting

\* What a deduction checked was explained when it was read and still is: what others withdraw
\* meanwhile, they withdraw in its presence.
CheckExplained ==
    \A c \in Calls : Withdrawing(c) /\ ~Administered(Key(c)) =>
        \E S \in SUBSET Entries(Key(c)) : Explains(S, Key(c), local[c].before)

LedgerInv == IsFiniteSet(ledger) /\ BalanceExplained /\ CheckExplained
=============================================================================
