---------------------------- MODULE Procurement ----------------------------
(***************************************************************************)
(* What the purchasing handlers promise to their clients, whatever other   *)
(* calls do at the same time: a call acts on what it found of its row at   *)
(* some moment while it ran, and acts once.  A call that has found a       *)
(* request pending may resolve it; a call that has been quoted a balance   *)
(* takes its amount from that balance, and the ledger says so; a call that *)
(* has been charged may place an order for exactly that amount.  When two  *)
(* calls are between the finding and the acting at one row, the later one  *)
(* acts on what is no longer so: that is promised, too.  A charge need not *)
(* be followed by its order: the two are committed apart.                  *)
(***************************************************************************)
EXTENDS Integers

CONSTANTS
    Calls, Users, Companies, CompanyOf,
    Keys,       \* the budgets: a company and a month each
    Amounts,    \* the amounts of money in play
    MaxAmount,  \* the largest amount an administrator can set
    None

VARIABLES
    requests, orders, budget, ledger,
    findings,   \* <<c, r>>: call c has found request r pending and may act on it
    quotes      \* what calls have found in a budget and may take from it

tables == <<requests, orders, budget, ledger>>
vars == <<tables, findings, quotes>>

Absent(r) == requests[r].status = "ABSENT"
Pending(r) == requests[r].status = "PENDING"

Init ==
    /\ \A r \in Calls : Absent(r) \/ Pending(r)
    /\ \A r \in Calls : requests[r].order = None
    /\ \A k \in Keys : budget[k].current >= 0
    /\ orders = {} /\ ledger = {}
    /\ findings = {} /\ quotes = {}

\* A new request: pending, or approved at once when an administrator makes it.
Submit(r) ==
    /\ Absent(r)
    /\ \E status \in {"PENDING", "APPROVED"}, u \in Users, total \in Amounts :
          requests' = [requests EXCEPT ![r] =
              [status |-> status, requester |-> u, total |-> total, order |-> None,
               resolved |-> FALSE]]
    /\ UNCHANGED <<orders, budget, ledger, findings, quotes>>

\* Call c finds request r pending.
Find(c, r) ==
    /\ Pending(r)
    /\ \A f \in findings : f[1] # c
    /\ findings' = findings \cup {<<c, r>>}
    /\ UNCHANGED <<tables, quotes>>

\* Call c finds a budget that covers what it wants to take.
Ask(c) ==
    /\ \A w \in ledger \cup quotes : w.id # c
    /\ \E k \in Keys, amount \in Amounts :
          /\ budget[k].exists
          /\ budget[k].current >= amount
          /\ quotes' = quotes \cup
                {[id |-> c, key |-> k, amount |-> amount, before |-> budget[k].current]}
    /\ UNCHANGED <<tables, findings>>

\* What was quoted is taken from the balance that was quoted.
Charge(q) ==
    LET after == q.before - q.amount
    IN  /\ budget' = [budget EXCEPT ![q.key].current = after]
        /\ ledger' = ledger \cup {[id |-> q.id, key |-> q.key, amount |-> q.amount,
                                   before |-> q.before, after |-> after]}
        /\ quotes' = quotes \ {q}
        /\ UNCHANGED <<requests, orders, findings>>

\* Call c, which has been charged, places its order.
Place(c, company, total) ==
    /\ \E w \in ledger : w.id = c /\ w.key[1] = company /\ w.amount = total
    /\ \A o \in orders : o.id # c
    /\ orders' = orders \cup {[id |-> c, company |-> company, total |-> total]}
    /\ UNCHANGED <<budget, ledger, quotes>>

Purchase(c) ==
    /\ \E company \in Companies, total \in Amounts : Place(c, company, total)
    /\ UNCHANGED <<requests, findings>>

\* A request that has been found pending is resolved, if it is still there.
Resolve(c, r, row) ==
    /\ <<c, r>> \in findings
    /\ ~Absent(r)
    /\ requests' = [requests EXCEPT ![r] = row]
    /\ findings' = findings \ {<<c, r>>}

Approve(c, r) ==
    /\ Resolve(c, r, [requests[r] EXCEPT !.status = "APPROVED", !.order = c,
                                         !.resolved = TRUE])
    /\ Place(c, CompanyOf[requests[r].requester], requests[r].total)

Reject(c, r) ==
    /\ Resolve(c, r, [requests[r] EXCEPT !.status = "REJECTED", !.resolved = TRUE])
    /\ UNCHANGED <<orders, budget, ledger, quotes>>

Withdraw(c, r) ==
    /\ \E u \in Users :
          Resolve(c, r, [status |-> "ABSENT", requester |-> u, total |-> 0, order |-> None,
                         resolved |-> FALSE])
    /\ UNCHANGED <<orders, budget, ledger, quotes>>

\* Calls that have failed act no more.
GiveUp ==
    /\ findings' \in SUBSET findings
    /\ quotes' \in SUBSET quotes
    /\ UNCHANGED tables

\* An administrator sets a budget by hand: nothing is written to the ledger.
SetBudget(k) ==
    /\ \E current, initial \in Amounts, named \in BOOLEAN :
          /\ current <= MaxAmount /\ initial <= MaxAmount
          /\ budget' = [budget EXCEPT ![k] = [exists |-> TRUE, current |-> current,
                                              initial |-> initial, named |-> named]]
    /\ UNCHANGED <<requests, orders, ledger, findings, quotes>>

Next ==
    \/ \E c \in Calls : Submit(c) \/ Ask(c) \/ Purchase(c)
    \/ \E c, r \in Calls : Find(c, r) \/ Approve(c, r) \/ Reject(c, r) \/ Withdraw(c, r)
    \/ \E q \in quotes : Charge(q)
    \/ \E k \in Keys : SetBudget(k)
    \/ GiveUp

Spec == Init /\ [][Next]_vars
=============================================================================
