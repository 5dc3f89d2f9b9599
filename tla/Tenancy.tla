------------------------------ MODULE Tenancy ------------------------------
(***************************************************************************)
(* Colleges as tenants of the assessment API: accounts and seats           *)
(* (auth.service.js, college.service.js), plans and Stripe                 *)
(* (billing.service.js), and what a college may submit (quota.service.js,  *)
(* checkPlanUsageLimit, the beginning of submitSolution).                  *)
(*                                                                         *)
(* MongoDB and Redis run one call at a time; a handler is one action per   *)
(* call.  Stripe is external: it creates customers, takes payments, and    *)
(* delivers events in any order and, when "redeliver" is in `ops', more    *)
(* than once.  The status and the period stored for a college are shown    *)
(* only: they are left out.                                                *)
(***************************************************************************)
EXTENDS Integers, FiniteSets

CONSTANTS
    Request,       \* requests that may be in flight together
    College,       \* tenants
    Founded,       \* the colleges there are at the beginning, all on one plan
    Email,         \* accounts
    Student,       \* who submits, in the only college of such a behaviour
    Customer,      \* customers Stripe may create
    Subscription,  \* checkouts, and the subscriptions that come of them
    SeatLimit,     \* seats of the free plan
    Allowance,     \* submissionQuotaPerMonth of the free plan
    StudentQuota, CollegeQuota,
    MaxAdmitted,   \* bound on stored submissions
    MaxRation,     \* bound on what a student may take of one window's budget
    Mixes,         \* bound: the sets of operations clients call in one behaviour
    None

ASSUME TenancyAssumption ==
    /\ Founded \subseteq College
    /\ IsFiniteSet(Email) /\ IsFiniteSet(Request)
    /\ SeatLimit \in Nat /\ Allowance \in Nat /\ MaxAdmitted \in Nat
    /\ StudentQuota \in Nat /\ CollegeQuota \in Nat /\ MaxRation \in Nat
    /\ None \notin College \cup Customer \cup Student

VARIABLES
    plan,      \* the plan of each college, "none" before it exists
    customer,  \* its stripeCustomerId
    user,      \* the college of each registered e-mail address
    account,   \* Stripe: each customer's college
    subscription,  \* Stripe: whose each is, and how far it has come
    events,    \* Stripe: webhook deliveries that are due
    standing,  \* what each subscription has done for its college's plan
    hits,      \* Redis: the counters of the students' window and of the college's
    share,     \* what each student has taken of the college's window
    ration,    \* and what their own windows have let them take of it
    admitted,  \* submissions stored
    metered,   \* usage events the judge has written
    req,       \* where each request is, and what it holds
    ops        \* the operations clients call in this behaviour

tenants == <<plan, customer, user>>
stripe == <<account, subscription, events, standing>>
usage == <<hits, share, ration, admitted, metered>>
vars == <<tenants, stripe, usage, req, ops>>

\* `who' is the college, student or customer a request is about, `seen' a value
\* it has read, `todo' the rows of a batch, `made' the accounts it has created.
Idle == [at |-> "idle", kind |-> "none", who |-> None, seen |-> "none",
         todo |-> {}, batch |-> {}, made |-> {}]

Init ==
    /\ \E p \in {"free", "pro"} :
          plan = [c \in College |-> IF c \in Founded THEN p ELSE "none"]
    /\ customer = [c \in College |-> None]
    /\ user = [e \in Email |-> None]
    /\ account = [k \in Customer |-> None]
    /\ subscription = [u \in Subscription |-> [of |-> None, state |-> "none"]]
    /\ events = {} /\ standing = [u \in Subscription |-> "unheard"]
    /\ hits = [k \in Student \cup {"college"} |-> 0]
    /\ share = [s \in Student |-> 0]
    /\ ration = [s \in Student |-> StudentQuota]
    /\ admitted = 0 /\ metered = 0
    /\ req = [r \in Request |-> Idle]
    /\ ops \in Mixes

Begins(r, op, rec) == /\ op \in ops /\ req[r] = Idle
                      /\ req' = [req EXCEPT ![r] = rec]
Ends(r) == req' = [req EXCEPT ![r] = Idle]
Goes(r, place) == req' = [req EXCEPT ![r].at = place]

-----------------------------------------------------------------------------
(* Accounts.                                                               *)

Seats(c) == Cardinality({e \in Email : user[e] = c})

\* register: one account; bulkRegister: the rows of an upload, distinct by then.
register(r) ==
    /\ \E c \in College, e \in Email :
          /\ plan[c] # "none"
          /\ Begins(r, "register", [Idle EXCEPT !.at = "check", !.kind = "one",
                                      !.who = c, !.todo = {e}])
    /\ UNCHANGED <<tenants, stripe, usage, ops>>

bulkRegister(r) ==
    /\ \E c \in College, es \in SUBSET Email :
          /\ plan[c] # "none" /\ es # {}
          /\ Begins(r, "bulk", [Idle EXCEPT !.at = "check", !.kind = "many",
                                  !.who = c, !.todo = es])
    /\ UNCHANGED <<tenants, stripe, usage, ops>>

\* uniqueSlug finds a free one; the college's admin is registered after it is made.
signup(r) ==
    /\ \E c \in College, e \in Email :
          /\ plan[c] = "none"
          /\ Begins(r, "signup", [Idle EXCEPT !.at = "found", !.kind = "signup",
                                    !.who = c, !.todo = {e}])
    /\ UNCHANGED <<tenants, stripe, usage, ops>>

\* The slug is unique: the slower of two signups of one name fails.
signupCreate(r) ==
    /\ req[r].at = "found"
    /\ IF plan[req[r].who] # "none" THEN Ends(r) /\ UNCHANGED plan
       ELSE plan' = [plan EXCEPT ![req[r].who] = "free"] /\ Goes(r, "check")
    /\ UNCHANGED <<customer, user, stripe, usage, ops>>

\* What an error comes to: a signup takes its college back, a batch its accounts.
Refused(r) == IF req[r].kind = "signup" THEN Goes(r, "undo") ELSE Ends(r)
Broken(r) == IF req[r].kind = "many" THEN Goes(r, "rollback") ELSE Refused(r)

\* User.findOne for a row; a batch reports a known address and goes on.
checkRow(r) ==
    /\ req[r].at = "check"
    /\ \E e \in req[r].todo :
          \/ /\ user[e] # None /\ req[r].kind # "many" /\ Refused(r)
          \/ /\ user[e] # None /\ req[r].kind = "many"
             /\ req' = [req EXCEPT ![r].todo = @ \ {e}]
          \/ /\ user[e] = None
             /\ req' = [req EXCEPT ![r].todo = @ \ {e}, ![r].batch = @ \cup {e}]
    /\ UNCHANGED <<tenants, stripe, usage, ops>>

\* The college's plan, and with a limited one the count of its accounts.
assertSeatCapacity(r) ==
    /\ req[r].at = "check" /\ req[r].todo = {}
    /\ IF req[r].batch = {} THEN Ends(r)
       ELSE Goes(r, IF plan[req[r].who] = "free" THEN "count" ELSE "create")
    /\ UNCHANGED <<tenants, stripe, usage, ops>>

\* Defect: only the accounts there are, not the incoming ones.
assertSeatCountIgnoresIncoming(r) ==
    /\ req[r].at = "count"
    /\ IF Seats(req[r].who) > SeatLimit THEN Refused(r) ELSE Goes(r, "create")
    /\ UNCHANGED <<tenants, stripe, usage, ops>>

assertSeatCount(r) ==
    /\ req[r].at = "count"
    /\ IF Seats(req[r].who) + Cardinality(req[r].batch) > SeatLimit
       THEN Refused(r) ELSE Goes(r, "create")
    /\ UNCHANGED <<tenants, stripe, usage, ops>>

\* User.create under the unique index on the address.
createUser(r) ==
    /\ req[r].at = "create"
    /\ \E e \in req[r].batch :
          IF user[e] # None THEN Broken(r) /\ UNCHANGED user
          ELSE /\ user' = [user EXCEPT ![e] = req[r].who]
               /\ IF req[r].batch = {e} THEN Ends(r)
                  ELSE req' = [req EXCEPT ![r].batch = @ \ {e}, ![r].made = @ \cup {e}]
    /\ UNCHANGED <<plan, customer, stripe, usage, ops>>

\* The database refuses an account for another reason.
createUserFails(r) ==
    /\ "fail" \in ops /\ req[r].at = "create" /\ Broken(r)
    /\ UNCHANGED <<tenants, stripe, usage, ops>>

\* Defect: the rows of the upload are removed, not the accounts it made.
rollbackByRow(r) ==
    /\ req[r].at = "rollback" /\ Ends(r)
    /\ user' = [e \in Email |-> IF e \in req[r].made \cup req[r].batch
                                THEN None ELSE user[e]]
    /\ UNCHANGED <<plan, customer, stripe, usage, ops>>

rollback(r) ==
    /\ req[r].at = "rollback" /\ Ends(r)
    /\ user' = [e \in Email |-> IF e \in req[r].made THEN None ELSE user[e]]
    /\ UNCHANGED <<plan, customer, stripe, usage, ops>>

undoSignup(r) ==
    /\ req[r].at = "undo" /\ Ends(r)
    /\ plan' = [plan EXCEPT ![req[r].who] = "none"]
    /\ UNCHANGED <<customer, user, stripe, usage, ops>>

-----------------------------------------------------------------------------
(* Plans and Stripe.                                                       *)

createCheckoutSession(r) ==
    /\ \E c \in College :
          /\ plan[c] # "none"
          /\ Begins(r, "checkout", [Idle EXCEPT !.who = c, !.seen = customer[c],
                    !.at = IF customer[c] = None THEN "newCustomer" ELSE "session"])
    /\ UNCHANGED <<tenants, stripe, usage, ops>>

\* stripe.customers.create, which may fail.
createCustomer(r) ==
    /\ req[r].at = "newCustomer"
    /\ \/ \E k \in Customer :
             /\ account[k] = None
             /\ account' = [account EXCEPT ![k] = req[r].who]
             /\ req' = [req EXCEPT ![r].at = "saveCustomer", ![r].seen = k]
       \/ Ends(r) /\ UNCHANGED account
    /\ UNCHANGED <<tenants, subscription, events, standing, usage, ops>>

saveCustomer(r) ==
    /\ req[r].at = "saveCustomer" /\ Goes(r, "session")
    /\ customer' = [customer EXCEPT ![req[r].who] = req[r].seen]
    /\ UNCHANGED <<plan, user, stripe, usage, ops>>

\* stripe.checkout.sessions.create, for the customer this request knows, whatever
\* else that customer has subscribed to.
createSession(r) ==
    /\ req[r].at = "session" /\ Ends(r)
    /\ \/ \E u \in Subscription :
             /\ subscription[u].state = "none"
             /\ subscription' = [subscription EXCEPT ![u] = [of |-> req[r].seen,
                                                            state |-> "offered"]]
       \/ UNCHANGED subscription
    /\ UNCHANGED <<tenants, account, events, standing, usage, ops>>

\* A checkout is paid, a subscription runs out or is cancelled in the portal.
Stripe(u, from, to, type) ==
    /\ subscription[u].state = from
    /\ subscription' = [subscription EXCEPT ![u].state = to]
    /\ events' = events \cup {[type |-> type, of |-> u]}
    /\ UNCHANGED <<tenants, account, standing, usage, req, ops>>

Pay == \E u \in Subscription : Stripe(u, "offered", "live", "completed")

Cancel == "cancel" \in ops /\ \E u \in Subscription : Stripe(u, "live", "canceled", "deleted")

\* The college of a subscription.
Payer(u) == account[subscription[u].of]

\* Stripe sends an event again after an answer it did not get.
Delivered(e) == \/ events' = events \ {e}
                \/ "redeliver" \in ops /\ UNCHANGED events

\* Defect: the college is looked up by its customer, like for the other events.
checkoutCompletedByCustomer ==
    /\ \E e \in events :
          /\ e.type = "completed" /\ Delivered(e)
          /\ plan' = [c \in College |-> IF customer[c] = subscription[e.of].of THEN "pro"
                                                                              ELSE plan[c]]
          /\ standing' = [standing EXCEPT ![e.of] = "served"]
    /\ UNCHANGED <<customer, user, account, subscription, usage, req, ops>>

\* handleStripeEvent: the session's metadata name the college.
checkoutCompleted ==
    /\ \E e \in events :
          /\ e.type = "completed" /\ Delivered(e)
          /\ plan' = [plan EXCEPT ![Payer(e.of)] = "pro"]
          /\ standing' = [standing EXCEPT ![e.of] = "served"]
    /\ UNCHANGED <<customer, user, account, subscription, usage, req, ops>>

\* handleStripeEvent: College.findOne by customer, then save.
subscriptionDeleted(r) ==
    /\ req[r] = Idle
    /\ \E e \in events :
          /\ e.type = "deleted" /\ Delivered(e)
          /\ \/ /\ \A c \in College : customer[c] # subscription[e.of].of
                /\ UNCHANGED req
             \/ \E c \in College :
                   /\ customer[c] = subscription[e.of].of
                   /\ req' = [req EXCEPT ![r] = [Idle EXCEPT !.at = "savePlan", !.who = c,
                                                   !.seen = plan[c], !.kind = "free"]]
    /\ UNCHANGED <<tenants, account, subscription, standing, usage, ops>>

setCollegePlan(r) ==
    /\ \E c \in College, p \in {"free", "pro"} :
          /\ plan[c] # "none"
          /\ Begins(r, "manual", [Idle EXCEPT !.at = "savePlan", !.who = c,
                                    !.seen = plan[c], !.kind = p])
    /\ UNCHANGED <<tenants, stripe, usage, ops>>

\* college.save() writes the plan only if it differs from the one that was read.
\* Whoever writes "free" takes the plan from every subscription that had got it.
savePlan(r) ==
    /\ req[r].at = "savePlan" /\ Ends(r)
    /\ IF req[r].seen = req[r].kind THEN UNCHANGED <<plan, standing>>
       ELSE /\ plan' = [plan EXCEPT ![req[r].who] = req[r].kind]
            /\ standing' = [u \in Subscription |->
                  IF req[r].kind = "free" /\ standing[u] = "served" /\ Payer(u) = req[r].who
                  THEN "taken" ELSE standing[u]]
    /\ UNCHANGED <<customer, user, account, subscription, events, usage, ops>>

-----------------------------------------------------------------------------
(* What a college may submit.                                              *)

\* Defect: the college's counter is incremented before the student's is looked at.
checkStudentQuotaLast(r) ==
    /\ "submit" \in ops /\ req[r] = Idle
    /\ \E s \in Student :
          /\ hits' = [hits EXCEPT ![s] = @ + 1, !["college"] = @ + 1]
          /\ share' = [share EXCEPT ![s] = @ + 1]
          /\ req' = [req EXCEPT ![r] = IF hits[s] < StudentQuota /\ hits["college"] < CollegeQuota
                        THEN [Idle EXCEPT !.at = "usage", !.who = s]
                        ELSE Idle]
          /\ hits[s] <= StudentQuota + 1
    /\ UNCHANGED <<tenants, stripe, ration, admitted, metered, ops>>

\* checkFixedWindowQuota for the student: INCR, then compare.  A student past the
\* limit stays past it: the counter is not counted further.
checkStudentSubmissionQuota(r) ==
    /\ "submit" \in ops /\ req[r] = Idle
    /\ \E s \in Student :
          /\ hits[s] <= StudentQuota
          /\ hits' = [hits EXCEPT ![s] = @ + 1]
          /\ req' = [req EXCEPT ![r] = IF hits[s] < StudentQuota
                        THEN [Idle EXCEPT !.at = "college", !.who = s] ELSE Idle]
    /\ UNCHANGED <<tenants, stripe, share, ration, admitted, metered, ops>>

checkCollegeSubmissionQuota(r) ==
    /\ req[r].at = "college"
    /\ hits' = [hits EXCEPT !["college"] = IF @ <= CollegeQuota THEN @ + 1 ELSE @]
    /\ share' = [share EXCEPT ![req[r].who] = @ + 1]
    /\ IF hits["college"] < CollegeQuota THEN Goes(r, "usage") ELSE Ends(r)
    /\ UNCHANGED <<tenants, stripe, ration, admitted, metered, ops>>

\* Redis is away, or its answer is lost: each check lets the submission through by
\* itself, counted or not.
studentQuotaFailsOpen(r) ==
    /\ "outage" \in ops /\ req[r] = Idle
    /\ \E s \in Student :
          /\ ration[s] < MaxRation /\ hits[s] <= StudentQuota
          /\ ration' = [ration EXCEPT ![s] = @ + 1]
          /\ hits' = hits \/ hits' = [hits EXCEPT ![s] = @ + 1]
          /\ req' = [req EXCEPT ![r] = [Idle EXCEPT !.at = "college", !.who = s]]
    /\ UNCHANGED <<tenants, stripe, share, admitted, metered, ops>>

collegeQuotaFailsOpen(r) ==
    /\ "outage" \in ops /\ req[r].at = "college" /\ Goes(r, "usage")
    /\ \/ UNCHANGED <<hits, share>>
       \/ /\ hits["college"] <= CollegeQuota
          /\ hits' = [hits EXCEPT !["college"] = @ + 1]
          /\ share' = [share EXCEPT ![req[r].who] = @ + 1]
    /\ UNCHANGED <<tenants, stripe, ration, admitted, metered, ops>>

\* The plan's allowance is compared with what has been metered; then the
\* submission is stored.
checkPlanUsageLimit(r) ==
    /\ req[r].at = "usage"
    /\ IF metered < Allowance \/ \E c \in Founded : plan[c] = "pro"
       THEN Goes(r, "admit") ELSE Ends(r)
    /\ UNCHANGED <<tenants, stripe, usage, ops>>

submitSolution(r) ==
    /\ req[r].at = "admit" /\ Ends(r)
    /\ admitted' = IF admitted < MaxAdmitted THEN admitted + 1 ELSE admitted
    /\ UNCHANGED <<tenants, stripe, hits, share, ration, metered, ops>>

\* The judge writes a usage event when it has judged a submission.
Meter == /\ metered < admitted /\ metered' = metered + 1
         /\ UNCHANGED <<tenants, stripe, hits, share, ration, admitted, req, ops>>

\* Submissions the student's counter has let through on their way to the college's.
Waiting(s) == {r \in Request : req[r].at = "college" /\ req[r].who = s}

\* The next window has other keys, and the two windows have lengths of their own.  In
\* the students' a new quota is added to what they may take of the college's; the
\* college's begins with a quota and with what is on its way.
studentWindowPasses ==
    /\ "submit" \in ops /\ \A s \in Student : ration[s] + StudentQuota <= MaxRation
    /\ hits' = [k \in DOMAIN hits |-> IF k = "college" THEN hits[k] ELSE 0]
    /\ ration' = [s \in Student |-> ration[s] + StudentQuota]
    /\ UNCHANGED <<tenants, stripe, share, admitted, metered, req, ops>>

collegeWindowPasses ==
    /\ "submit" \in ops
    /\ hits' = [hits EXCEPT !["college"] = 0]
    /\ share' = [s \in Student |-> 0]
    /\ ration' = [s \in Student |-> StudentQuota + Cardinality(Waiting(s))]
    /\ UNCHANGED <<tenants, stripe, admitted, metered, req, ops>>

-----------------------------------------------------------------------------

Accounts(r) ==
    \/ register(r) \/ bulkRegister(r) \/ signup(r) \/ signupCreate(r) \/ checkRow(r)
    \/ assertSeatCapacity(r) \/ assertSeatCount(r) \/ createUser(r) \/ createUserFails(r)
    \/ rollback(r) \/ undoSignup(r)

Billing(r) ==
    \/ createCheckoutSession(r) \/ createCustomer(r) \/ saveCustomer(r) \/ createSession(r)
    \/ subscriptionDeleted(r) \/ setCollegePlan(r) \/ savePlan(r)

Submitting(r) ==
    \/ checkStudentSubmissionQuota(r) \/ checkCollegeSubmissionQuota(r)
    \/ studentQuotaFailsOpen(r) \/ collegeQuotaFailsOpen(r)
    \/ checkPlanUsageLimit(r) \/ submitSolution(r)

Next ==
    \/ \E r \in Request : Accounts(r) \/ Billing(r) \/ Submitting(r)
    \/ Pay \/ Cancel \/ checkoutCompleted \/ Meter
    \/ studentWindowPasses \/ collegeWindowPasses

Spec == Init /\ [][Next]_vars

-----------------------------------------------------------------------------
(* Properties.                                                             *)

\* assertSeatCapacity counts before it creates: registrations and uploads that
\* overlap may exceed the limit of the free plan together, though none does alone.
SeatsBounded ==
    \A c \in College : plan[c] = "free" /\ ops \cap {"checkout", "manual"} = {} =>
        Seats(c) <= SeatLimit * Cardinality(Request)

\* A signup that fails, because of the address or of a race for the name, leaves
\* no college behind that nobody administers, and takes none back that has accounts
\* (college.service.js).
NoEmptyCollege ==
    /\ \A c \in College \ Founded : plan[c] # "none" =>
          Seats(c) > 0 \/ \E r \in Request : req[r].kind = "signup" /\ req[r].who = c
    /\ \A e \in Email : user[e] # None => plan[user[e]] # "none"

\* A failing request harms no other one: a signup as NoEmptyCollege says, and a
\* bulkRegister removes the accounts it has made and no other, although another request
\* may have registered an address of the same upload meanwhile.
FailuresSpareOthers ==
    /\ []NoEmptyCollege
    /\ [][\A e \in Email : user[e] # None /\ user'[e] = None =>
             \E r \in Request : req[r].at = "rollback" /\ e \in req[r].made]_vars

\* A college keeps the plan it pays for, in whatever order and however often the
\* events of its payments and cancellations arrive, and although checkouts may have
\* raced for its customer record: the event of a running subscription is due, or
\* gave the college its plan, and only a later write of "free" has taken that away,
\* which comes of the cancellation of another subscription of the same college (or
\* of the superadmin).  So a cancellation that is heard of before a payment, or that
\* belongs to a customer the college does not know, costs it nothing (handleStripeEvent).
PaidIsServed ==
    \A u \in Subscription : subscription[u].state = "live" =>
        \/ standing[u] = "unheard" /\ [type |-> "completed", of |-> u] \in events
        \/ standing[u] = "served" /\ plan[Payer(u)] = "pro"
        \/ /\ standing[u] = "taken"
           /\ \/ "manual" \in ops
              \/ \E v \in Subscription :
                    subscription[v].state = "canceled" /\ Payer(v) = Payer(u)

\* What one student takes of the college's budget in its window is bounded by their
\* own quota: once per window of theirs that meets it, plus the submissions that were
\* on their way when it began, plus the checks that Redis failed to make
\* (quota.service.js: "so that can't happen"; submitSolution: "student limit first").
FairShare == \A s \in Student : share[s] <= ration[s]
=============================================================================
