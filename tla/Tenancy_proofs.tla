--------------------------- MODULE Tenancy_proofs ---------------------------
(***************************************************************************)
(* Theorems about the colleges of the assessment API, for any number of    *)
(* colleges, accounts, requests in flight and customers, and any limits.   *)
(***************************************************************************)
EXTENDS Tenancy, FiniteSetTheorems, FunctionTheorems, TLAPS

Plan == {"none", "free", "pro"}

\* Places of the requests that make accounts, of those that change plans, and of
\* those that submit.
Registering == {"found", "check", "count", "create", "rollback", "undo"}
Paying == {"newCustomer", "saveCustomer", "session", "savePlan"}
Admitting == {"college", "usage", "admit"}

TenantType ==
    /\ plan \in [College -> Plan]
    /\ customer \in [College -> Customer \cup {None}]
    /\ user \in [Email -> College \cup {None}]

StripeType ==
    /\ account \in [Customer -> College \cup {None}]
    /\ subscription \in [Subscription -> [of : Customer \cup {None},
                                          state : {"none", "offered", "live", "canceled"}]]
    /\ events \subseteq [type : {"completed", "deleted"}, of : Subscription]
    /\ standing \in [Subscription -> {"unheard", "served", "taken"}]

UsageType ==
    /\ hits \in [Student \cup {"college"} -> Nat]
    /\ share \in [Student -> Nat] /\ ration \in [Student -> Nat]
    /\ admitted \in Nat /\ metered \in Nat

RequestType ==
    [at : {"idle"} \cup Registering \cup Paying \cup Admitting,
     kind : {"none", "one", "many", "signup", "free", "pro"},
     who : College \cup Student \cup {None},
     seen : {"none", "free", "pro"} \cup Customer \cup {None},
     todo : SUBSET Email, batch : SUBSET Email, made : SUBSET Email]

\* What a request is about, by its place.
Placed(q) ==
    /\ q.at \in Registering => q.who \in College /\ q.kind \in {"one", "many", "signup"}
    /\ q.at \in {"found", "undo"} => q.kind = "signup"
    /\ q.at = "rollback" => q.kind = "many"
    /\ q.at \in Paying => q.who \in College /\ q.kind \in {"none", "free", "pro"}
    /\ q.at = "savePlan" => q.kind \in {"free", "pro"}
    /\ q.at \in {"saveCustomer", "session"} => q.seen \in Customer
    /\ q.at \in Admitting => q.who \in Student /\ q.kind = "none"
    /\ q.at = "idle" => q.kind = "none"

ReqType == req \in [Request -> RequestType] /\ \A r \in Request : Placed(req[r])

TypeOK == TenantType /\ StripeType /\ UsageType /\ ReqType

-----------------------------------------------------------------------------
(* Types. *)

LEMMA IdleType == Idle \in RequestType /\ Placed(Idle)
  BY DEF Idle, RequestType, Placed, Registering, Paying, Admitting

\* A request becomes q.
LEMMA MoveType ==
    ASSUME ReqType, NEW r \in Request, NEW q \in RequestType, Placed(q),
           req' = [req EXCEPT ![r] = q]
    PROVE  ReqType' /\ req'[r] = q /\ \A x \in Request \ {r} : req'[x] = req[x]
  BY DEF ReqType

LEMMA EndsType ==
    ASSUME ReqType, NEW r \in Request, Ends(r)
    PROVE  ReqType' /\ req'[r] = Idle /\ \A x \in Request \ {r} : req'[x] = req[x]
  BY IdleType, MoveType DEF Ends

\* It goes on to another place of the same handler.
LEMMA GoesType ==
    ASSUME ReqType, NEW r \in Request, NEW place, Goes(r, place),
           place \in Registering \cup Paying \cup Admitting,
           Placed([req[r] EXCEPT !.at = place])
    PROVE  /\ ReqType' /\ req'[r] = [req[r] EXCEPT !.at = place]
           /\ \A x \in Request \ {r} : req'[x] = req[x]
<1>1. [req[r] EXCEPT !.at = place] \in RequestType
  BY DEF ReqType, RequestType
<1>. QED
  BY <1>1, MoveType DEF Goes

\* A handler that makes accounts goes on, is refused, or breaks.
LEMMA AccountsGoes ==
    ASSUME ReqType, NEW r \in Request, req[r].at \in Registering
    PROVE  /\ \A place \in {"check", "count", "create"} : Goes(r, place) => ReqType'
           /\ Refused(r) => ReqType'
           /\ Broken(r) => ReqType'
<1>0. req[r] \in RequestType /\ Placed(req[r])
  BY DEF ReqType
<1>1. ASSUME NEW place \in {"check", "count", "create"}, Goes(r, place) PROVE ReqType'
  <2>1. Placed([req[r] EXCEPT !.at = place])
    BY <1>0 DEF Placed, RequestType, Registering, Paying, Admitting
  <2>. QED
    BY <1>1, <2>1, GoesType DEF Registering
<1>2. ASSUME Refused(r) PROVE ReqType'
  <2>1. CASE req[r].kind = "signup"
    <3>1. Placed([req[r] EXCEPT !.at = "undo"])
      BY <1>0, <2>1 DEF Placed, RequestType, Registering, Paying, Admitting
    <3>. QED
      BY <1>2, <2>1, <3>1, GoesType DEF Registering, Refused
  <2>2. CASE req[r].kind # "signup"
    BY <1>2, <2>2, EndsType DEF Refused
  <2>. QED
    BY <2>1, <2>2
<1>3. ASSUME Broken(r) PROVE ReqType'
  <2>1. CASE req[r].kind = "many"
    <3>1. Placed([req[r] EXCEPT !.at = "rollback"])
      BY <1>0, <2>1 DEF Placed, RequestType, Registering, Paying, Admitting
    <3>. QED
      BY <1>3, <2>1, <3>1, GoesType DEF Registering, Broken
  <2>2. CASE req[r].kind # "many"
    BY <1>2, <1>3, <2>2 DEF Broken
  <2>. QED
    BY <2>1, <2>2
<1>. QED
  BY <1>1, <1>2, <1>3

LEMMA AccountsType ==
    ASSUME TypeOK, NEW r \in Request, Accounts(r)
    PROVE  TypeOK'
<1>0. req[r] \in RequestType /\ Placed(req[r]) /\ ReqType
  BY DEF TypeOK, ReqType
<1>1. StripeType' /\ UsageType'
  BY DEF TypeOK, StripeType, UsageType, stripe, usage, Accounts, register, bulkRegister, signup,
         signupCreate, checkRow, assertSeatCapacity, assertSeatCount, createUser,
         createUserFails, rollback, undoSignup
<1>2. CASE register(r) \/ bulkRegister(r) \/ signup(r)
  <2>1. PICK c \in College, es \in SUBSET Email, at \in {"check", "found"},
             kind \in {"one", "many", "signup"} :
          /\ at = "found" => kind = "signup"
          /\ req' = [req EXCEPT ![r] = [Idle EXCEPT !.at = at, !.kind = kind, !.who = c, !.todo = es]]
    <3>1. CASE register(r)
      <4>1. PICK c \in College, e \in Email :
              Begins(r, "register", [Idle EXCEPT !.at = "check", !.kind = "one", !.who = c, !.todo = {e}])
        BY <3>1 DEF register
      <4>. QED
        BY <4>1 DEF Begins
    <3>2. CASE bulkRegister(r)
      BY <3>2 DEF bulkRegister, Begins
    <3>3. CASE signup(r)
      <4>1. PICK c \in College, e \in Email :
              Begins(r, "signup", [Idle EXCEPT !.at = "found", !.kind = "signup", !.who = c, !.todo = {e}])
        BY <3>3 DEF signup
      <4>. QED
        BY <4>1 DEF Begins
    <3>. QED
      BY <1>2, <3>1, <3>2, <3>3
  <2> DEFINE q == [Idle EXCEPT !.at = at, !.kind = kind, !.who = c, !.todo = es]
  <2>2. q \in RequestType /\ Placed(q)
    BY <2>1 DEF Idle, RequestType, Placed, Registering, Paying, Admitting
  <2>3. ReqType'
    BY <1>0, <2>1, <2>2, MoveType
  <2>4. TenantType'
    BY <1>2 DEF TypeOK, TenantType, tenants, register, bulkRegister, signup
  <2>. QED
    BY <1>1, <2>3, <2>4 DEF TypeOK
<1>3. CASE signupCreate(r)
  <2>1. ReqType'
    BY <1>0, <1>3, EndsType, AccountsGoes DEF signupCreate, Registering
  <2>2. TenantType'
    BY <1>0, <1>3 DEF signupCreate, TypeOK, TenantType, Placed, Registering, Plan
  <2>. QED
    BY <1>1, <2>1, <2>2 DEF TypeOK
<1>4. CASE checkRow(r)
  <2>1. PICK e \in req[r].todo :
          \/ Refused(r)
          \/ req' = [req EXCEPT ![r].todo = @ \ {e}]
          \/ req' = [req EXCEPT ![r].todo = @ \ {e}, ![r].batch = @ \cup {e}]
    BY <1>4 DEF checkRow
  <2>2. ASSUME NEW b \in SUBSET Email,
               req' = [req EXCEPT ![r] = [req[r] EXCEPT !.todo = @ \ {e}, !.batch = b]]
        PROVE  ReqType'
    <3> DEFINE q == [req[r] EXCEPT !.todo = @ \ {e}, !.batch = b]
    <3>1. q \in RequestType /\ Placed(q)
      BY <1>0 DEF RequestType, Placed
    <3>. QED
      BY <1>0, <2>2, <3>1, MoveType
  <2>3. ReqType'
    <3>1. CASE Refused(r)
      BY <1>0, <1>4, <3>1, AccountsGoes DEF checkRow, Registering
    <3>2. CASE req' = [req EXCEPT ![r].todo = @ \ {e}]
      <4>1. req[r].batch \in SUBSET Email
            /\ [req[r] EXCEPT !.todo = @ \ {e}] = [req[r] EXCEPT !.todo = @ \ {e}, !.batch = req[r].batch]
        BY <1>0 DEF RequestType
      <4>. QED
        BY <2>2, <3>2, <4>1
    <3>3. CASE req' = [req EXCEPT ![r].todo = @ \ {e}, ![r].batch = @ \cup {e}]
      <4>1. req[r].batch \cup {e} \in SUBSET Email
        BY <1>0 DEF RequestType
      <4>2. req' = [req EXCEPT ![r] = [req[r] EXCEPT !.todo = @ \ {e}, !.batch = req[r].batch \cup {e}]]
        BY <1>0, <3>3 DEF ReqType
      <4>. QED
        BY <2>2, <4>1, <4>2
    <3>. QED
      BY <2>1, <3>1, <3>2, <3>3
  <2>4. TenantType'
    BY <1>4 DEF checkRow, TypeOK, TenantType, tenants
  <2>. QED
    BY <1>1, <2>3, <2>4 DEF TypeOK
<1>5. CASE assertSeatCapacity(r) \/ assertSeatCount(r) \/ createUserFails(r)
  <2>1. ReqType'
    BY <1>0, <1>5, EndsType, AccountsGoes
    DEF assertSeatCapacity, assertSeatCount, createUserFails, Registering
  <2>2. TenantType'
    BY <1>5 DEF assertSeatCapacity, assertSeatCount, createUserFails, TypeOK, TenantType, tenants
  <2>. QED
    BY <1>1, <2>1, <2>2 DEF TypeOK
<1>6. CASE createUser(r)
  <2>1. PICK e \in req[r].batch :
          IF user[e] # None THEN Broken(r) /\ UNCHANGED user
          ELSE /\ user' = [user EXCEPT ![e] = req[r].who]
               /\ IF req[r].batch = {e} THEN Ends(r)
                  ELSE req' = [req EXCEPT ![r].batch = @ \ {e}, ![r].made = @ \cup {e}]
    BY <1>6 DEF createUser
  <2>2. req[r].at \in Registering /\ req[r].who \in College
    BY <1>0, <1>6 DEF createUser, Placed, Registering
  <2>3. ReqType'
    <3>1. CASE Broken(r) \/ Ends(r)
      BY <1>0, <2>2, <3>1, EndsType, AccountsGoes
    <3>2. CASE req' = [req EXCEPT ![r].batch = @ \ {e}, ![r].made = @ \cup {e}]
      <4> DEFINE q == [req[r] EXCEPT !.batch = @ \ {e}, !.made = @ \cup {e}]
      <4>1. q \in RequestType /\ Placed(q)
        BY <1>0, <2>1 DEF RequestType, Placed
      <4>2. req' = [req EXCEPT ![r] = q]
        BY <1>0, <3>2 DEF ReqType
      <4>. QED
        BY <1>0, <4>1, <4>2, MoveType
    <3>. QED
      BY <2>1, <3>1, <3>2
  <2>4. TenantType'
    BY <1>6, <2>1, <2>2 DEF createUser, TypeOK, TenantType
  <2>. QED
    BY <1>1, <2>3, <2>4 DEF TypeOK
<1>7. CASE rollback(r) \/ undoSignup(r)
  <2>1. ReqType'
    BY <1>0, <1>7, EndsType DEF rollback, undoSignup
  <2>2. TenantType'
    BY <1>7 DEF rollback, undoSignup, TypeOK, TenantType, Plan
  <2>. QED
    BY <1>1, <2>1, <2>2 DEF TypeOK
<1>. QED
  BY <1>2, <1>3, <1>4, <1>5, <1>6, <1>7 DEF Accounts

LEMMA BillingType ==
    ASSUME TypeOK, NEW r \in Request, Billing(r)
    PROVE  TypeOK'
<1>0. req[r] \in RequestType /\ Placed(req[r]) /\ ReqType
  BY DEF TypeOK, ReqType
<1>1. UsageType'
  BY DEF TypeOK, UsageType, usage, stripe, Billing, createCheckoutSession, createCustomer,
         saveCustomer, createSession, subscriptionDeleted, setCollegePlan, savePlan
<1>2. CASE createCheckoutSession(r)
  <2>1. PICK c \in College :
          Begins(r, "checkout", [Idle EXCEPT !.who = c, !.seen = customer[c],
                    !.at = IF customer[c] = None THEN "newCustomer" ELSE "session"])
    BY <1>2 DEF createCheckoutSession
  <2>2. customer[c] \in Customer \cup {None}
    BY DEF TypeOK, TenantType
  <2> DEFINE q == [Idle EXCEPT !.who = c, !.seen = customer[c],
                     !.at = IF customer[c] = None THEN "newCustomer" ELSE "session"]
  <2>3. q \in RequestType /\ Placed(q)
    BY <2>2 DEF Placed, RequestType, Idle, Registering, Paying, Admitting
  <2>4. req' = [req EXCEPT ![r] = q]
    BY <2>1 DEF Begins
  <2>6. ReqType'
    <3>. HIDE DEF q
    <3>. QED
      BY <1>0, <2>3, <2>4, MoveType
  <2>7. TenantType' /\ StripeType'
    BY <1>2 DEF createCheckoutSession, TypeOK, TenantType, StripeType, tenants, stripe
  <2>. QED
    BY <1>1, <2>6, <2>7 DEF TypeOK
<1>3. CASE createCustomer(r)
  <2>1. TenantType'
    BY <1>3 DEF createCustomer, TypeOK, TenantType, tenants
  <2>2. CASE Ends(r) /\ UNCHANGED account
    <3>1. ReqType'
      BY <1>0, <2>2, EndsType
    <3>2. StripeType'
      BY <1>3, <2>2 DEF createCustomer, TypeOK, StripeType
    <3>. QED
      BY <1>1, <2>1, <3>1, <3>2 DEF TypeOK
  <2>3. ASSUME NEW k \in Customer, account' = [account EXCEPT ![k] = req[r].who],
               req' = [req EXCEPT ![r].at = "saveCustomer", ![r].seen = k]
        PROVE  TypeOK'
    <3> DEFINE q == [req[r] EXCEPT !.at = "saveCustomer", !.seen = k]
    <3>1. q \in RequestType /\ Placed(q)
      BY <1>0, <1>3 DEF createCustomer, RequestType, Placed, Registering, Paying, Admitting
    <3>2. req' = [req EXCEPT ![r] = q]
      BY <1>0, <2>3 DEF ReqType
    <3>3. ReqType'
      BY <1>0, <3>1, <3>2, MoveType
    <3>4. req[r].who \in College
      BY <1>0, <1>3 DEF createCustomer, Placed, Paying
    <3>5. StripeType'
      BY <1>3, <2>3, <3>4 DEF createCustomer, TypeOK, StripeType
    <3>. QED
      BY <1>1, <2>1, <3>3, <3>5 DEF TypeOK
  <2>. QED
    BY <1>3, <2>2, <2>3 DEF createCustomer
<1>4. CASE saveCustomer(r)
  <2>1. Placed([req[r] EXCEPT !.at = "session"]) /\ req[r].who \in College /\ req[r].seen \in Customer
    BY <1>0, <1>4 DEF saveCustomer, RequestType, Placed, Registering, Paying, Admitting
  <2>2. ReqType'
    BY <1>0, <1>4, <2>1, GoesType DEF saveCustomer, Paying
  <2>3. TenantType' /\ StripeType'
    BY <1>4, <2>1 DEF saveCustomer, TypeOK, TenantType, StripeType, stripe
  <2>. QED
    BY <1>1, <2>2, <2>3 DEF TypeOK
<1>5. CASE createSession(r)
  <2>1. ReqType'
    BY <1>0, <1>5, EndsType DEF createSession
  <2>2. req[r].seen \in Customer
    BY <1>0, <1>5 DEF createSession, Placed
  <2>3. TenantType' /\ StripeType'
    BY <1>5, <2>2 DEF createSession, TypeOK, TenantType, StripeType, tenants
  <2>. QED
    BY <1>1, <2>1, <2>3 DEF TypeOK
<1>6. CASE subscriptionDeleted(r)
  <2>1. ReqType'
    <3>1. CASE UNCHANGED req
      BY <1>0, <3>1 DEF ReqType
    <3>2. CASE \E c \in College : req' = [req EXCEPT ![r] =
                 [Idle EXCEPT !.at = "savePlan", !.who = c, !.seen = plan[c], !.kind = "free"]]
      <4>1. PICK c \in College : req' = [req EXCEPT ![r] =
                 [Idle EXCEPT !.at = "savePlan", !.who = c, !.seen = plan[c], !.kind = "free"]]
        BY <3>2
      <4>2. plan[c] \in Plan
        BY DEF TypeOK, TenantType
      <4> DEFINE q == [Idle EXCEPT !.at = "savePlan", !.who = c, !.seen = plan[c], !.kind = "free"]
      <4>3. q \in RequestType /\ Placed(q)
        BY <4>2 DEF Plan, RequestType, Placed, Idle, Registering, Paying, Admitting
      <4>. HIDE DEF q
      <4>. QED
        BY <1>0, <4>1, <4>3, MoveType DEF q
    <3>. QED
      BY <1>6, <3>1, <3>2 DEF subscriptionDeleted
  <2>2. TenantType' /\ StripeType'
    BY <1>6 DEF subscriptionDeleted, TypeOK, TenantType, StripeType, tenants, Delivered
  <2>. QED
    BY <1>1, <2>1, <2>2 DEF TypeOK
<1>7. CASE setCollegePlan(r)
  <2>1. PICK c \in College, p \in {"free", "pro"} :
          req' = [req EXCEPT ![r] =
                 [Idle EXCEPT !.at = "savePlan", !.who = c, !.seen = plan[c], !.kind = p]]
    BY <1>7 DEF setCollegePlan, Begins
  <2>2. plan[c] \in Plan
    BY DEF TypeOK, TenantType
  <2> DEFINE q == [Idle EXCEPT !.at = "savePlan", !.who = c, !.seen = plan[c], !.kind = p]
  <2>3. q \in RequestType /\ Placed(q)
    BY <2>2 DEF Plan, RequestType, Placed, Idle, Registering, Paying, Admitting
  <2>4. ReqType'
    BY <1>0, <2>1, <2>3, MoveType
  <2>5. TenantType' /\ StripeType'
    BY <1>7 DEF setCollegePlan, TypeOK, TenantType, StripeType, tenants, stripe
  <2>. QED
    BY <1>1, <2>4, <2>5 DEF TypeOK
<1>8. CASE savePlan(r)
  <2>1. ReqType'
    BY <1>0, <1>8, EndsType DEF savePlan
  <2>2. req[r].kind \in Plan
    BY <1>0, <1>8 DEF savePlan, Placed, Plan
  <2>3. TenantType' /\ StripeType'
    BY <1>8, <2>2 DEF savePlan, TypeOK, TenantType, StripeType, stripe
  <2>. QED
    BY <1>1, <2>1, <2>3 DEF TypeOK
<1>. QED
  BY <1>2, <1>3, <1>4, <1>5, <1>6, <1>7, <1>8 DEF Billing

LEMMA SubmittingType ==
    ASSUME TypeOK, NEW r \in Request, Submitting(r)
    PROVE  TypeOK'
<1>0. req[r] \in RequestType /\ Placed(req[r]) /\ ReqType
  BY DEF TypeOK, ReqType
<1>1. TenantType' /\ StripeType'
  BY DEF TypeOK, TenantType, StripeType, tenants, stripe, Submitting, checkStudentSubmissionQuota,
         checkCollegeSubmissionQuota, studentQuotaFailsOpen, collegeQuotaFailsOpen,
         checkPlanUsageLimit, submitSolution
<1>2. UsageType'
  <2>1. req[r].at = "college" => req[r].who \in Student
    BY <1>0 DEF Placed, Admitting
  <2>2. CASE checkStudentSubmissionQuota(r)
    BY <2>2 DEF checkStudentSubmissionQuota, TypeOK, UsageType
  <2>3. CASE checkCollegeSubmissionQuota(r)
    BY <2>1, <2>3 DEF checkCollegeSubmissionQuota, TypeOK, UsageType
  <2>4. CASE checkPlanUsageLimit(r)
    BY <2>4 DEF checkPlanUsageLimit, usage, TypeOK, UsageType
  <2>5. CASE submitSolution(r)
    BY <2>5 DEF submitSolution, TypeOK, UsageType
  <2>6. CASE studentQuotaFailsOpen(r)
    BY <2>6 DEF studentQuotaFailsOpen, TypeOK, UsageType
  <2>7. CASE collegeQuotaFailsOpen(r)
    BY <2>1, <2>7 DEF collegeQuotaFailsOpen, TypeOK, UsageType
  <2>. QED
    BY <2>2, <2>3, <2>4, <2>5, <2>6, <2>7 DEF Submitting
<1>3. ASSUME NEW place \in {"usage", "admit"}, req[r].at \in Admitting, Goes(r, place)
      PROVE  ReqType'
  <2>1. Placed([req[r] EXCEPT !.at = place])
    BY <1>0, <1>3 DEF RequestType, Placed, Registering, Paying, Admitting
  <2>. QED
    BY <1>0, <1>3, <2>1, GoesType DEF Admitting
<1>4. CASE checkStudentSubmissionQuota(r) \/ studentQuotaFailsOpen(r)
  <2>1. PICK s \in Student :
          \/ req' = [req EXCEPT ![r] = Idle]
          \/ req' = [req EXCEPT ![r] = [Idle EXCEPT !.at = "college", !.who = s]]
    BY <1>4 DEF checkStudentSubmissionQuota, studentQuotaFailsOpen
  <2> DEFINE q == [Idle EXCEPT !.at = "college", !.who = s]
  <2>2. q \in RequestType /\ Placed(q)
    BY DEF RequestType, Placed, Idle, Registering, Paying, Admitting
  <2>3. ReqType'
    BY <1>0, <2>1, <2>2, IdleType, MoveType
  <2>. QED
    BY <1>1, <1>2, <2>3 DEF TypeOK
<1>5. CASE \/ checkCollegeSubmissionQuota(r) \/ collegeQuotaFailsOpen(r)
           \/ checkPlanUsageLimit(r) \/ submitSolution(r)
  <2>1. ReqType'
    BY <1>0, <1>3, <1>5, EndsType
    DEF checkCollegeSubmissionQuota, collegeQuotaFailsOpen, checkPlanUsageLimit, submitSolution,
        Admitting
  <2>. QED
    BY <1>1, <1>2, <2>1 DEF TypeOK
<1>. QED
  BY <1>4, <1>5 DEF Submitting

LEMMA WaitingFinite ==
    ASSUME NEW s
    PROVE  IsFiniteSet(Waiting(s)) /\ Cardinality(Waiting(s)) \in Nat
<1>1. IsFiniteSet(Request) /\ Waiting(s) \subseteq Request
  BY TenancyAssumption DEF Waiting
<1>2. IsFiniteSet(Waiting(s))
  BY <1>1, FS_Subset
<1>. QED
  BY <1>2, FS_CardinalityType

\* What happens outside of the requests' handlers.
LEMMA OutsideType ==
    ASSUME TypeOK,
           \/ Pay \/ Cancel \/ checkoutCompleted \/ Meter
           \/ studentWindowPasses \/ collegeWindowPasses
    PROVE  TypeOK'
<1>1. CASE Pay
  BY <1>1 DEF Pay, Stripe, TypeOK, TenantType, StripeType, UsageType, ReqType, tenants, usage
<1>2. CASE Cancel
  BY <1>2 DEF Cancel, Stripe, TypeOK, TenantType, StripeType, UsageType, ReqType, tenants, usage
<1>3. CASE checkoutCompleted
  BY <1>3 DEF checkoutCompleted, Delivered, TypeOK, TenantType, StripeType, UsageType, ReqType,
              usage, Plan
<1>4. CASE Meter
  BY <1>4 DEF Meter, TypeOK, TenantType, StripeType, UsageType, ReqType, tenants, stripe
<1>5. CASE studentWindowPasses \/ collegeWindowPasses
  <2>1. TenantType' /\ StripeType' /\ ReqType'
    BY <1>5 DEF studentWindowPasses, collegeWindowPasses, TypeOK, TenantType, StripeType,
                ReqType, tenants, stripe
  <2>2. CASE studentWindowPasses
    BY <2>1, <2>2, TenancyAssumption DEF studentWindowPasses, TypeOK, UsageType
  <2>3. CASE collegeWindowPasses
    BY <2>1, <2>3, WaitingFinite, TenancyAssumption DEF collegeWindowPasses, TypeOK, UsageType
  <2>. QED
    BY <1>5, <2>2, <2>3
<1>. QED
  BY <1>1, <1>2, <1>3, <1>4, <1>5

LEMMA InitType == Init => TypeOK
<1> SUFFICES ASSUME Init PROVE TypeOK
  OBVIOUS
<1>1. TenantType /\ StripeType /\ UsageType
  BY TenancyAssumption DEF Init, TenantType, StripeType, UsageType, Plan
<1>2. ReqType
  BY IdleType DEF Init, ReqType
<1>. QED
  BY <1>1, <1>2 DEF TypeOK

LEMMA NextType == TypeOK /\ [Next]_vars => TypeOK'
<1> SUFFICES ASSUME TypeOK, [Next]_vars PROVE TypeOK'
  OBVIOUS
<1>1. CASE UNCHANGED vars
  BY <1>1 DEF vars, tenants, stripe, usage, TypeOK, TenantType, StripeType, UsageType, ReqType
<1>. QED
  BY <1>1, AccountsType, BillingType, SubmittingType, OutsideType DEF Next

\* Every request is at a place of its handler, about a college, a student or an
\* account of the right kind.
THEOREM TenancyTypes == Spec => []TypeOK
<1>. QED
  BY InitType, NextType, PTL DEF Spec

-----------------------------------------------------------------------------
(* The budget of a college in a window. *)

\* What a student has taken of the window, what is on its way, and what is left of
\* their own quota are within what they may take.
Left(s) == IF hits[s] < StudentQuota THEN StudentQuota - hits[s] ELSE 0
Fair == \A s \in Student : share[s] + Cardinality(Waiting(s)) + Left(s) <= ration[s]

\* No other handler comes to the college's counter.
LEMMA NobodyComes ==
    ASSUME ReqType, NEW r \in Request,
           \/ Accounts(r) \/ Billing(r)
           \/ checkPlanUsageLimit(r) \/ submitSolution(r)
    PROVE  /\ \A x \in Request : req'[x].at = "college" => req'[x] = req[x]
           /\ UNCHANGED <<hits, share, ration>>
<1>1. UNCHANGED <<hits, share, ration>>
  BY DEF usage, Accounts, register, bulkRegister, signup, signupCreate, checkRow,
         assertSeatCapacity, assertSeatCount, createUser, createUserFails, rollback, undoSignup,
         Billing, createCheckoutSession, createCustomer, saveCustomer, createSession,
         subscriptionDeleted, setCollegePlan, savePlan,
         checkPlanUsageLimit, submitSolution
<1>2. \A x \in Request : x # r => req'[x] = req[x]
  <2>1. CASE Accounts(r)
    BY <2>1 DEF ReqType, Accounts, register, bulkRegister, signup, signupCreate, checkRow,
         assertSeatCapacity, assertSeatCount, createUser, createUserFails, rollback, undoSignup,
         Begins, Ends, Goes, Refused, Broken
  <2>2. CASE Billing(r)
    BY <2>2 DEF ReqType, Billing, createCheckoutSession, createCustomer, saveCustomer,
         createSession, subscriptionDeleted, setCollegePlan, savePlan, Begins, Ends, Goes
  <2>. QED
    BY <2>1, <2>2 DEF ReqType, checkPlanUsageLimit, submitSolution, Ends, Goes
<1>3. req'[r].at # "college" \/ UNCHANGED req
  <2>0. req[r] \in RequestType /\ req \in [Request -> RequestType]
    BY DEF ReqType
  <2>1. \A place : Goes(r, place) => req'[r].at = place
    BY <2>0 DEF Goes, RequestType
  <2>2. Ends(r) => req'[r].at = "idle"
    BY <2>0 DEF Ends, Idle
  <2>3. Refused(r) \/ Broken(r) => req'[r].at \in {"idle", "undo", "rollback"}
    BY <2>1, <2>2 DEF Refused, Broken
  <2>4. CASE register(r) \/ bulkRegister(r) \/ signup(r)
    BY <2>0, <2>4 DEF register, bulkRegister, signup, Begins, Idle
  <2>5. CASE signupCreate(r) \/ assertSeatCapacity(r) \/ assertSeatCount(r)
             \/ createUserFails(r) \/ rollback(r) \/ undoSignup(r)
    BY <2>1, <2>2, <2>3, <2>5 DEF signupCreate, assertSeatCapacity, assertSeatCount,
         createUserFails, rollback, undoSignup
  <2>6. CASE checkRow(r)
    <3>1. \/ Refused(r)
          \/ \E e : req' = [req EXCEPT ![r].todo = @ \ {e}]
          \/ \E e : req' = [req EXCEPT ![r].todo = @ \ {e}, ![r].batch = @ \cup {e}]
      BY <2>6 DEF checkRow
    <3>2. ASSUME NEW e, req' = [req EXCEPT ![r].todo = @ \ {e}] PROVE req'[r].at = req[r].at
      BY <2>0, <3>2 DEF RequestType
    <3>3. ASSUME NEW e, req' = [req EXCEPT ![r].todo = @ \ {e}, ![r].batch = @ \cup {e}]
          PROVE  req'[r].at = req[r].at
      BY <2>0, <3>3 DEF RequestType
    <3>. QED
      BY <2>3, <2>6, <3>1, <3>2, <3>3 DEF checkRow
  <2>7. CASE createUser(r)
    <3>1. \/ Broken(r) \/ Ends(r)
          \/ \E e : req' = [req EXCEPT ![r].batch = @ \ {e}, ![r].made = @ \cup {e}]
      BY <2>7 DEF createUser
    <3>2. ASSUME NEW e, req' = [req EXCEPT ![r].batch = @ \ {e}, ![r].made = @ \cup {e}]
          PROVE  req'[r].at = req[r].at
      BY <2>0, <3>2 DEF RequestType
    <3>. QED
      BY <2>2, <2>3, <2>7, <3>1, <3>2 DEF createUser
  <2>8. CASE createCheckoutSession(r) \/ setCollegePlan(r) \/ subscriptionDeleted(r)
    BY <2>0, <2>8 DEF createCheckoutSession, setCollegePlan, subscriptionDeleted, Begins, Idle
  <2>9. CASE createCustomer(r)
    <3>1. ASSUME NEW k, req' = [req EXCEPT ![r].at = "saveCustomer", ![r].seen = k]
          PROVE  req'[r].at = "saveCustomer"
      BY <2>0, <3>1 DEF RequestType
    <3>. QED
      BY <2>2, <2>9, <3>1 DEF createCustomer
  <2>10. CASE saveCustomer(r) \/ createSession(r) \/ savePlan(r) \/ checkPlanUsageLimit(r)
              \/ submitSolution(r)
    BY <2>1, <2>2, <2>10 DEF saveCustomer, createSession, savePlan, checkPlanUsageLimit,
         submitSolution
  <2>. QED
    BY <2>4, <2>5, <2>6, <2>7, <2>8, <2>9, <2>10 DEF Accounts, Billing
<1>. QED
  BY <1>1, <1>2, <1>3

LEMMA FairParts ==
    ASSUME UsageType, NEW s \in Student
    PROVE  /\ share[s] \in Nat /\ ration[s] \in Nat /\ hits[s] \in Nat /\ StudentQuota \in Nat
           /\ IsFiniteSet(Waiting(s)) /\ Cardinality(Waiting(s)) \in Nat
           /\ Left(s) \in Nat /\ Left(s) <= StudentQuota
  BY TenancyAssumption, WaitingFinite DEF UsageType, Left

\* The requests on their way do not become more.
LEMMA FewerWait ==
    ASSUME NEW s, Waiting(s)' \subseteq Waiting(s)
    PROVE  Cardinality(Waiting(s)') <= Cardinality(Waiting(s)) /\ Cardinality(Waiting(s)') \in Nat
  BY WaitingFinite, FS_Subset, FS_CardinalityType

\* A step that brings nobody to the college's counter and changes no counter.
LEMMA FairFrame ==
    ASSUME UsageType, Fair, UNCHANGED <<hits, share, ration>>,
           \A x \in Request : req'[x].at = "college" => req'[x] = req[x]
    PROVE  Fair'
<1> SUFFICES ASSUME NEW s \in Student
             PROVE  share[s] + Cardinality(Waiting(s)') + Left(s) <= ration[s]
  BY DEF Fair, Left
<1>1. Waiting(s)' \subseteq Waiting(s)
  BY DEF Waiting
<1>. QED
  BY <1>1, FairParts, FewerWait DEF Fair

LEMMA FairNext == TypeOK /\ Fair /\ [Next]_vars => Fair'
<1> SUFFICES ASSUME TypeOK, Fair, [Next]_vars PROVE Fair'
  OBVIOUS
<1>0. UsageType /\ ReqType /\ req \in [Request -> RequestType] /\ StudentQuota \in Nat
  BY TenancyAssumption DEF TypeOK, ReqType
<1>1. ASSUME NEW r \in Request,
             Accounts(r) \/ Billing(r) \/ checkPlanUsageLimit(r) \/ submitSolution(r)
      PROVE  Fair'
  BY <1>0, <1>1, NobodyComes, FairFrame
<1>2. CASE Pay \/ Cancel \/ checkoutCompleted \/ Meter \/ UNCHANGED vars
  BY <1>0, <1>2, FairFrame DEF Pay, Cancel, Stripe, checkoutCompleted, Meter, vars, usage
<1>3. ASSUME NEW r \in Request, checkStudentSubmissionQuota(r) \/ studentQuotaFailsOpen(r)
      PROVE  Fair'
  <2>1. PICK t \in Student :
          /\ hits' = hits \/ hits' = [hits EXCEPT ![t] = @ + 1]
          /\ \/ /\ req' = [req EXCEPT ![r] = IF hits[t] < StudentQuota
                             THEN [Idle EXCEPT !.at = "college", !.who = t] ELSE Idle]
                /\ hits' = [hits EXCEPT ![t] = @ + 1] /\ UNCHANGED ration
             \/ /\ req' = [req EXCEPT ![r] = [Idle EXCEPT !.at = "college", !.who = t]]
                /\ ration' = [ration EXCEPT ![t] = @ + 1]
    BY <1>3 DEF checkStudentSubmissionQuota, studentQuotaFailsOpen
  <2>2. req[r] = Idle /\ UNCHANGED share
    BY <1>3 DEF checkStudentSubmissionQuota, studentQuotaFailsOpen
  <2> SUFFICES ASSUME NEW s \in Student
               PROVE  share[s] + Cardinality(Waiting(s)') + Left(s)' <= ration'[s]
    BY <2>2 DEF Fair
  <2>3. share[s] + Cardinality(Waiting(s)) + Left(s) <= ration[s]
    BY DEF Fair
  <2>4. ASSUME s = t, req' = [req EXCEPT ![r] = [Idle EXCEPT !.at = "college", !.who = t]]
        PROVE  Cardinality(Waiting(s)') = Cardinality(Waiting(s)) + 1
    <3>1. Waiting(s)' = Waiting(s) \cup {r} /\ r \notin Waiting(s)
      BY <1>0, <2>2, <2>4 DEF Waiting, Idle
    <3>. QED
      BY <1>0, <3>1, WaitingFinite, FS_AddElement
  <2>5. ASSUME \/ req' = [req EXCEPT ![r] = Idle]
               \/ s # t /\ req' = [req EXCEPT ![r] = [Idle EXCEPT !.at = "college", !.who = t]]
        PROVE  Cardinality(Waiting(s)') <= Cardinality(Waiting(s)) /\ Cardinality(Waiting(s)') \in Nat
    <3>1. ASSUME NEW x \in Request, req'[x].at = "college", req'[x].who = s
          PROVE  req'[x] = req[x]
      <4>1. CASE req' = [req EXCEPT ![r] = Idle]
        BY <1>0, <3>1, <4>1 DEF Idle
      <4>2. CASE s # t /\ req' = [req EXCEPT ![r] = [Idle EXCEPT !.at = "college", !.who = t]]
        BY <1>0, <3>1, <4>2 DEF Idle
      <4>. QED
        BY <2>5, <4>1, <4>2
    <3>2. Waiting(s)' \subseteq Waiting(s)
      BY <3>1 DEF Waiting
    <3>. QED
      BY <3>2, FewerWait
  <2>6. hits'[s] \in Nat /\ hits'[s] >= hits[s]
        /\ (s = t /\ hits' = [hits EXCEPT ![t] = @ + 1] => hits'[s] = hits[s] + 1)
        /\ (ration' = [ration EXCEPT ![t] = @ + 1] =>
               ration'[s] = IF s = t THEN ration[s] + 1 ELSE ration[s])
    BY <1>0, <2>1 DEF UsageType
  <2>7. Left(s)' <= Left(s) /\ Left(s)' \in Nat
        /\ (s = t /\ hits' = [hits EXCEPT ![t] = @ + 1] /\ hits[t] < StudentQuota =>
               Left(s)' = Left(s) - 1)
    BY <1>0, <2>6, FairParts DEF Left
  <2>. QED
    BY <1>0, <2>1, <2>3, <2>4, <2>5, <2>6, <2>7, FairParts
<1>4. ASSUME NEW r \in Request, checkCollegeSubmissionQuota(r) \/ collegeQuotaFailsOpen(r)
      PROVE  Fair'
  <2>1. /\ req[r].at = "college" /\ UNCHANGED ration
        /\ hits' = hits \/ hits' = [hits EXCEPT !["college"] = @ + 1]
        /\ share' = share \/ share' = [share EXCEPT ![req[r].who] = @ + 1]
        /\ Goes(r, "usage") \/ Ends(r)
    BY <1>0, <1>4 DEF checkCollegeSubmissionQuota, collegeQuotaFailsOpen, UsageType
  <2>2. req'[r].at # "college" /\ \A x \in Request : x # r => req'[x] = req[x]
    BY <1>0, <2>1 DEF Goes, Ends, Idle, RequestType
  <2> SUFFICES ASSUME NEW s \in Student
               PROVE  share'[s] + Cardinality(Waiting(s)') + Left(s)' <= ration[s]
    BY <2>1 DEF Fair
  <2>3. share[s] + Cardinality(Waiting(s)) + Left(s) <= ration[s]
    BY DEF Fair
  <2>4. Left(s)' <= Left(s) /\ Left(s)' \in Nat
    <3>1. hits'[s] \in Nat /\ hits'[s] >= hits[s]
      BY <1>0, <2>1, FairParts DEF UsageType
    <3>. QED
      BY <1>0, <3>1, FairParts DEF Left
  <2>5. CASE r \in Waiting(s)
    <3>1. Waiting(s)' = Waiting(s) \ {r}
      BY <2>2, <2>5 DEF Waiting
    <3>2. Cardinality(Waiting(s)') = Cardinality(Waiting(s)) - 1
      BY <2>5, <3>1, WaitingFinite, FS_RemoveElement
    <3>3. share'[s] \in Nat /\ share'[s] <= share[s] + 1
      BY <1>0, <2>1, FairParts DEF UsageType
    <3>. QED
      BY <1>0, <2>3, <2>4, <3>2, <3>3, FairParts
  <2>6. CASE r \notin Waiting(s)
    <3>1. Waiting(s)' = Waiting(s)
      BY <2>2, <2>6 DEF Waiting
    <3>2. share'[s] = share[s]
      BY <1>0, <2>1, <2>6 DEF Waiting, UsageType
    <3>. QED
      BY <1>0, <2>3, <2>4, <3>1, <3>2, FairParts
  <2>. QED
    BY <2>5, <2>6
<1>5. CASE studentWindowPasses \/ collegeWindowPasses
  <2> SUFFICES ASSUME NEW s \in Student
               PROVE  share'[s] + Cardinality(Waiting(s)') + Left(s)' <= ration'[s]
    BY DEF Fair
  <2>1. Waiting(s)' = Waiting(s)
    BY <1>5 DEF studentWindowPasses, collegeWindowPasses, Waiting
  <2>2. Left(s)' \in Nat /\ Left(s)' <= StudentQuota
    <3>1. hits'[s] \in Nat
      BY <1>0, <1>5 DEF studentWindowPasses, collegeWindowPasses, UsageType
    <3>. QED
      BY <1>0, <3>1 DEF Left
  <2>3. CASE studentWindowPasses
    <3>1. share'[s] = share[s] /\ ration'[s] = ration[s] + StudentQuota
      BY <1>0, <2>3 DEF studentWindowPasses, UsageType
    <3>2. share[s] + Cardinality(Waiting(s)) + Left(s) <= ration[s]
      BY DEF Fair
    <3>. QED
      BY <1>0, <2>1, <2>2, <3>1, <3>2, FairParts
  <2>4. CASE collegeWindowPasses
    <3>1. share'[s] = 0 /\ ration'[s] = StudentQuota + Cardinality(Waiting(s))
      BY <1>0, <2>4 DEF collegeWindowPasses, UsageType
    <3>. QED
      BY <1>0, <2>1, <2>2, <3>1, FairParts
  <2>. QED
    BY <1>5, <2>3, <2>4
<1>. QED
  BY <1>1, <1>2, <1>3, <1>4, <1>5 DEF Next, Submitting

\* However many requests overlap, in whatever order they reach the two counters,
\* whenever either window changes between them and whichever check Redis fails to
\* make, a student takes no more of the college's budget in its window than their own
\* quota lets them: a quota for the window of theirs that is running and for each that
\* begins, what was on its way, and what was let through unchecked.  Of a full quota
\* that is left, nothing is taken twice (quota.service.js, submitSolution).
THEOREM BudgetIsShared == Spec => []FairShare
<1>1. Init => Fair
  <2> SUFFICES ASSUME Init, NEW s \in Student
               PROVE  share[s] + Cardinality(Waiting(s)) + Left(s) <= ration[s]
    BY DEF Fair
  <2>1. Waiting(s) = {}
    BY DEF Init, Waiting, Idle
  <2>2. Cardinality(Waiting(s)) = 0
    BY <2>1, FS_EmptySet
  <2>3. share[s] = 0 /\ hits[s] = 0 /\ ration[s] = StudentQuota
    BY DEF Init
  <2>. QED
    BY <2>2, <2>3, TenancyAssumption DEF Left
<1>2. TypeOK /\ Fair => FairShare
  BY FairParts DEF FairShare, Fair, TypeOK
<1>. QED
  BY <1>1, <1>2, InitType, NextType, FairNext, PTL DEF Spec

-----------------------------------------------------------------------------
(* Colleges that are being founded, and colleges in use. *)

\* A college that is being founded has no account yet that somebody could sign in
\* with, so nobody works in it before the signup is over.
SignupsApart == \A m \in Mixes :
    "signup" \in m => m \cap {"register", "bulk", "checkout", "manual"} = {}

\* Requests under way are of operations that are called.
Called ==
    /\ ops \in Mixes
    /\ "signup" \notin ops => \A r \in Request : req[r].kind # "signup"
    /\ "register" \notin ops => \A r \in Request : req[r].kind # "one"
    /\ "bulk" \notin ops => \A r \in Request : req[r].kind # "many"
    /\ "checkout" \notin ops =>
          /\ events = {} /\ \A u \in Subscription : subscription[u].state = "none"
          /\ \A r \in Request : req[r].at \notin {"newCustomer", "saveCustomer", "session"}
    /\ "checkout" \notin ops /\ "manual" \notin ops =>
          \A r \in Request : req[r].at # "savePlan"

\* A customer of Stripe belongs to one college, wherever it is known, a subscription
\* to a customer, and an event to a subscription that has come as far.
Linked ==
    /\ \A c \in College : customer[c] # None => account[customer[c]] = c
    /\ \A r \in Request : req[r].at \in {"saveCustomer", "session"} =>
          account[req[r].seen] = req[r].who
    /\ \A u \in Subscription : subscription[u].state # "none" =>
          subscription[u].of \in Customer /\ Payer(u) \in College
    /\ \A e \in events : subscription[e.of].state \in {"live", "canceled"}
    /\ \A e \in events : e.type = "deleted" => subscription[e.of].state = "canceled"

\* A subscription that has been canceled in college c.
CanceledIn(c) == \E v \in Subscription : subscription[v].state = "canceled" /\ Payer(v) = c

\* What PaidIsServed says of one subscription.
ServedOne(u) ==
    \/ standing[u] = "unheard" /\ [type |-> "completed", of |-> u] \in events
    \/ standing[u] = "served" /\ plan[Payer(u)] = "pro"
    \/ standing[u] = "taken" /\ ("manual" \in ops \/ CanceledIn(Payer(u)))

\* A plan is taken back after a cancellation only, and a subscription is heard of
\* after it has been paid for.
Served ==
    /\ "manual" \notin ops => \A r \in Request : req[r].at = "savePlan" =>
          req[r].kind = "free" /\ CanceledIn(req[r].who)
    /\ \A u \in Subscription : subscription[u].state \in {"none", "offered"} =>
          standing[u] = "unheard"
    /\ \A u \in Subscription : subscription[u].state = "live" => ServedOne(u)

\* Without signups the colleges are those that were founded.
Settled ==
    "signup" \notin ops =>
       /\ \A c \in College : plan[c] = "none" <=> c \notin Founded
       /\ \A r \in Request : req[r].at \in Registering \cup Paying => req[r].who \in Founded
       /\ \A e \in Email : user[e] \in Founded \cup {None}
       /\ \A k \in Customer : account[k] \in Founded \cup {None}

\* A request that has made a college and may take it back.
Founding(r) == req[r].kind = "signup" /\ req[r].at # "found"

\* A signup registers one address, the admin's.
OneAddress == \A r \in Request : req[r].kind = "signup" =>
    /\ \E e \in Email : req[r].todo \cup req[r].batch = {e}
    /\ req[r].at \in {"count", "create"} => req[r].todo = {}

\* Nobody has an account in a college that is being founded, and one request founds it.
NobodyYet == \A r \in Request : Founding(r) =>
    /\ plan[req[r].who] # "none" /\ req[r].who \notin Founded
    /\ \A e \in Email : user[e] # req[r].who
    /\ \A x \in Request : Founding(x) /\ x # r => req[x].who # req[r].who

\* A new college has an account or is being founded.
Administered == \A c \in College \ Founded : plan[c] # "none" =>
    (\E e \in Email : user[e] = c) \/ \E r \in Request : Founding(r) /\ req[r].who = c

\* Accounts are of colleges that there are.
Existing ==
    /\ \A e \in Email : user[e] # None => plan[user[e]] # "none" /\ user[e] \notin Founded
    /\ \A c \in Founded : plan[c] # "none"
    /\ \A c \in College \ Founded : plan[c] # "pro"

\* With signups, every college that is new is made by one request and has its admin
\* in the end.
Alone == "signup" \in ops => OneAddress /\ NobodyYet /\ Administered /\ Existing

\* The accounts that requests are about to make in c.
Pending(c) == {p \in Request \X Email : /\ req[p[1]].at = "create" /\ req[p[1]].who = c
                                         /\ p[2] \in req[p[1]].batch}

\* Accounts and those about to be made fit into one free plan per request.
FitsIn(c) ==
    /\ \A r \in Request : req[r].at = "create" /\ req[r].who = c =>
          Cardinality(req[r].batch) <= SeatLimit
    /\ Seats(c) + Cardinality(Pending(c)) <= SeatLimit * Cardinality(Request)

Seated == "checkout" \notin ops /\ "manual" \notin ops =>
    \A c \in College : plan[c] = "free" => FitsIn(c)

\* What a request holds besides its place.
Held(q) == <<q.kind, q.who, q.seen, q.todo, q.batch, q.made>>

LEMMA Steps ==
    ASSUME ReqType, NEW r \in Request
    PROVE  /\ \A place : Goes(r, place) =>
                 /\ req'[r].at = place /\ Held(req'[r]) = Held(req[r])
                 /\ \A x \in Request : x # r => req'[x] = req[x]
           /\ Ends(r) => /\ req'[r] = Idle
                         /\ \A x \in Request : x # r => req'[x] = req[x]
           /\ Refused(r) => Ends(r) \/ (req[r].kind = "signup" /\ Goes(r, "undo"))
           /\ Broken(r) => \/ Ends(r) \/ (req[r].kind = "signup" /\ Goes(r, "undo"))
                           \/ (req[r].kind = "many" /\ Goes(r, "rollback"))
<1>1. req[r] \in RequestType /\ req \in [Request -> RequestType]
  BY DEF ReqType
<1>2. ASSUME NEW place, Goes(r, place)
      PROVE  /\ req'[r].at = place /\ Held(req'[r]) = Held(req[r])
             /\ \A x \in Request : x # r => req'[x] = req[x]
  BY <1>1, <1>2 DEF Goes, Held, RequestType
<1>3. Ends(r) => req'[r] = Idle /\ \A x \in Request : x # r => req'[x] = req[x]
  BY <1>1 DEF Ends
<1>. QED
  BY <1>2, <1>3 DEF Refused, Broken

\* The beginning of a handler that makes accounts.
LEMMA RegisterSteps ==
    ASSUME ReqType, NEW r \in Request, register(r) \/ bulkRegister(r) \/ signup(r)
    PROVE  /\ req[r] = Idle
           /\ req'[r].who \in College /\ req'[r].batch = {} /\ req'[r].made = {}
           /\ \/ /\ "register" \in ops /\ req'[r].kind = "one" /\ req'[r].at = "check"
                 /\ plan[req'[r].who] # "none"
              \/ /\ "bulk" \in ops /\ req'[r].kind = "many" /\ req'[r].at = "check"
                 /\ plan[req'[r].who] # "none"
              \/ /\ "signup" \in ops /\ req'[r].kind = "signup" /\ req'[r].at = "found"
                 /\ plan[req'[r].who] = "none" /\ \E e \in Email : req'[r].todo = {e}
           /\ \A x \in Request : x # r => req'[x] = req[x]
<1>1. req[r] \in RequestType /\ req \in [Request -> RequestType]
  BY DEF ReqType
<1>2. CASE register(r)
  BY <1>1, <1>2 DEF register, Begins, Idle
<1>3. CASE bulkRegister(r)
  BY <1>1, <1>3 DEF bulkRegister, Begins, Idle
<1>4. CASE signup(r)
  BY <1>1, <1>4 DEF signup, Begins, Idle
<1>. QED
  BY <1>2, <1>3, <1>4

LEMMA RowSteps ==
    ASSUME ReqType, NEW r \in Request, checkRow(r) \/ createUser(r)
    PROVE  \/ Refused(r) /\ req[r].kind # "many" /\ req[r].at = "check" /\ UNCHANGED user
           \/ Broken(r) /\ req[r].at = "create" /\ UNCHANGED user
           \/ /\ Ends(r) /\ req[r].at = "create"
              /\ \E e \in Email : /\ req[r].batch = {e} /\ user[e] = None
                                  /\ user' = [user EXCEPT ![e] = req[r].who]
           \/ /\ req[r].at \in {"check", "create"} /\ req'[r].at = req[r].at
              /\ req'[r].kind = req[r].kind /\ req'[r].who = req[r].who
              /\ \A x \in Request : x # r => req'[x] = req[x]
              /\ \/ /\ req[r].at = "check" /\ req[r].kind = "many" /\ UNCHANGED user
                    /\ req'[r].batch = req[r].batch /\ req'[r].made = req[r].made
                 \/ /\ req[r].at = "check" /\ UNCHANGED user /\ req'[r].made = req[r].made
                    /\ \E e \in req[r].todo : /\ req'[r].todo = req[r].todo \ {e}
                                              /\ req'[r].batch = req[r].batch \cup {e}
                 \/ /\ req[r].at = "create" /\ req'[r].todo = req[r].todo
                    /\ \E e \in req[r].batch :
                          /\ user[e] = None /\ user' = [user EXCEPT ![e] = req[r].who]
                          /\ req[r].batch # {e} /\ req'[r].batch = req[r].batch \ {e}
                          /\ req'[r].made = req[r].made \cup {e}
<1>1. req[r] \in RequestType /\ req \in [Request -> RequestType]
  BY DEF ReqType
<1>2. CASE checkRow(r)
  <2>1. PICK e \in req[r].todo :
          \/ req[r].kind # "many" /\ Refused(r)
          \/ req[r].kind = "many" /\ req' = [req EXCEPT ![r].todo = @ \ {e}]
          \/ req' = [req EXCEPT ![r].todo = @ \ {e}, ![r].batch = @ \cup {e}]
    BY <1>2 DEF checkRow
  <2>2. req[r].at = "check" /\ UNCHANGED user
    BY <1>2 DEF checkRow, tenants
  <2>3. CASE req' = [req EXCEPT ![r].todo = @ \ {e}]
    BY <1>1, <2>1, <2>2, <2>3 DEF RequestType
  <2>4. CASE req' = [req EXCEPT ![r].todo = @ \ {e}, ![r].batch = @ \cup {e}]
    BY <1>1, <2>1, <2>2, <2>4 DEF RequestType
  <2>. QED
    BY <2>1, <2>2, <2>3, <2>4
<1>3. CASE createUser(r)
  <2>1. PICK e \in req[r].batch :
          IF user[e] # None THEN Broken(r) /\ UNCHANGED user
          ELSE /\ user' = [user EXCEPT ![e] = req[r].who]
               /\ IF req[r].batch = {e} THEN Ends(r)
                  ELSE req' = [req EXCEPT ![r].batch = @ \ {e}, ![r].made = @ \cup {e}]
    BY <1>3 DEF createUser
  <2>2. req[r].at = "create" /\ e \in Email
    BY <1>1, <1>3 DEF createUser, RequestType
  <2>3. CASE /\ user[e] = None /\ req[r].batch # {e}
             /\ req' = [req EXCEPT ![r].batch = @ \ {e}, ![r].made = @ \cup {e}]
    <3>1. /\ req'[r].at = req[r].at /\ req'[r].todo = req[r].todo
          /\ req'[r].kind = req[r].kind /\ req'[r].who = req[r].who
          /\ req'[r].batch = req[r].batch \ {e} /\ req'[r].made = req[r].made \cup {e}
          /\ \A x \in Request : x # r => req'[x] = req[x]
      BY <1>1, <2>3 DEF RequestType
    <3>. QED
      BY <2>1, <2>2, <2>3, <3>1
  <2>. QED
    BY <2>1, <2>2, <2>3
<1>. QED
  BY <1>2, <1>3

\* The beginning of a handler that changes a plan, and the customer it is given.
LEMMA CheckoutSteps ==
    ASSUME ReqType, NEW r \in Request, createCheckoutSession(r)
    PROVE  /\ \A x \in Request : x # r => req'[x] = req[x]
           /\ "checkout" \in ops /\ req'[r].kind = "none" /\ req'[r].who \in College
           /\ plan[req'[r].who] # "none" /\ req'[r].seen = customer[req'[r].who]
           /\ req'[r].at = IF req'[r].seen = None THEN "newCustomer" ELSE "session"
  BY DEF ReqType, createCheckoutSession, Begins, Idle

LEMMA CustomerSteps ==
    ASSUME ReqType, NEW r \in Request, createCustomer(r)
    PROVE  /\ \A x \in Request : x # r => req'[x] = req[x]
           /\ req[r].at = "newCustomer"
           /\ \/ req'[r] = Idle /\ UNCHANGED account
              \/ /\ req'[r].at = "saveCustomer"
                 /\ req'[r].kind = req[r].kind /\ req'[r].who = req[r].who
                 /\ req'[r].seen \in Customer /\ account[req'[r].seen] = None
                 /\ account' = [account EXCEPT ![req'[r].seen] = req[r].who]
<1>1. req[r] \in RequestType /\ req \in [Request -> RequestType]
  BY DEF ReqType
<1>2. CASE Ends(r) /\ UNCHANGED account
  BY <1>2, Steps DEF createCustomer
<1>3. ASSUME NEW k \in Customer, account[k] = None,
             account' = [account EXCEPT ![k] = req[r].who],
             req' = [req EXCEPT ![r].at = "saveCustomer", ![r].seen = k]
      PROVE  /\ req'[r].at = "saveCustomer" /\ req'[r].seen = k
             /\ req'[r].kind = req[r].kind /\ req'[r].who = req[r].who
             /\ \A x \in Request : x # r => req'[x] = req[x]
  BY <1>1, <1>3 DEF RequestType
<1>. QED
  BY <1>2, <1>3 DEF createCustomer

\* A checkout or a subscription goes on.
LEMMA StripeSteps ==
    ASSUME StripeType, NEW u \in Subscription, NEW from,
           NEW to \in {"live", "canceled"}, NEW type, Stripe(u, from, to, type)
    PROVE  /\ subscription[u].state = from /\ subscription'[u].state = to
           /\ subscription'[u].of = subscription[u].of
           /\ \A v \in Subscription \ {u} : subscription'[v] = subscription[v]
           /\ \A v \in Subscription : Payer(v)' = Payer(v)
           /\ events' = events \cup {[type |-> type, of |-> u]}
           /\ UNCHANGED <<plan, customer, user, account, standing, req, ops>>
<1>1. /\ subscription[u].state = from /\ subscription' = [subscription EXCEPT ![u].state = to]
      /\ events' = events \cup {[type |-> type, of |-> u]}
      /\ UNCHANGED <<plan, customer, user, account, standing, req, ops>>
  BY DEF Stripe, tenants
<1>2. /\ subscription'[u].state = to /\ subscription'[u].of = subscription[u].of
      /\ \A v \in Subscription \ {u} : subscription'[v] = subscription[v]
  BY <1>1 DEF StripeType
<1>3. \A v \in Subscription : Payer(v)' = Payer(v)
  BY <1>1, <1>2 DEF Payer
<1>. QED
  BY <1>1, <1>2, <1>3

\* A checkout is offered, or Stripe refuses it.
LEMMA SessionSteps ==
    ASSUME TypeOK, NEW r \in Request, createSession(r)
    PROVE  /\ UNCHANGED <<plan, customer, account, events, standing, ops>>
           /\ req[r].at = "session" /\ req[r].seen \in Customer /\ req'[r] = Idle
           /\ \A x \in Request : x # r => req'[x] = req[x]
           /\ \/ UNCHANGED subscription
              \/ \E u \in Subscription :
                    /\ subscription[u].state = "none" /\ subscription'[u].state = "offered"
                    /\ subscription'[u].of = req[r].seen
                    /\ \A v \in Subscription \ {u} : subscription'[v] = subscription[v]
<1>1. ReqType /\ Placed(req[r])
      /\ subscription \in [Subscription -> [of : Customer \cup {None},
                             state : {"none", "offered", "live", "canceled"}]]
  BY DEF TypeOK, ReqType, StripeType
<1>2. UNCHANGED <<plan, customer, account, events, standing, ops>>
      /\ req[r].at = "session" /\ Ends(r)
  BY DEF createSession, tenants
<1>3. req'[r] = Idle /\ \A x \in Request : x # r => req'[x] = req[x]
  BY <1>1, <1>2, Steps
<1>4. ASSUME NEW u \in Subscription,
             subscription' = [subscription EXCEPT ![u] = [of |-> req[r].seen, state |-> "offered"]]
      PROVE  /\ subscription'[u].state = "offered" /\ subscription'[u].of = req[r].seen
             /\ \A v \in Subscription \ {u} : subscription'[v] = subscription[v]
  BY <1>1, <1>4
<1>5. req[r].seen \in Customer
  BY <1>1, <1>2 DEF Placed
<1>. QED
  BY <1>2, <1>3, <1>4, <1>5 DEF createSession

LEMMA DeletedSteps ==
    ASSUME ReqType, NEW r \in Request, subscriptionDeleted(r)
    PROVE  /\ \A x \in Request : x # r => req'[x] = req[x]
           /\ \E e \in events :
                 /\ e.type = "deleted" /\ Delivered(e)
                 /\ \/ UNCHANGED req
                    \/ /\ req'[r].at = "savePlan" /\ req'[r].kind = "free"
                       /\ req'[r].who \in College
                       /\ customer[req'[r].who] = subscription[e.of].of
<1>1. PICK e \in events :
        /\ e.type = "deleted" /\ Delivered(e)
        /\ \/ UNCHANGED req
           \/ \E c \in College :
                 /\ customer[c] = subscription[e.of].of
                 /\ req' = [req EXCEPT ![r] = [Idle EXCEPT !.at = "savePlan", !.who = c,
                                                 !.seen = plan[c], !.kind = "free"]]
  BY DEF subscriptionDeleted
<1>2. \/ UNCHANGED req
      \/ /\ req'[r].at = "savePlan" /\ req'[r].kind = "free" /\ req'[r].who \in College
         /\ customer[req'[r].who] = subscription[e.of].of
         /\ \A x \in Request : x # r => req'[x] = req[x]
  BY <1>1 DEF ReqType, Idle
<1>. QED
  BY <1>1, <1>2

LEMMA ManualSteps ==
    ASSUME ReqType, NEW r \in Request, setCollegePlan(r)
    PROVE  /\ \A x \in Request : x # r => req'[x] = req[x]
           /\ "manual" \in ops /\ req'[r].at = "savePlan" /\ req'[r].kind \in {"free", "pro"}
           /\ req'[r].who \in College /\ plan[req'[r].who] # "none"
  BY DEF ReqType, setCollegePlan, Begins, Idle

-----------------------------------------------------------------------------

\* Submitting has nothing to do with colleges and plans, and the handlers that make
\* accounts nothing with Stripe.
LEMMA SubmitSteps ==
    ASSUME TypeOK, NEW r \in Request, Submitting(r)
    PROVE  /\ UNCHANGED <<plan, customer, user, account, subscription, events, standing, ops>>
           /\ req[r].at \in {"idle"} \cup Admitting /\ req'[r].at \in {"idle"} \cup Admitting
           /\ req'[r].kind = "none"
           /\ \A x \in Request : x # r => req'[x] = req[x]
<1>0. TypeOK'
  BY SubmittingType
<1>1. ReqType /\ req[r] \in RequestType /\ req'[r] \in RequestType /\ Placed(req'[r])
  BY <1>0 DEF TypeOK, ReqType
<1>2. UNCHANGED <<plan, customer, user, account, subscription, events, standing, ops>>
  BY DEF Submitting, checkStudentSubmissionQuota, checkCollegeSubmissionQuota,
         studentQuotaFailsOpen, collegeQuotaFailsOpen, checkPlanUsageLimit, submitSolution,
         tenants, stripe
<1>3. /\ req[r].at \in {"idle"} \cup Admitting /\ req'[r].at \in {"idle"} \cup Admitting
      /\ \A x \in Request : x # r => req'[x] = req[x]
  <2>1. CASE checkStudentSubmissionQuota(r)
    BY <1>1, <2>1 DEF checkStudentSubmissionQuota, ReqType, Idle, Admitting
  <2>2. CASE studentQuotaFailsOpen(r)
    BY <1>1, <2>2 DEF studentQuotaFailsOpen, ReqType, Idle, Admitting
  <2>3. CASE \/ checkCollegeSubmissionQuota(r) \/ collegeQuotaFailsOpen(r)
             \/ checkPlanUsageLimit(r) \/ submitSolution(r)
    BY <1>1, <2>3, Steps
    DEF checkCollegeSubmissionQuota, collegeQuotaFailsOpen, checkPlanUsageLimit, submitSolution,
        Idle, Admitting
  <2>. QED
    BY <2>1, <2>2, <2>3 DEF Submitting
<1>. QED
  BY <1>1, <1>2, <1>3 DEF Placed, Admitting

LEMMA AccountSteps ==
    ASSUME TypeOK, NEW r \in Request, Accounts(r)
    PROVE  /\ UNCHANGED <<customer, account, subscription, events, standing, ops>>
           /\ req[r].at \in {"idle"} \cup Registering
           /\ req'[r].at \in {"idle"} \cup Registering
           /\ \A x \in Request : x # r => req'[x] = req[x]
           /\ \/ req'[r].kind = req[r].kind /\ req'[r].who = req[r].who
              \/ req'[r] = Idle
              \/ register(r) \/ bulkRegister(r) \/ signup(r)
<1>0. ReqType
  BY DEF TypeOK
<1>1. UNCHANGED <<customer, account, subscription, events, standing, ops>>
  BY DEF Accounts, register, bulkRegister, signup, signupCreate, checkRow, assertSeatCapacity,
         assertSeatCount, createUser, createUserFails, rollback, undoSignup, tenants, stripe
<1>2. CASE register(r) \/ bulkRegister(r) \/ signup(r)
  <2>1. req[r] = Idle /\ req'[r].at \in {"check", "found"}
    BY <1>0, <1>2, RegisterSteps
  <2>2. \A x \in Request : x # r => req'[x] = req[x]
    BY <1>0, <1>2, RegisterSteps
  <2>3. req[r].at = "idle"
    BY <2>1 DEF Idle
  <2>. QED
    BY <1>1, <1>2, <2>1, <2>2, <2>3 DEF Registering
<1>3. CASE checkRow(r) \/ createUser(r)
  <2>1. req[r].at \in Registering
    BY <1>3 DEF checkRow, createUser, Registering
  <2>2. CASE Ends(r)
    <3>1. req'[r] = Idle /\ \A x \in Request : x # r => req'[x] = req[x]
      BY <1>0, <2>2, Steps
    <3>2. req'[r].at = "idle"
      BY <3>1 DEF Idle
    <3>. QED
      BY <1>1, <2>1, <3>1, <3>2
  <2>3. ASSUME NEW place \in {"undo", "rollback"}, Goes(r, place)
        PROVE  /\ req'[r].at \in Registering
               /\ req'[r].kind = req[r].kind /\ req'[r].who = req[r].who
               /\ \A x \in Request : x # r => req'[x] = req[x]
    <3>1. /\ req'[r].at = place /\ Held(req'[r]) = Held(req[r])
          /\ \A x \in Request : x # r => req'[x] = req[x]
      BY <1>0, <2>3, Steps
    <3>. QED
      BY <3>1 DEF Held, Registering
  <2>4. \/ Refused(r) \/ Broken(r) \/ Ends(r)
        \/ /\ req'[r].at = req[r].at
           /\ req'[r].kind = req[r].kind /\ req'[r].who = req[r].who
           /\ \A x \in Request : x # r => req'[x] = req[x]
    BY <1>0, <1>3, RowSteps
  <2>5. Refused(r) \/ Broken(r) => Ends(r) \/ Goes(r, "undo") \/ Goes(r, "rollback")
    BY <1>0, Steps
  <2>. QED
    BY <1>1, <2>1, <2>2, <2>3, <2>4, <2>5
<1>4. CASE \/ signupCreate(r) \/ assertSeatCapacity(r) \/ assertSeatCount(r)
           \/ createUserFails(r) \/ rollback(r) \/ undoSignup(r)
  BY <1>0, <1>1, <1>4, Steps
  DEF signupCreate, assertSeatCapacity, assertSeatCount, createUserFails, rollback, undoSignup,
      Registering, Idle, Held
<1>. QED
  BY <1>2, <1>3, <1>4 DEF Accounts

LEMMA BillingSteps ==
    ASSUME TypeOK, NEW r \in Request, Billing(r)
    PROVE  /\ UNCHANGED <<user, ops>>
           /\ req[r].at \in {"idle"} \cup Paying /\ req'[r].at \in {"idle"} \cup Paying
           /\ \A x \in Request : x # r => req'[x] = req[x]
           /\ req'[r].kind \in {"none", "free", "pro"}
<1>0. ReqType
  BY DEF TypeOK
<1>1. UNCHANGED <<user, ops>>
  BY DEF Billing, createCheckoutSession, createCustomer, saveCustomer, createSession,
         subscriptionDeleted, setCollegePlan, savePlan, tenants
<1>2. /\ req[r].at \in {"idle"} \cup Paying /\ req'[r].at \in {"idle"} \cup Paying
      /\ \A x \in Request : x # r => req'[x] = req[x]
  <2>0. /\ Idle.at = "idle" /\ (Ends(r) => req'[r].at = "idle")
        /\ createCheckoutSession(r) \/ setCollegePlan(r) \/ subscriptionDeleted(r) => req[r] = Idle
    <3>1. Idle.at = "idle"
      BY DEF Idle
    <3>2. createCheckoutSession(r) \/ setCollegePlan(r) \/ subscriptionDeleted(r) => req[r] = Idle
      BY DEF createCheckoutSession, setCollegePlan, subscriptionDeleted, Begins
    <3>. QED
      BY <1>0, <3>1, <3>2, Steps
  <2>1. CASE createCheckoutSession(r)
    BY <1>0, <2>0, <2>1, CheckoutSteps DEF Paying
  <2>2. CASE createCustomer(r)
    BY <1>0, <2>0, <2>2, CustomerSteps DEF Paying
  <2>3. CASE subscriptionDeleted(r)
    BY <1>0, <2>0, <2>3, DeletedSteps DEF Paying
  <2>4. CASE setCollegePlan(r)
    BY <1>0, <2>0, <2>4, ManualSteps DEF Paying
  <2>5. CASE saveCustomer(r) \/ createSession(r) \/ savePlan(r)
    BY <1>0, <2>0, <2>5, Steps DEF saveCustomer, createSession, savePlan, Paying
  <2>. QED
    BY <2>1, <2>2, <2>3, <2>4, <2>5 DEF Billing
<1>3. TypeOK'
  BY BillingType
<1>4. Placed(req'[r])
  BY <1>3 DEF TypeOK, ReqType
<1>. QED
  BY <1>1, <1>2, <1>4 DEF Placed, Paying

LEMMA CalledNext == TypeOK /\ Called /\ [Next]_vars => Called'
<1> SUFFICES ASSUME TypeOK, Called, [Next]_vars PROVE Called'
  OBVIOUS
<1>0. ReqType /\ StripeType
  BY DEF TypeOK
<1>1. ASSUME NEW r \in Request, Accounts(r) PROVE Called'
  <2>1. /\ UNCHANGED <<subscription, events, ops>>
        /\ req'[r].at \notin {"newCustomer", "saveCustomer", "session", "savePlan"}
        /\ \A x \in Request : x # r => req'[x] = req[x]
    BY <1>1, AccountSteps DEF Registering
  <2>2. \/ req'[r].kind = req[r].kind
        \/ req'[r].kind = "none"
        \/ req'[r].kind = "one" /\ "register" \in ops
        \/ req'[r].kind = "many" /\ "bulk" \in ops
        \/ req'[r].kind = "signup" /\ "signup" \in ops
    <3>1. \/ req'[r].kind = req[r].kind \/ req'[r] = Idle
          \/ register(r) \/ bulkRegister(r) \/ signup(r)
      BY <1>1, AccountSteps
    <3>2. Idle.kind = "none"
      BY DEF Idle
    <3>. QED
      BY <1>0, <3>1, <3>2, RegisterSteps
  <2>. QED
    BY <2>1, <2>2 DEF Called
<1>2. ASSUME NEW r \in Request, Billing(r) PROVE Called'
  <2>1. /\ UNCHANGED ops /\ req'[r].kind \in {"none", "free", "pro"}
        /\ \A x \in Request : x # r => req'[x] = req[x]
    BY <1>2, BillingSteps
  <2>2. "checkout" \notin ops =>
          /\ UNCHANGED subscription /\ events' \subseteq events
          /\ req'[r].at \notin {"newCustomer", "saveCustomer", "session"}
    <3> SUFFICES ASSUME "checkout" \notin ops
                 PROVE  /\ UNCHANGED subscription /\ events' \subseteq events
                        /\ req'[r].at \notin {"newCustomer", "saveCustomer", "session"}
      OBVIOUS
    <3>1. req[r].at \notin {"newCustomer", "saveCustomer", "session"} /\ events = {}
      BY DEF Called
    <3>2. subscriptionDeleted(r) \/ setCollegePlan(r) \/ savePlan(r)
      BY <1>2, <3>1 DEF Billing, createCheckoutSession, createCustomer, saveCustomer,
           createSession, Begins
    <3>3. UNCHANGED subscription /\ events' \subseteq events
      BY <3>2 DEF subscriptionDeleted, setCollegePlan, savePlan, stripe, Delivered
    <3>4. Idle.at = "idle" /\ (savePlan(r) => Ends(r))
      BY DEF Idle, savePlan
    <3>5. req'[r].at \in {req[r].at, "savePlan", "idle"}
      BY <1>0, <3>2, <3>4, DeletedSteps, ManualSteps, Steps
    <3>. QED
      BY <3>1, <3>3, <3>5
  <2>3. "checkout" \notin ops /\ "manual" \notin ops => req'[r].at # "savePlan"
    <3> SUFFICES ASSUME "checkout" \notin ops, "manual" \notin ops PROVE FALSE
      OBVIOUS
    <3>. QED
      BY <1>2 DEF Called, Billing, createCheckoutSession, createCustomer, saveCustomer,
           createSession, subscriptionDeleted, setCollegePlan, savePlan, Begins
  <2>. QED
    BY <2>1, <2>2, <2>3 DEF Called
<1>3. ASSUME NEW r \in Request, Submitting(r) PROVE Called'
  BY <1>3, SubmitSteps DEF Called, Admitting
<1>4. CASE Pay \/ Cancel \/ checkoutCompleted
  <2>1. "checkout" \in ops
    BY <1>4 DEF Called, Pay, Cancel, Stripe, checkoutCompleted
  <2>2. UNCHANGED <<req, ops>>
    BY <1>4 DEF Pay, Cancel, Stripe, checkoutCompleted
  <2>. QED
    BY <2>1, <2>2 DEF Called
<1>5. CASE Meter \/ studentWindowPasses \/ collegeWindowPasses \/ UNCHANGED vars
  BY <1>5 DEF Meter, studentWindowPasses, collegeWindowPasses, vars, stripe, Called
<1>. QED
  BY <1>1, <1>2, <1>3, <1>4, <1>5 DEF Next

\* The same for what Stripe knows.
LEMMA LinkedFrame ==
    ASSUME Linked, UNCHANGED <<customer, account, subscription>>, events' \subseteq events,
           \A x \in Request : req'[x].at \in {"saveCustomer", "session"} =>
              /\ req'[x].seen = req[x].seen /\ req'[x].who = req[x].who
              /\ req[x].at \in {"saveCustomer", "session"}
    PROVE  Linked'
  BY DEF Linked, Payer

LEMMA LinkedBilling ==
    ASSUME TypeOK, Linked, NEW r \in Request, Billing(r)
    PROVE  Linked'
<1>0. ReqType /\ req[r] \in RequestType /\ Placed(req[r]) /\ None \notin College
      /\ None \notin Customer /\ Idle.at = "idle"
  BY TenancyAssumption DEF TypeOK, ReqType, Idle
<1>1. /\ customer \in [College -> Customer \cup {None}]
      /\ account \in [Customer -> College \cup {None}]
      /\ events \subseteq [type : {"completed", "deleted"}, of : Subscription]
  BY DEF TypeOK, TenantType, StripeType
<1>2. CASE createCheckoutSession(r)
  <2>1. /\ \A x \in Request : x # r => req'[x] = req[x]
        /\ req'[r].who \in College /\ req'[r].seen = customer[req'[r].who]
        /\ req'[r].at \in {"saveCustomer", "session"} => req'[r].seen # None
    BY <1>0, <1>2, CheckoutSteps
  <2>2. UNCHANGED <<customer, account, subscription, events>>
    BY <1>2 DEF createCheckoutSession, tenants, stripe
  <2>. QED
    BY <2>1, <2>2 DEF Linked, Payer
<1>3. CASE createCustomer(r)
  <2>1. UNCHANGED <<customer, subscription, events>> /\ req[r].who \in College
    BY <1>0, <1>3 DEF createCustomer, tenants, Placed, Paying
  <2>2. CASE req'[r] = Idle /\ UNCHANGED account
    BY <1>0, <1>3, <2>1, <2>2, CustomerSteps, LinkedFrame
  <2>3. CASE ~ (req'[r] = Idle /\ UNCHANGED account)
    <3>1. PICK k \in Customer :
            /\ account[k] = None /\ req'[r].seen = k /\ req'[r].who = req[r].who
            /\ account' = [account EXCEPT ![k] = req[r].who]
            /\ \A x \in Request : x # r => req'[x] = req[x]
      BY <1>0, <1>3, <2>3, CustomerSteps
    <3>2. /\ \A m \in Customer : account[m] # None => account'[m] = account[m]
          /\ account'[k] = req[r].who
      BY <1>1, <3>1
    <3>3. \A c \in College : customer'[c] # None => account'[customer'[c]] = c
      BY <1>0, <1>1, <2>1, <3>2 DEF Linked
    <3>4. \A x \in Request : req'[x].at \in {"saveCustomer", "session"} =>
            account'[req'[x].seen] = req'[x].who
      <4>1. ASSUME NEW x \in Request, x # r, req[x].at \in {"saveCustomer", "session"}
            PROVE  account'[req[x].seen] = req[x].who
        <5>1. req[x].seen \in Customer /\ req[x].who \in College
          BY <4>1 DEF TypeOK, ReqType, Placed, Paying
        <5>. QED
          BY <1>0, <3>2, <4>1, <5>1 DEF Linked
      <4>. QED
        BY <3>1, <3>2, <4>1
    <3>5. \A u \in Subscription : subscription'[u].state # "none" =>
            subscription'[u].of \in Customer /\ Payer(u)' \in College
      BY <1>0, <2>1, <3>2 DEF Linked, Payer
    <3>. QED
      BY <2>1, <3>3, <3>4, <3>5 DEF Linked
  <2>. QED
    BY <2>2, <2>3
<1>4. CASE saveCustomer(r)
  <2>1. /\ req[r].at = "saveCustomer" /\ customer' = [customer EXCEPT ![req[r].who] = req[r].seen]
        /\ UNCHANGED <<account, subscription, events>> /\ Goes(r, "session")
    BY <1>4 DEF saveCustomer, stripe
  <2>2. /\ req'[r].seen = req[r].seen /\ req'[r].who = req[r].who
        /\ \A x \in Request : x # r => req'[x] = req[x]
    BY <1>0, <2>1, Steps DEF Held
  <2>. QED
    BY <1>0, <1>1, <2>1, <2>2 DEF Linked, Payer
<1>5. CASE createSession(r)
  <2>1. /\ UNCHANGED <<customer, account, events>> /\ req[r].at = "session"
        /\ req[r].seen \in Customer /\ req'[r] = Idle
        /\ \A x \in Request : x # r => req'[x] = req[x]
    BY <1>5, SessionSteps
  <2>2. account[req[r].seen] \in College
    BY <1>0, <2>1 DEF Linked, Placed, Paying
  <2>3. CASE UNCHANGED subscription
    BY <1>0, <2>1, <2>3, LinkedFrame
  <2>4. ASSUME NEW u \in Subscription,
               subscription[u].state = "none", subscription'[u].of = req[r].seen,
               \A v \in Subscription \ {u} : subscription'[v] = subscription[v]
        PROVE  Linked'
    <3>1. \A v \in Subscription : subscription'[v].state # "none" =>
             subscription'[v].of \in Customer /\ Payer(v)' \in College
      BY <2>1, <2>2, <2>4 DEF Linked, Payer
    <3>2. \A e \in events : e.of # u /\ subscription'[e.of] = subscription[e.of]
      BY <1>1, <2>4 DEF Linked
    <3>. QED
      BY <1>0, <2>1, <3>1, <3>2 DEF Linked
  <2>. QED
    BY <1>5, <2>3, <2>4, SessionSteps
<1>6. CASE subscriptionDeleted(r)
  <2>1. UNCHANGED <<customer, account, subscription>> /\ events' \subseteq events
    BY <1>6 DEF subscriptionDeleted, tenants, Delivered
  <2>2. \A x \in Request : req'[x].at \in {"saveCustomer", "session"} => req'[x] = req[x]
    BY <1>0, <1>6, DeletedSteps
  <2>. QED
    BY <2>1, <2>2, LinkedFrame
<1>7. CASE setCollegePlan(r) \/ savePlan(r)
  <2>1. UNCHANGED <<customer, account, subscription, events>>
    BY <1>7 DEF setCollegePlan, savePlan, tenants, stripe
  <2>2. savePlan(r) => Ends(r)
    BY DEF savePlan
  <2>3. \A x \in Request : req'[x].at \in {"saveCustomer", "session"} => req'[x] = req[x]
    BY <1>0, <1>7, <2>2, ManualSteps, Steps
  <2>. QED
    BY <2>1, <2>3, LinkedFrame
<1>. QED
  BY <1>2, <1>3, <1>4, <1>5, <1>6, <1>7 DEF Billing

LEMMA LinkedNext == TypeOK /\ Linked /\ [Next]_vars => Linked'
<1> SUFFICES ASSUME TypeOK, Linked, [Next]_vars PROVE Linked'
  OBVIOUS
<1>0. StripeType
  BY DEF TypeOK
<1>1. ASSUME NEW r \in Request, Accounts(r) \/ Submitting(r) PROVE Linked'
  <2>1. UNCHANGED <<customer, account, subscription, events>>
    BY <1>1, AccountSteps, SubmitSteps
  <2>2. \A x \in Request : req'[x].at \in {"saveCustomer", "session"} => req'[x] = req[x]
    BY <1>1, AccountSteps, SubmitSteps DEF Registering, Admitting
  <2>. QED
    BY <2>1, <2>2, LinkedFrame
<1>2. ASSUME NEW r \in Request, Billing(r) PROVE Linked'
  BY <1>2, LinkedBilling
<1>3. ASSUME NEW u \in Subscription,
             \/ Stripe(u, "offered", "live", "completed")
             \/ Stripe(u, "live", "canceled", "deleted")
      PROVE  Linked'
  <2>1. PICK from \in {"offered", "live"}, to \in {"live", "canceled"},
             type \in {"completed", "deleted"} :
          Stripe(u, from, to, type) /\ (type = "deleted" => to = "canceled")
          /\ (from = "live" => to = "canceled")
    BY <1>3
  <2>2. /\ subscription[u].state = from /\ subscription'[u].state = to
        /\ subscription'[u].of = subscription[u].of
        /\ \A v \in Subscription \ {u} : subscription'[v] = subscription[v]
        /\ \A v \in Subscription : Payer(v)' = Payer(v)
        /\ events' = events \cup {[type |-> type, of |-> u]}
        /\ UNCHANGED <<customer, account, req>>
    BY <1>0, <2>1, StripeSteps
  <2>3. \A v \in Subscription : subscription'[v].state # "none" =>
           subscription'[v].of \in Customer /\ Payer(v)' \in College
    BY <2>2 DEF Linked
  <2>4. \A e \in events' : /\ subscription'[e.of].state \in {"live", "canceled"}
                           /\ e.type = "deleted" => subscription'[e.of].state = "canceled"
    BY <1>0, <2>1, <2>2 DEF Linked, StripeType
  <2>. QED
    BY <2>2, <2>3, <2>4 DEF Linked
<1>4. CASE checkoutCompleted
  BY <1>4, LinkedFrame DEF checkoutCompleted, Delivered
<1>5. CASE Meter \/ studentWindowPasses \/ collegeWindowPasses \/ UNCHANGED vars
  BY <1>5, LinkedFrame DEF Meter, studentWindowPasses, collegeWindowPasses, vars, tenants, stripe
<1>. QED
  BY <1>1, <1>2, <1>3, <1>4, <1>5 DEF Next, Pay, Cancel

\* A step in which no subscription goes on, no news of a payment are lost, and no
\* college with a running subscription loses its plan.
LEMMA ServedFrame ==
    ASSUME Served, UNCHANGED <<account, subscription, standing, ops>>,
           \A e \in events : e.type = "completed" => e \in events',
           \A u \in Subscription : subscription[u].state = "live" /\ plan[Payer(u)] = "pro" =>
              plan'[Payer(u)] = "pro",
           "manual" \notin ops => \A x \in Request : req'[x].at = "savePlan" =>
              req'[x].kind = "free" /\ CanceledIn(req'[x].who)
    PROVE  Served'
<1>1. \A v \in Subscription : Payer(v)' = Payer(v)
  BY DEF Payer
<1>2. \A c : CanceledIn(c)' = CanceledIn(c)
  BY <1>1 DEF CanceledIn
<1>3. ASSUME NEW u \in Subscription, subscription[u].state = "live" PROVE ServedOne(u)'
  <2>1. ServedOne(u)
    BY <1>3 DEF Served
  <2>2. [type |-> "completed", of |-> u] \in events => [type |-> "completed", of |-> u] \in events'
    OBVIOUS
  <2>3. (standing[u] = "served" /\ plan[Payer(u)] = "pro") => plan'[Payer(u)'] = "pro"
    BY <1>1, <1>3
  <2>. QED
    BY <1>1, <1>2, <2>1, <2>2, <2>3 DEF ServedOne
<1>. QED
  BY <1>2, <1>3 DEF Served

\* A college's cancelled subscriptions stay cancelled and stay its own.
LEMMA CanceledStays ==
    ASSUME NEW c, CanceledIn(c),
           \A v \in Subscription : subscription[v].state = "canceled" =>
              subscription'[v].state = "canceled" /\ Payer(v)' = Payer(v)
    PROVE  CanceledIn(c)'
  BY DEF CanceledIn

\* A step of Stripe or of the handlers that call it: what it does to one subscription.
LEMMA ServedStripe ==
    ASSUME Served, UNCHANGED <<plan, standing, ops>>, events \subseteq events',
           \A x \in Request : req'[x].at = "savePlan" => req'[x] = req[x],
           \A v \in Subscription : subscription[v].state \notin {"none", "offered"} =>
              /\ subscription'[v].state \notin {"none", "offered"} /\ Payer(v)' = Payer(v)
              /\ subscription[v].state = "canceled" => subscription'[v].state = "canceled",
           \A v \in Subscription : subscription[v].state # "live" /\ subscription'[v].state = "live"
              => /\ subscription[v].state = "offered"
                 /\ [type |-> "completed", of |-> v] \in events'
    PROVE  Served'
<1>1. \A c : CanceledIn(c) => CanceledIn(c)'
  BY CanceledStays
<1>2. "manual" \notin ops' => \A x \in Request : req'[x].at = "savePlan" =>
         req'[x].kind = "free" /\ CanceledIn(req[x].who)'
  <2> SUFFICES ASSUME "manual" \notin ops, NEW x \in Request, req'[x].at = "savePlan"
               PROVE  req'[x].kind = "free" /\ CanceledIn(req[x].who)'
    OBVIOUS
  <2>1. req'[x] = req[x]
    OBVIOUS
  <2>2. req[x].kind = "free" /\ CanceledIn(req[x].who)
    BY <2>1 DEF Served
  <2>3. \A c : c = req[x].who /\ c = req'[x].who => CanceledIn(c)'
    BY <1>1, <2>2
  <2>. QED
    BY <2>1, <2>2, <2>3
<1>3. \A u \in Subscription : subscription'[u].state \in {"none", "offered"} =>
         standing'[u] = "unheard"
  BY DEF Served
<1>4. ASSUME NEW u \in Subscription, subscription'[u].state = "live" PROVE ServedOne(u)'
  <2>1. CASE subscription[u].state = "live"
    <3>1. Payer(u)' = Payer(u) /\ ServedOne(u)
      BY <2>1 DEF Served
    <3>2. [type |-> "completed", of |-> u] \in events => [type |-> "completed", of |-> u] \in events'
      OBVIOUS
    <3>. QED
      BY <1>1, <3>1, <3>2 DEF ServedOne
  <2>2. CASE subscription[u].state # "live"
    <3>1. subscription[u].state = "offered" /\ [type |-> "completed", of |-> u] \in events'
      BY <1>4, <2>2
    <3>2. standing'[u] = "unheard"
      BY <3>1 DEF Served
    <3>. QED
      BY <3>1, <3>2 DEF ServedOne
  <2>. QED
    BY <2>1, <2>2
<1>. QED
  BY <1>2, <1>3, <1>4 DEF Served

LEMMA ServedNext ==
    ASSUME SignupsApart, TypeOK, Called, Linked, Served, [Next]_vars
    PROVE  Served'
<1>0. /\ ReqType /\ StripeType /\ ops \in Mixes /\ Idle.at = "idle"
      /\ account \in [Customer -> College \cup {None}] /\ None \notin College
      /\ plan \in [College -> Plan]
  BY TenancyAssumption DEF TypeOK, TenantType, StripeType, Called, Idle
<1>1. ASSUME NEW r \in Request, Accounts(r) PROVE Served'
  <2>1. /\ UNCHANGED <<account, subscription, events, standing, ops>>
        /\ \A x \in Request : req'[x].at = "savePlan" => req'[x] = req[x]
    BY <1>1, AccountSteps DEF Registering
  <2>2. CASE UNCHANGED plan
    BY <2>1, <2>2, ServedFrame DEF Served
  <2>3. CASE signupCreate(r) \/ undoSignup(r)
    <3>1. req[r].at \in {"found", "undo"}
      BY <2>3 DEF signupCreate, undoSignup
    <3>2. req[r].kind = "signup"
      BY <1>0, <3>1 DEF ReqType, Placed
    <3>3. "checkout" \notin ops
      BY <1>0, <3>2 DEF SignupsApart, Called
    <3>4. \A u \in Subscription : subscription[u].state # "live"
      BY <3>3 DEF Called
    <3>. QED
      BY <2>1, <3>4, ServedFrame DEF Served
  <2>. QED
    BY <1>1, <2>2, <2>3 DEF Accounts, register, bulkRegister, signup, checkRow,
       assertSeatCapacity, assertSeatCount, createUser, createUserFails, rollback, tenants
<1>2. ASSUME NEW r \in Request, Submitting(r) PROVE Served'
  <2>1. UNCHANGED <<account, subscription, events, standing, ops, plan>>
    BY <1>2, SubmitSteps
  <2>2. \A x \in Request : req'[x].at = "savePlan" => req'[x] = req[x]
    BY <1>2, SubmitSteps DEF Admitting
  <2>. QED
    BY <2>1, <2>2, ServedFrame DEF Served
<1>3. ASSUME NEW r \in Request, createCheckoutSession(r) \/ saveCustomer(r) PROVE Served'
  <2>1. UNCHANGED <<account, subscription, events, standing, ops, plan>>
    BY <1>3 DEF createCheckoutSession, saveCustomer, tenants, stripe
  <2>2. \A x \in Request : req'[x].at = "savePlan" => req'[x] = req[x]
    BY <1>0, <1>3, CheckoutSteps, Steps DEF saveCustomer
  <2>. QED
    BY <2>1, <2>2, ServedFrame DEF Served
<1>4. ASSUME NEW r \in Request, createCustomer(r) PROVE Served'
  <2>1. /\ UNCHANGED <<plan, subscription, standing, events, ops>>
        /\ \A x \in Request : req'[x].at = "savePlan" => req'[x] = req[x]
    BY <1>0, <1>4, CustomerSteps DEF createCustomer, tenants
  <2>2. \A k \in Customer : account[k] # None => account'[k] = account[k]
    BY <1>0, <1>4, CustomerSteps
  <2>3. \A v \in Subscription : subscription[v].state # "none" => Payer(v)' = Payer(v)
    BY <1>0, <2>1, <2>2 DEF Linked, Payer
  <2>. QED
    BY <2>1, <2>3, ServedStripe
<1>5. ASSUME NEW r \in Request, createSession(r) PROVE Served'
  <2>1. /\ UNCHANGED <<plan, account, events, standing, ops>>
        /\ \A x \in Request : req'[x].at = "savePlan" => req'[x] = req[x]
    BY <1>0, <1>5, SessionSteps
  <2>2. \A v \in Subscription :
           \/ subscription'[v] = subscription[v]
           \/ subscription[v].state = "none" /\ subscription'[v].state = "offered"
    BY <1>5, SessionSteps
  <2>3. \A v \in Subscription : subscription[v].state # "none" =>
           subscription'[v] = subscription[v] /\ Payer(v)' = Payer(v)
    BY <2>1, <2>2 DEF Payer
  <2>. QED
    BY <2>1, <2>2, <2>3, ServedStripe
<1>6. ASSUME NEW r \in Request, subscriptionDeleted(r) PROVE Served'
  <2>1. PICK e \in events :
          /\ e.type = "deleted" /\ Delivered(e)
          /\ \/ UNCHANGED req
             \/ /\ req'[r].at = "savePlan" /\ req'[r].kind = "free"
                /\ req'[r].who \in College /\ customer[req'[r].who] = subscription[e.of].of
    BY <1>0, <1>6, DeletedSteps
  <2>2. /\ UNCHANGED <<plan, account, subscription, standing, ops>>
        /\ \A x \in Request : x # r => req'[x] = req[x]
    BY <1>0, <1>6, DeletedSteps DEF subscriptionDeleted, tenants
  <2>3. \A d \in events : d.type = "completed" => d \in events'
    BY <2>1 DEF Delivered
  <2>4. /\ e.of \in Subscription /\ subscription[e.of].state = "canceled"
        /\ subscription[e.of].of \in Customer /\ subscription[e.of].of # None
    BY <1>0, <2>1, TenancyAssumption DEF Linked, StripeType
  <2>5. ASSUME req'[r].who \in College, customer[req'[r].who] = subscription[e.of].of
        PROVE  CanceledIn(req'[r].who)
    <3>1. account[subscription[e.of].of] = req'[r].who
      BY <2>4, <2>5 DEF Linked
    <3>. QED
      BY <2>4, <3>1 DEF CanceledIn, Payer
  <2>6. "manual" \notin ops => \A x \in Request : req'[x].at = "savePlan" =>
              req'[x].kind = "free" /\ CanceledIn(req'[x].who)
    BY <2>1, <2>2, <2>5 DEF Served
  <2>. QED
    BY <2>2, <2>3, <2>6, ServedFrame
<1>7. ASSUME NEW r \in Request, setCollegePlan(r) PROVE Served'
  <2>1. "manual" \in ops /\ UNCHANGED <<plan, account, subscription, standing, ops, events>>
    BY <1>0, <1>7, ManualSteps DEF setCollegePlan, tenants, stripe
  <2>. QED
    BY <2>1, ServedFrame DEF Served
<1>8. ASSUME NEW r \in Request, savePlan(r) PROVE Served'
  <2>1. /\ req[r].at = "savePlan" /\ UNCHANGED <<account, subscription, events, ops>>
        /\ Ends(r) /\ req[r].who \in College /\ req[r].kind \in {"free", "pro"}
    BY <1>0, <1>8 DEF savePlan, ReqType, Placed, Paying
  <2>2. \A x \in Request : req'[x].at = "savePlan" => req'[x] = req[x]
    BY <1>0, <2>1, Steps
  <2>3. CASE UNCHANGED <<plan, standing>>
    BY <2>1, <2>2, <2>3, ServedFrame DEF Served
  <2>4. CASE ~ UNCHANGED <<plan, standing>>
    <3>1. /\ plan' = [plan EXCEPT ![req[r].who] = req[r].kind]
          /\ standing' = [u \in Subscription |->
                IF req[r].kind = "free" /\ standing[u] = "served" /\ Payer(u) = req[r].who
                THEN "taken" ELSE standing[u]]
      BY <1>8, <2>4 DEF savePlan
    <3>2. \A v \in Subscription : Payer(v)' = Payer(v)
      BY <2>1 DEF Payer
    <3>3. \A c : CanceledIn(c)' = CanceledIn(c)
      BY <2>1, <3>2 DEF CanceledIn
    <3>4. "manual" \notin ops' => \A x \in Request : req'[x].at = "savePlan" =>
             req'[x].kind = "free" /\ CanceledIn(req[x].who)'
      BY <2>1, <2>2, <3>3 DEF Served
    <3>5. \A u \in Subscription : subscription'[u].state \in {"none", "offered"} =>
             standing'[u] = "unheard"
      BY <2>1, <3>1 DEF Served
    <3>6. ASSUME NEW u \in Subscription, subscription[u].state = "live" PROVE ServedOne(u)'
      <4>1. ServedOne(u)
        BY <3>6 DEF Served
      <4>2. CASE standing[u] = "unheard"
        BY <2>1, <3>1, <4>1, <4>2 DEF ServedOne
      <4>3. CASE standing[u] = "taken"
        BY <2>1, <3>1, <3>2, <3>3, <4>1, <4>3 DEF ServedOne
      <4>4. CASE standing[u] = "served"
        <5>1. plan[Payer(u)] = "pro" /\ Payer(u) \in College
          BY <3>6, <4>1, <4>4 DEF ServedOne, Linked
        <5>2. CASE Payer(u) = req[r].who /\ req[r].kind = "free"
          <6>1. standing'[u] = "taken"
            BY <3>1, <4>4, <5>2
          <6>2. "manual" \in ops \/ CanceledIn(req[r].who)
            BY <2>1 DEF Served
          <6>. QED
            BY <2>1, <3>2, <3>3, <5>2, <6>1, <6>2 DEF ServedOne
        <5>3. CASE ~ (Payer(u) = req[r].who /\ req[r].kind = "free")
          <6>1. standing'[u] = "served"
            BY <3>1, <4>4, <5>3
          <6>2. plan'[Payer(u)] = "pro"
            BY <1>0, <2>1, <3>1, <5>1, <5>3
          <6>. QED
            BY <3>2, <6>1, <6>2 DEF ServedOne
        <5>. QED
          BY <5>2, <5>3
      <4>. QED
        BY <1>0, <4>2, <4>3, <4>4 DEF StripeType
    <3>. QED
      BY <2>1, <3>4, <3>5, <3>6 DEF Served
  <2>. QED
    BY <2>3, <2>4
<1>9. ASSUME NEW u \in Subscription,
             \/ Stripe(u, "offered", "live", "completed")
             \/ Stripe(u, "live", "canceled", "deleted")
      PROVE  Served'
  <2>1. CASE Stripe(u, "offered", "live", "completed")
    <3>1. /\ subscription[u].state = "offered" /\ subscription'[u].state = "live"
          /\ \A v \in Subscription \ {u} : subscription'[v] = subscription[v]
          /\ \A v \in Subscription : Payer(v)' = Payer(v)
          /\ events' = events \cup {[type |-> "completed", of |-> u]}
          /\ UNCHANGED <<plan, standing, req, ops>>
      BY <1>0, <2>1, StripeSteps
    <3>2. [type |-> "completed", of |-> u] \in events'
      BY <3>1
    <3>. QED
      BY <3>1, <3>2, ServedStripe
  <2>2. CASE Stripe(u, "live", "canceled", "deleted")
    <3>1. /\ subscription[u].state = "live" /\ subscription'[u].state = "canceled"
          /\ \A v \in Subscription \ {u} : subscription'[v] = subscription[v]
          /\ \A v \in Subscription : Payer(v)' = Payer(v)
          /\ events \subseteq events'
          /\ UNCHANGED <<plan, standing, req, ops>>
      BY <1>0, <2>2, StripeSteps
    <3>. QED
      BY <3>1, ServedStripe
  <2>. QED
    BY <1>9, <2>1, <2>2
<1>10. CASE checkoutCompleted
  <2>1. PICK e \in events :
          /\ e.type = "completed" /\ Delivered(e)
          /\ plan' = [plan EXCEPT ![Payer(e.of)] = "pro"]
          /\ standing' = [standing EXCEPT ![e.of] = "served"]
    BY <1>10 DEF checkoutCompleted
  <2>2. UNCHANGED <<account, subscription, req, ops>>
    BY <1>10 DEF checkoutCompleted
  <2>3. /\ e.of \in Subscription /\ subscription[e.of].state \in {"live", "canceled"}
        /\ Payer(e.of) \in College
    BY <1>0 DEF Linked, StripeType
  <2>4. \A v \in Subscription : Payer(v)' = Payer(v)
    BY <2>2 DEF Payer
  <2>5. \A c : CanceledIn(c)' = CanceledIn(c)
    BY <2>2, <2>4 DEF CanceledIn
  <2>6. /\ standing'[e.of] = "served" /\ plan'[Payer(e.of)] = "pro"
        /\ \A v \in Subscription : v # e.of => standing'[v] = standing[v]
        /\ \A c \in College : plan[c] = "pro" => plan'[c] = "pro"
    BY <1>0, <2>1, <2>3 DEF StripeType
  <2>7. ASSUME NEW u \in Subscription, subscription[u].state = "live" PROVE ServedOne(u)'
    <3>1. CASE u = e.of
      BY <2>4, <2>6, <3>1 DEF ServedOne
    <3>2. CASE u # e.of
      <4>1. ServedOne(u) /\ Payer(u) \in College
        BY <2>7 DEF Served, Linked
      <4>2. [type |-> "completed", of |-> u] \in events =>
               [type |-> "completed", of |-> u] \in events'
        BY <2>1, <3>2 DEF Delivered
      <4>. QED
        BY <2>2, <2>4, <2>5, <2>6, <3>2, <4>1, <4>2 DEF ServedOne
    <3>. QED
      BY <3>1, <3>2
  <2>8. \A u \in Subscription : subscription'[u].state \in {"none", "offered"} =>
           standing'[u] = "unheard"
    BY <2>2, <2>3, <2>6 DEF Served
  <2>. QED
    BY <2>2, <2>5, <2>7, <2>8 DEF Served
<1>11. CASE Meter \/ studentWindowPasses \/ collegeWindowPasses \/ UNCHANGED vars
  BY <1>11, ServedFrame
  DEF Meter, studentWindowPasses, collegeWindowPasses, vars, tenants, stripe, Served
<1>. QED
  BY <1>1, <1>2, <1>3, <1>4, <1>5, <1>6, <1>7, <1>8, <1>9, <1>10, <1>11
  DEF Next, Billing, Pay, Cancel

\* However a college's checkouts raced for its customer record, and in whatever order
\* and how often Stripe's events arrived, of payments and of cancellations, a running
\* subscription has its plan or will get it from an event that is due, unless the
\* cancellation of another subscription of the college (or the superadmin) took the
\* plan after this one had given it.
THEOREM PaymentIsServed == ASSUME SignupsApart PROVE Spec => []PaidIsServed
<1>1. Init => Called /\ Linked /\ Served
  BY DEF Init, Called, Linked, Served, Idle
<1>2. Served => PaidIsServed
  BY DEF Served, ServedOne, CanceledIn, PaidIsServed
<1>3. TypeOK /\ Called /\ Linked /\ Served /\ [Next]_vars => Served'
  BY ServedNext
<1>. QED
  BY <1>1, <1>2, <1>3, InitType, NextType, CalledNext, LinkedNext, PTL DEF Spec

-----------------------------------------------------------------------------

LEMMA SettledNext ==
    ASSUME TypeOK, Called, Linked, Settled, [Next]_vars
    PROVE  Settled'
<1> SUFFICES ASSUME "signup" \notin ops, UNCHANGED ops PROVE Settled'
  <2>1. UNCHANGED ops
    <3>1. ASSUME NEW r \in Request, Accounts(r) \/ Billing(r) \/ Submitting(r) PROVE UNCHANGED ops
      BY <3>1, AccountSteps, BillingSteps, SubmitSteps
    <3>. QED
      BY <3>1 DEF Next, Pay, Cancel, Stripe, checkoutCompleted, Meter,
           studentWindowPasses, collegeWindowPasses, vars
  <2>. QED
    BY <2>1 DEF Settled
<1>0. /\ ReqType /\ None \notin College /\ Founded \subseteq College
      /\ account \in [Customer -> College \cup {None}]
      /\ plan \in [College -> Plan] /\ user \in [Email -> College \cup {None}]
      /\ customer \in [College -> Customer \cup {None}]
  BY TenancyAssumption DEF TypeOK, TenantType, StripeType
<1>00. /\ \A c \in College : plan[c] = "none" <=> c \notin Founded
       /\ \A r \in Request : req[r].at \in Registering \cup Paying => req[r].who \in Founded
       /\ \A e \in Email : user[e] \in Founded \cup {None}
       /\ \A k \in Customer : account[k] \in Founded \cup {None}
       /\ \A r \in Request : req[r].kind # "signup"
  BY DEF Settled, Called
<1>1. ASSUME NEW r \in Request, Accounts(r) PROVE Settled'
  <2>1. /\ UNCHANGED account /\ \A x \in Request : x # r => req'[x] = req[x]
        /\ req[r].at \in {"idle"} \cup Registering
    BY <1>1, AccountSteps
  <2>2. ~ signup(r) /\ ~ signupCreate(r) /\ ~ undoSignup(r)
    BY <1>0, <1>00 DEF signup, Begins, signupCreate, undoSignup, ReqType, Placed
  <2>3. UNCHANGED plan
    BY <1>1, <2>2 DEF Accounts, register, bulkRegister, checkRow,
       assertSeatCapacity, assertSeatCount, createUser, createUserFails, rollback, tenants
  <2>4. req'[r].at \in Registering => req'[r].who \in Founded
    <3>1. CASE register(r) \/ bulkRegister(r)
      BY <1>0, <1>00, <3>1, RegisterSteps
    <3>2. CASE ~ (register(r) \/ bulkRegister(r))
      <4>1. Idle.at = "idle" /\ "idle" \notin Registering
        BY DEF Idle, Registering
      <4>2. req'[r] = Idle \/ req'[r].who = req[r].who
        BY <1>1, <2>2, <3>2, AccountSteps
      <4>3. req[r].at \in Registering
        BY <1>1, <2>2, <3>2 DEF Accounts, checkRow, assertSeatCapacity, assertSeatCount,
             createUser, createUserFails, rollback, Registering
      <4>. QED
        BY <1>00, <4>1, <4>2, <4>3
    <3>. QED
      BY <3>1, <3>2
  <2>5. req'[r].at \in Paying => req'[r].who \in Founded
    BY <1>1, AccountSteps DEF Registering, Paying
  <2>6. \A e \in Email : user'[e] \in Founded \cup {None}
    <3>1. CASE createUser(r)
      <4>1. req[r].who \in Founded
        BY <1>00, <3>1 DEF createUser, Registering
      <4>2. \/ UNCHANGED user
            \/ \E e \in req[r].batch : user' = [user EXCEPT ![e] = req[r].who]
        BY <3>1 DEF createUser
      <4>. QED
        BY <1>0, <1>00, <4>1, <4>2
    <3>2. CASE rollback(r)
      BY <1>00, <3>2 DEF rollback
    <3>3. CASE UNCHANGED user
      BY <1>00, <3>3
    <3>. QED
      BY <1>1, <2>2, <3>1, <3>2, <3>3 DEF Accounts, register, bulkRegister, checkRow,
         assertSeatCapacity, assertSeatCount, createUserFails, tenants
  <2>. QED
    BY <1>00, <2>1, <2>3, <2>4, <2>5, <2>6 DEF Settled
<1>2. ASSUME NEW r \in Request, Submitting(r) PROVE Settled'
  <2>1. /\ UNCHANGED <<plan, account, user>> /\ \A x \in Request : x # r => req'[x] = req[x]
        /\ req'[r].at \notin Registering \cup Paying
    BY <1>2, SubmitSteps DEF Admitting, Registering, Paying
  <2>. QED
    BY <1>00, <2>1 DEF Settled
<1>3. ASSUME NEW r \in Request, Billing(r) PROVE Settled'
  <2>1. /\ UNCHANGED user /\ \A x \in Request : x # r => req'[x] = req[x]
        /\ req'[r].at \notin Registering
    BY <1>3, BillingSteps DEF Registering, Paying
  <2>2. Idle.at = "idle" /\ "idle" \notin Paying
    BY DEF Idle, Paying
  <2>3. req'[r].at \in Paying => req'[r].who \in Founded
    <3>1. CASE createCheckoutSession(r)
      BY <1>0, <1>00, <3>1, CheckoutSteps
    <3>2. CASE createCustomer(r)
      BY <1>0, <1>00, <2>2, <3>2, CustomerSteps DEF Paying
    <3>3. CASE subscriptionDeleted(r)
      <4>1. PICK e \in events :
              \/ UNCHANGED req
              \/ req'[r].who \in College /\ customer[req'[r].who] = subscription[e.of].of
        BY <1>0, <3>3, DeletedSteps
      <4>2. subscription[e.of].of \in Customer /\ subscription[e.of].of # None
        BY TenancyAssumption DEF TypeOK, StripeType, Linked
      <4>3. ASSUME req'[r].who \in College, customer[req'[r].who] = subscription[e.of].of
            PROVE  req'[r].who \in Founded
        <5>1. account[subscription[e.of].of] = req'[r].who
          BY <4>2, <4>3 DEF Linked
        <5>. QED
          BY <1>0, <1>00, <4>2, <4>3, <5>1
      <4>. QED
        BY <1>00, <4>1, <4>3
    <3>4. CASE setCollegePlan(r)
      BY <1>0, <1>00, <3>4, ManualSteps
    <3>5. CASE saveCustomer(r) \/ createSession(r) \/ savePlan(r)
      <4>1. req[r].at \in Paying /\ (Ends(r) \/ Goes(r, "session"))
        BY <3>5 DEF saveCustomer, createSession, savePlan, Paying
      <4>2. CASE Ends(r)
        BY <1>0, <2>2, <4>2, Steps
      <4>3. CASE Goes(r, "session")
        BY <1>0, <1>00, <4>1, <4>3, Steps DEF Held
      <4>. QED
        BY <4>1, <4>2, <4>3
    <3>. QED
      BY <1>3, <3>1, <3>2, <3>3, <3>4, <3>5 DEF Billing
  <2>4. \A c \in College : plan'[c] = "none" <=> c \notin Founded
    <3>1. CASE savePlan(r)
      <4>1. req[r].who \in Founded /\ req[r].kind \in {"free", "pro"}
        BY <1>0, <1>00, <3>1 DEF savePlan, Paying, ReqType, Placed
      <4>. QED
        BY <1>0, <1>00, <3>1, <4>1 DEF savePlan
    <3>2. CASE UNCHANGED plan
      BY <1>00, <3>2
    <3>. QED
      BY <1>3, <3>1, <3>2 DEF Billing, createCheckoutSession, createCustomer, saveCustomer,
         createSession, subscriptionDeleted, setCollegePlan, tenants
  <2>5. \A k \in Customer : account'[k] \in Founded \cup {None}
    <3>1. CASE createCustomer(r)
      <4>1. req[r].who \in Founded
        BY <1>00, <3>1 DEF createCustomer, Paying
      <4>2. UNCHANGED account \/ \E k \in Customer : account' = [account EXCEPT ![k] = req[r].who]
        BY <3>1 DEF createCustomer
      <4>. QED
        BY <1>0, <1>00, <4>1, <4>2
    <3>2. CASE UNCHANGED account
      BY <1>00, <3>2
    <3>. QED
      BY <1>3, <3>1, <3>2 DEF Billing, createCheckoutSession, saveCustomer,
         createSession, subscriptionDeleted, setCollegePlan, savePlan, stripe
  <2>. QED
    BY <1>00, <2>1, <2>3, <2>4, <2>5 DEF Settled
<1>4. CASE Pay \/ Cancel
  <2>1. UNCHANGED <<plan, user, account, req>>
    BY <1>4 DEF Pay, Cancel, Stripe, tenants
  <2>. QED
    BY <1>00, <2>1 DEF Settled
<1>5. CASE checkoutCompleted
  <2>1. PICK e \in events : plan' = [plan EXCEPT ![Payer(e.of)] = "pro"]
    BY <1>5 DEF checkoutCompleted
  <2>2. UNCHANGED <<user, account, req>>
    BY <1>5 DEF checkoutCompleted
  <2>3. /\ subscription[e.of].of \in Customer /\ Payer(e.of) \in College
        /\ Payer(e.of) = account[subscription[e.of].of]
    BY DEF Linked, TypeOK, StripeType, Payer
  <2>4. Payer(e.of) \in Founded
    BY <1>0, <1>00, <2>3
  <2>5. \A c \in College : plan'[c] = "none" <=> c \notin Founded
    BY <1>0, <1>00, <2>1, <2>4
  <2>. QED
    BY <1>00, <2>2, <2>5 DEF Settled
<1>6. CASE Meter \/ studentWindowPasses \/ collegeWindowPasses \/ UNCHANGED vars
  <2>1. UNCHANGED <<plan, user, account, req>>
    BY <1>6 DEF Meter, studentWindowPasses, collegeWindowPasses, vars, tenants, stripe
  <2>. QED
    BY <1>00, <2>1 DEF Settled
<1>. QED
  BY <1>1, <1>2, <1>3, <1>4, <1>5, <1>6 DEF Next

\* Where colleges are being founded, requests make accounts as signups or submit.
LEMMA SignupsOnly ==
    ASSUME SignupsApart, TypeOK, Called, "signup" \in ops
    PROVE  /\ \A r \in Request : req[r].at \in Registering => req[r].kind = "signup"
           /\ \A r \in Request : ~ Billing(r) /\ ~ register(r) /\ ~ bulkRegister(r) /\ ~ rollback(r)
           /\ ~ Pay /\ ~ Cancel /\ ~ checkoutCompleted
<1>1. ops \cap {"register", "bulk", "checkout", "manual"} = {}
  BY DEF SignupsApart, Called
<1>2. /\ \A r \in Request : req[r].kind # "one" /\ req[r].kind # "many"
      /\ \A r \in Request : req[r].at \notin {"newCustomer", "saveCustomer", "session", "savePlan"}
      /\ events = {} /\ \A u \in Subscription : subscription[u].state = "none"
  BY <1>1 DEF Called
<1>3. \A r \in Request : /\ req[r].at \in Registering => req[r].kind = "signup"
                         /\ req[r].at # "rollback"
  BY <1>2 DEF TypeOK, ReqType, Placed, Registering
<1>4. ASSUME NEW r \in Request
      PROVE  ~ Billing(r) /\ ~ register(r) /\ ~ bulkRegister(r) /\ ~ rollback(r)
  BY <1>1, <1>2, <1>3 DEF Billing, createCheckoutSession, createCustomer, saveCustomer,
     createSession, subscriptionDeleted, setCollegePlan, savePlan, register, bulkRegister,
     rollback, Begins
<1>5. ~ Pay /\ ~ Cancel /\ ~ checkoutCompleted
  BY <1>2 DEF Pay, Cancel, Stripe, checkoutCompleted
<1>. QED
  BY <1>3, <1>4, <1>5

\* A step that changes neither colleges nor accounts nor what a signup is about.
LEMMA AloneFrame ==
    ASSUME OneAddress, NobodyYet, Administered, Existing, UNCHANGED <<plan, user>>,
           \A x \in Request :
              \/ req'[x].kind # "signup" /\ ~ Founding(x)
              \/ /\ req'[x].kind = req[x].kind /\ req'[x].who = req[x].who
                 /\ req'[x].at = "found" <=> req[x].at = "found"
                 /\ req'[x].todo \cup req'[x].batch = req[x].todo \cup req[x].batch
                 /\ req'[x].at \in {"count", "create"} => req'[x].todo = {}
    PROVE  (OneAddress /\ NobodyYet /\ Administered /\ Existing)'
<1>1. \A x \in Request : Founding(x)' <=> Founding(x)
  BY DEF Founding
<1>2. \A x \in Request : Founding(x) => req'[x].who = req[x].who
  BY DEF Founding
<1>3. OneAddress'
  BY DEF OneAddress
<1>4. NobodyYet'
  BY <1>1, <1>2 DEF NobodyYet
<1>5. Administered'
  BY <1>1, <1>2 DEF Administered
<1>6. Existing'
  BY DEF Existing
<1>. QED
  BY <1>3, <1>4, <1>5, <1>6

LEMMA AloneNext ==
    ASSUME SignupsApart, TypeOK, Called, Alone, [Next]_vars
    PROVE  Alone'
<1> SUFFICES ASSUME "signup" \in ops, UNCHANGED ops
             PROVE  (OneAddress /\ NobodyYet /\ Administered /\ Existing)'
  <2>1. UNCHANGED ops
    <3>1. ASSUME NEW r \in Request, Accounts(r) \/ Billing(r) \/ Submitting(r) PROVE UNCHANGED ops
      BY <3>1, AccountSteps, BillingSteps, SubmitSteps
    <3>. QED
      BY <3>1 DEF Next, Pay, Cancel, Stripe, checkoutCompleted, Meter,
           studentWindowPasses, collegeWindowPasses, vars
  <2>. QED
    BY <2>1 DEF Alone
<1>0. /\ ReqType /\ None \notin College /\ Founded \subseteq College
      /\ plan \in [College -> Plan] /\ user \in [Email -> College \cup {None}]
      /\ OneAddress /\ NobodyYet /\ Administered /\ Existing
  BY TenancyAssumption DEF TypeOK, TenantType, Alone
<1>1. ASSUME NEW r \in Request, signup(r)
      PROVE  (OneAddress /\ NobodyYet /\ Administered /\ Existing)'
  <2>1. /\ req[r] = Idle /\ req'[r].kind = "signup" /\ req'[r].at = "found"
        /\ req'[r].batch = {} /\ \E e \in Email : req'[r].todo = {e}
        /\ \A x \in Request : x # r => req'[x] = req[x]
    <3>1. "register" \notin ops /\ "bulk" \notin ops
      BY DEF SignupsApart, Called
    <3>. QED
      BY <1>0, <1>1, <3>1, RegisterSteps
  <2>2. UNCHANGED <<plan, user>> /\ Idle.kind = "none"
    BY <1>1 DEF signup, tenants, Idle
  <2>3. \A x \in Request : x # r => (Founding(x)' <=> Founding(x)) /\ req'[x].who = req[x].who
    BY <2>1 DEF Founding
  <2>4. ~ Founding(r) /\ ~ Founding(r)'
    BY <2>1, <2>2 DEF Founding
  <2>5. OneAddress'
    BY <1>0, <2>1 DEF OneAddress
  <2>6. NobodyYet'
    BY <1>0, <2>2, <2>3, <2>4 DEF NobodyYet
  <2>7. Administered'
    BY <1>0, <2>2, <2>3, <2>4 DEF Administered
  <2>8. Existing'
    BY <1>0, <2>2 DEF Existing
  <2>. QED
    BY <2>5, <2>6, <2>7, <2>8
<1>2. ASSUME NEW r \in Request, signupCreate(r)
      PROVE  (OneAddress /\ NobodyYet /\ Administered /\ Existing)'
  <2>1. req[r].at = "found" /\ req[r].kind = "signup" /\ req[r].who \in College /\ UNCHANGED user
    BY <1>0, <1>2 DEF signupCreate, ReqType, Placed, Registering
  <2>2. CASE Ends(r) /\ UNCHANGED plan
    <3>1. req'[r] = Idle /\ Idle.kind = "none" /\ \A x \in Request : x # r => req'[x] = req[x]
      BY <1>0, <2>2, Steps DEF Idle
    <3>2. ASSUME NEW x \in Request PROVE
            \/ req'[x].kind # "signup" /\ ~ Founding(x)
            \/ /\ req'[x] = req[x]
               /\ req'[x].kind = "signup" /\ req'[x].at \in {"count", "create"} => req'[x].todo = {}
      BY <1>0, <2>1, <3>1 DEF Founding, OneAddress
    <3>3. \A x \in Request : (Founding(x)' <=> Founding(x))
                             /\ (Founding(x) => req'[x].who = req[x].who)
      BY <3>2 DEF Founding
    <3>4. OneAddress'
      BY <1>0, <3>2 DEF OneAddress
    <3>5. NobodyYet' /\ Administered' /\ Existing'
      BY <1>0, <2>1, <2>2, <3>3 DEF NobodyYet, Administered, Existing
    <3>. QED
      BY <3>4, <3>5
  <2>3. CASE /\ plan[req[r].who] = "none" /\ Goes(r, "check")
             /\ plan' = [plan EXCEPT ![req[r].who] = "free"]
    <3>1. /\ req'[r].at = "check" /\ req'[r].kind = "signup" /\ req'[r].who = req[r].who
          /\ req'[r].todo = req[r].todo /\ req'[r].batch = req[r].batch
          /\ \A x \in Request : x # r => req'[x] = req[x]
      BY <1>0, <2>1, <2>3, Steps DEF Held
    <3>2. /\ plan'[req[r].who] = "free"
          /\ \A c \in College : c # req[r].who => plan'[c] = plan[c]
      BY <1>0, <2>1, <2>3
    <3>3. Founding(r)' /\ ~ Founding(r)
      BY <2>1, <3>1 DEF Founding
    <3>4. \A x \in Request : x # r => (Founding(x)' <=> Founding(x)) /\ req'[x].who = req[x].who
      BY <3>1 DEF Founding
    <3>5. /\ req[r].who \notin Founded /\ \A e \in Email : user[e] # req[r].who
          /\ \A x \in Request : Founding(x) => req[x].who # req[r].who
      BY <1>0, <2>1, <2>3 DEF Existing, NobodyYet
    <3>6. \A x \in Request : Founding(x) => req[x].who \in College
      <4>. SUFFICES ASSUME NEW x \in Request, Founding(x) PROVE req[x].who \in College
        OBVIOUS
      <4>1. req[x].at \in Registering
        BY <1>0 DEF Founding, ReqType, RequestType, Placed, Registering, Paying, Admitting
      <4>. QED
        BY <1>0, <4>1 DEF ReqType, Placed
    <3>7. OneAddress'
      <4>1. \A x \in Request : /\ req'[x].kind = req[x].kind
                               /\ req'[x].todo = req[x].todo /\ req'[x].batch = req[x].batch
                               /\ req'[x].at \in {"count", "create"} =>
                                     req[x].at \in {"count", "create"}
        BY <2>1, <3>1
      <4>. QED
        BY <1>0, <4>1 DEF OneAddress
    <3>8. NobodyYet'
      BY <1>0, <2>1, <3>1, <3>2, <3>3, <3>4, <3>5, <3>6 DEF NobodyYet
    <3>9. Administered'
      BY <1>0, <2>1, <3>1, <3>2, <3>3, <3>4 DEF Administered
    <3>10. Existing'
      BY <1>0, <2>1, <3>2, <3>5 DEF Existing
    <3>. QED
      BY <3>7, <3>8, <3>9, <3>10
  <2>. QED
    BY <1>2, <2>2, <2>3 DEF signupCreate
<1>3. ASSUME NEW r \in Request,
             \/ checkRow(r) \/ assertSeatCapacity(r) \/ assertSeatCount(r) \/ createUserFails(r)
             \/ createUser(r) /\ UNCHANGED user
      PROVE  (OneAddress /\ NobodyYet /\ Administered /\ Existing)'
  <2>1. req[r].at \in {"check", "count", "create"} /\ req[r].kind = "signup"
    <3>1. req[r].at \in {"check", "count", "create"}
      BY <1>3 DEF checkRow, assertSeatCapacity, assertSeatCount, createUserFails, createUser
    <3>. QED
      BY <3>1, SignupsOnly DEF Registering
  <2>2. UNCHANGED <<plan, user>>
    BY <1>3 DEF checkRow, assertSeatCapacity, assertSeatCount, createUserFails, createUser, tenants
  <2>3. PICK e \in Email : req[r].todo \cup req[r].batch = {e}
    BY <1>0, <2>1 DEF OneAddress
  <2>4. \/ \E place \in {"undo", "check", "count", "create"} :
              Goes(r, place) /\ (place \in {"count", "create"} => req[r].todo = {})
        \/ /\ req'[r].at = "check" /\ req'[r].kind = "signup" /\ req'[r].who = req[r].who
           /\ req'[r].todo \cup req'[r].batch = req[r].todo \cup req[r].batch
           /\ \A x \in Request : x # r => req'[x] = req[x]
    <3>1. Refused(r) \/ Broken(r) => Goes(r, "undo")
      BY <2>1 DEF Refused, Broken
    <3>2. CASE checkRow(r) \/ createUser(r)
      <4>1. ~ Ends(r) \/ user' # user
        <5>1. Ends(r) => req[r].at = "create"
                         /\ \E d \in Email : user[d] = None /\ user' = [user EXCEPT ![d] = req[r].who]
          BY <1>0, <2>1, <3>1, <3>2, RowSteps, Steps DEF Idle
        <5>2. req[r].who \in College
          BY <1>0, <2>1 DEF ReqType, Placed, Registering
        <5>. QED
          BY <1>0, <5>1, <5>2
      <4>. QED
        BY <1>0, <2>1, <2>2, <2>3, <3>1, <3>2, <4>1, RowSteps
    <3>3. CASE assertSeatCapacity(r)
      <4>1. req[r].todo = {} /\ req[r].batch # {}
        BY <2>3, <3>3 DEF assertSeatCapacity
      <4>. QED
        BY <3>3, <4>1 DEF assertSeatCapacity
    <3>4. CASE assertSeatCount(r)
      <4>1. req[r].todo = {}
        BY <1>0, <2>1, <3>4 DEF assertSeatCount, OneAddress
      <4>. QED
        BY <3>1, <3>4, <4>1 DEF assertSeatCount
    <3>. QED
      BY <1>3, <3>1, <3>2, <3>3, <3>4 DEF createUserFails
  <2>5. /\ req'[r].kind = req[r].kind /\ req'[r].who = req[r].who
        /\ req'[r].at # "found"
        /\ req'[r].todo \cup req'[r].batch = req[r].todo \cup req[r].batch
        /\ req'[r].at \in {"count", "create"} => req'[r].todo = {}
        /\ \A x \in Request : x # r => req'[x] = req[x]
    BY <1>0, <2>1, <2>4, Steps DEF Held
  <2>6. \A x \in Request :
          \/ req'[x].kind # "signup" /\ ~ Founding(x)
          \/ /\ req'[x].kind = req[x].kind /\ req'[x].who = req[x].who
             /\ req'[x].at = "found" <=> req[x].at = "found"
             /\ req'[x].todo \cup req'[x].batch = req[x].todo \cup req[x].batch
             /\ req'[x].at \in {"count", "create"} => req'[x].todo = {}
    BY <1>0, <2>1, <2>5 DEF OneAddress, Founding
  <2>. QED
    BY <1>0, <2>2, <2>6, AloneFrame
<1>4. ASSUME NEW r \in Request, createUser(r), user' # user
      PROVE  (OneAddress /\ NobodyYet /\ Administered /\ Existing)'
  <2>1. req[r].at = "create" /\ req[r].kind = "signup" /\ req[r].who \in College
    <3>1. req[r].at = "create"
      BY <1>4 DEF createUser
    <3>2. req[r].kind = "signup"
      BY <3>1, SignupsOnly DEF Registering
    <3>. QED
      BY <1>0, <3>1, <3>2 DEF ReqType, Placed, Registering
  <2>2. PICK e \in Email : req[r].todo \cup req[r].batch = {e}
    BY <1>0, <2>1 DEF OneAddress
  <2>3. PICK d \in Email : user[d] = None /\ user' = [user EXCEPT ![d] = req[r].who]
                           /\ Ends(r)
    BY <1>0, <1>4, <2>1, <2>2, RowSteps
  <2>4. UNCHANGED plan
    BY <1>4 DEF createUser
  <2>5. req'[r].kind = "none" /\ \A x \in Request : x # r => req'[x] = req[x]
    BY <1>0, <2>3, Steps DEF Idle
  <2>6. Founding(r) /\ ~ Founding(r)'
    BY <2>1, <2>5 DEF Founding
  <2>7. \A x \in Request : x # r => (Founding(x)' <=> Founding(x)) /\ req'[x].who = req[x].who
    BY <2>5 DEF Founding
  <2>8. user'[d] = req[r].who /\ \A f \in Email : f # d => user'[f] = user[f]
    BY <1>0, <2>3
  <2>9. plan[req[r].who] # "none" /\ req[r].who \notin Founded
        /\ \A x \in Request : Founding(x) /\ x # r => req[x].who # req[r].who
    BY <1>0, <2>6 DEF NobodyYet
  <2>10. OneAddress'
    BY <1>0, <2>5 DEF OneAddress
  <2>11. NobodyYet'
    BY <1>0, <2>4, <2>6, <2>7, <2>8, <2>9 DEF NobodyYet
  <2>12. Administered'
    BY <1>0, <2>3, <2>4, <2>6, <2>7, <2>8 DEF Administered
  <2>13. Existing'
    BY <1>0, <2>4, <2>8, <2>9 DEF Existing
  <2>. QED
    BY <2>10, <2>11, <2>12, <2>13
<1>5. ASSUME NEW r \in Request, undoSignup(r)
      PROVE  (OneAddress /\ NobodyYet /\ Administered /\ Existing)'
  <2>1. req[r].at = "undo" /\ req[r].kind = "signup" /\ req[r].who \in College /\ Ends(r)
        /\ UNCHANGED user /\ plan' = [plan EXCEPT ![req[r].who] = "none"]
    BY <1>0, <1>5 DEF undoSignup, ReqType, Placed, Registering
  <2>2. req'[r].kind = "none" /\ \A x \in Request : x # r => req'[x] = req[x]
    BY <1>0, <2>1, Steps DEF Idle
  <2>3. Founding(r) /\ ~ Founding(r)'
    BY <2>1, <2>2 DEF Founding
  <2>4. \A x \in Request : x # r => (Founding(x)' <=> Founding(x)) /\ req'[x].who = req[x].who
    BY <2>2 DEF Founding
  <2>5. plan'[req[r].who] = "none" /\ \A c : c # req[r].who => plan'[c] = plan[c]
    BY <1>0, <2>1
  <2>6. req[r].who \notin Founded /\ (\A e \in Email : user[e] # req[r].who)
        /\ \A x \in Request : Founding(x) /\ x # r => req[x].who # req[r].who
    BY <1>0, <2>3 DEF NobodyYet
  <2>7. OneAddress'
    BY <1>0, <2>2 DEF OneAddress
  <2>8. NobodyYet'
    BY <1>0, <2>1, <2>3, <2>4, <2>5, <2>6 DEF NobodyYet
  <2>9. Administered'
    BY <1>0, <2>1, <2>3, <2>4, <2>5 DEF Administered
  <2>10. Existing'
    BY <1>0, <2>1, <2>5, <2>6 DEF Existing
  <2>. QED
    BY <2>7, <2>8, <2>9, <2>10
<1>6. ASSUME NEW r \in Request, Submitting(r)
      PROVE  (OneAddress /\ NobodyYet /\ Administered /\ Existing)'
  <2>1. UNCHANGED <<plan, user>> /\ req'[r].kind # "signup"
        /\ \A x \in Request : x # r => req'[x] = req[x]
    BY <1>6, SubmitSteps
  <2>2. req[r].kind # "signup"
    <3>1. req[r].at \in {"idle"} \cup Admitting
      BY <1>6, SubmitSteps
    <3>. QED
      BY <1>0, <3>1 DEF ReqType, Placed
  <2>3. \A x \in Request :
          \/ req'[x].kind # "signup" /\ ~ Founding(x)
          \/ req'[x] = req[x] /\ req'[x].kind = "signup"
    BY <2>1, <2>2 DEF Founding
  <2>. QED
    BY <1>0, <2>1, <2>3, AloneFrame DEF OneAddress
<1>7. CASE Meter \/ studentWindowPasses \/ collegeWindowPasses \/ UNCHANGED vars
  <2>1. UNCHANGED <<plan, user, req>>
    BY <1>7 DEF Meter, studentWindowPasses, collegeWindowPasses, vars, tenants
  <2>. QED
    BY <1>0, <2>1 DEF OneAddress, NobodyYet, Administered, Existing, Founding
<1>9. ASSUME NEW r \in Request, Accounts(r)
      PROVE  (OneAddress /\ NobodyYet /\ Administered /\ Existing)'
  BY <1>1, <1>2, <1>3, <1>4, <1>5, <1>9, SignupsOnly DEF Accounts
<1>. QED
  BY <1>6, <1>7, <1>9, SignupsOnly DEF Next

LEMMA SeatsFinite ==
    ASSUME NEW c
    PROVE  /\ IsFiniteSet({e \in Email : user[e] = c}) /\ Seats(c) \in Nat
           /\ (\E e \in Email : user[e] = c) => Seats(c) > 0
<1>1. IsFiniteSet(Email) /\ {e \in Email : user[e] = c} \subseteq Email
  BY TenancyAssumption
<1>2. IsFiniteSet({e \in Email : user[e] = c})
  BY <1>1, FS_Subset
<1>3. Seats(c) \in Nat
  BY <1>2, FS_CardinalityType DEF Seats
<1>4. Seats(c) = 0 <=> {e \in Email : user[e] = c} = {}
  BY <1>2, FS_EmptySet DEF Seats
<1>. QED
  BY <1>2, <1>3, <1>4

LEMMA NobodyIsLeft == TypeOK /\ Settled /\ Alone => NoEmptyCollege
<1> SUFFICES ASSUME TypeOK, Settled, Alone PROVE NoEmptyCollege
  OBVIOUS
<1>1. user \in [Email -> College \cup {None}] /\ None \notin College /\ Founded \subseteq College
  BY TenancyAssumption DEF TypeOK, TenantType
<1>2. CASE "signup" \in ops
  <2>1. ASSUME NEW c \in College \ Founded, plan[c] # "none"
        PROVE  Seats(c) > 0 \/ \E r \in Request : req[r].kind = "signup" /\ req[r].who = c
    BY <1>2, <2>1, SeatsFinite DEF Alone, Administered, Founding
  <2>2. \A e \in Email : user[e] # None => plan[user[e]] # "none"
    BY <1>2 DEF Alone, Existing
  <2>. QED
    BY <2>1, <2>2 DEF NoEmptyCollege
<1>3. CASE "signup" \notin ops
  BY <1>1, <1>3 DEF Settled, NoEmptyCollege
<1>. QED
  BY <1>2, <1>3

\* Accounts are taken away by the rollback of the upload that made them.
LEMMA OwnRowsOnly ==
    ASSUME TypeOK, [Next]_vars
    PROVE  \A e \in Email : user[e] # None /\ user'[e] = None =>
             \E r \in Request : req[r].at = "rollback" /\ e \in req[r].made
<1> SUFFICES ASSUME NEW e \in Email, user[e] # None, user'[e] = None
             PROVE  \E r \in Request : req[r].at = "rollback" /\ e \in req[r].made
  OBVIOUS
<1>0. ReqType /\ user \in [Email -> College \cup {None}] /\ None \notin College
  BY TenancyAssumption DEF TypeOK, TenantType
<1>1. PICK r \in Request : Accounts(r)
  <2>1. user' # user
    OBVIOUS
  <2>. QED
    BY <2>1, BillingSteps, SubmitSteps DEF Next, Pay, Cancel, Stripe, checkoutCompleted, Meter,
       studentWindowPasses, collegeWindowPasses, vars, tenants
<1>2. CASE rollback(r)
  BY <1>0, <1>2 DEF rollback
<1>3. CASE createUser(r)
  <2>1. req[r].who \in College
    BY <1>0, <1>3 DEF createUser, ReqType, Placed, Registering
  <2>2. user' = user \/ \E d \in Email : user' = [user EXCEPT ![d] = req[r].who]
    BY <1>0, <1>3 DEF createUser, ReqType, RequestType
  <2>. QED
    BY <1>0, <2>1, <2>2
<1>4. CASE UNCHANGED user
  BY <1>4
<1>. QED
  BY <1>1, <1>2, <1>3, <1>4 DEF Accounts, register, bulkRegister, signup, signupCreate, checkRow,
     assertSeatCapacity, assertSeatCount, createUserFails, undoSignup, tenants

LEMMA CollegesInit == Init => Called /\ Linked /\ Settled /\ Alone
<1> SUFFICES ASSUME Init PROVE Called /\ Linked /\ Settled /\ Alone
  OBVIOUS
<1>1. /\ \A r \in Request : req[r].kind = "none" /\ req[r].at = "idle"
      /\ \A c \in College : plan[c] \in {"none", "free", "pro"}
                            /\ (plan[c] = "none" <=> c \notin Founded)
      /\ \A e \in Email : user[e] = None
      /\ \A k \in Customer : account[k] = None
      /\ \A u \in Subscription : subscription[u].state = "none"
      /\ \A c \in College : customer[c] = None
      /\ events = {} /\ ops \in Mixes /\ Founded \subseteq College
      /\ None \notin College
  BY TenancyAssumption DEF Init, Idle
<1>2. Called /\ Linked
  BY <1>1 DEF Called, Linked
<1>3. Settled
  BY <1>1 DEF Settled, Registering, Paying
<1>4. Alone
  BY <1>1 DEF Alone, OneAddress, NobodyYet, Administered, Existing, Founding
<1>. QED
  BY <1>2, <1>3, <1>4

\* A request that fails takes back what it has made and nothing else: a signup leaves
\* no college without its admin and takes none back that has accounts, whichever of
\* two signups of a name or an address was the faster one, and the rollback of an
\* upload removes the accounts of that upload only.
THEOREM FailuresHarmNobody == ASSUME SignupsApart PROVE Spec => FailuresSpareOthers
<1> DEFINE IInv == TypeOK /\ Called /\ Linked /\ Settled /\ Alone
           Own == \A e \in Email : user[e] # None /\ user'[e] = None =>
                     \E r \in Request : req[r].at = "rollback" /\ e \in req[r].made
<1>1. Init => IInv
  BY InitType, CollegesInit
<1>2. IInv /\ [Next]_vars => IInv'
  BY NextType, CalledNext, LinkedNext, SettledNext, AloneNext
<1>3. IInv => NoEmptyCollege
  BY NobodyIsLeft
<1>4. IInv /\ [Next]_vars => [Own]_vars
  BY OwnRowsOnly
<1>. QED
  BY <1>1, <1>2, <1>3, <1>4, PTL DEF Spec, FailuresSpareOthers

-----------------------------------------------------------------------------
(* Seats. *)

\* The elements of S, told apart by elements of T.
LEMMA Numbered ==
    ASSUME NEW S, NEW T, ExistsBijection(T, S)
    PROVE  \E k \in [S -> T] : \A x, y \in S : k[x] = k[y] => x = y
<1>1. PICK h : h \in Bijection(T, S)
  BY Fun_ExistsBij
<1>2. PICK k : k \in Bijection(S, T)
  BY <1>1, Fun_BijInverse
<1>. QED
  BY <1>2, Fun_BijectionProperties

\* A set of at most n elements for each of finitely many r's.
LEMMA SumBound ==
    ASSUME NEW R, IsFiniteSet(R), NEW E, IsFiniteSet(E), NEW n \in Nat,
           NEW b \in [R -> SUBSET E], \A r \in R : Cardinality(b[r]) <= n
    PROVE  Cardinality({p \in R \X E : p[2] \in b[p[1]]}) <= n * Cardinality(R)
<1> DEFINE P == {p \in R \X E : p[2] \in b[p[1]]}
           g == [r \in R |-> CHOOSE f : f \in Injection(b[r], 1..n)]
           F == [p \in P |-> <<p[1], g[p[1]][p[2]]>>]
<1>1. ASSUME NEW r \in R PROVE g[r] \in Injection(b[r], 1..n)
  <2>1. IsFiniteSet(b[r])
    BY FS_Subset
  <2>2. Cardinality(b[r]) \in Nat /\ ExistsBijection(1..Cardinality(b[r]), b[r])
    BY <2>1, FS_CardinalityType
  <2>5. PICK k \in [b[r] -> 1..Cardinality(b[r])] : \A x, y \in b[r] : k[x] = k[y] => x = y
    BY <2>2, Numbered
  <2>6. 1..Cardinality(b[r]) \subseteq 1..n
    BY <2>2
  <2>7. k \in [b[r] -> 1..n]
    BY <2>5, <2>6
  <2>8. k \in Injection(b[r], 1..n)
    BY <2>5, <2>7, Fun_IsInj
  <2>9. (CHOOSE f : f \in Injection(b[r], 1..n)) \in Injection(b[r], 1..n)
    BY <2>8
  <2>. QED
    BY <2>9
<1>2. ASSUME NEW r \in R
      PROVE  g[r] \in [b[r] -> 1..n] /\ \A x, y \in b[r] : g[r][x] = g[r][y] => x = y
  BY <1>1, Fun_InjectionProperties
<1>. HIDE DEF g
<1>3. ASSUME NEW p \in P PROVE p[1] \in R /\ p[2] \in b[p[1]] /\ p = <<p[1], p[2]>>
  OBVIOUS
<1>4. F \in [P -> R \X (1..n)]
  <2>1. ASSUME NEW p \in P PROVE <<p[1], g[p[1]][p[2]]>> \in R \X (1..n)
    BY <1>2, <1>3
  <2>. QED
    BY <2>1
<1>5. ASSUME NEW p \in P, NEW q \in P, F[p] = F[q] PROVE p = q
  <2>1. <<p[1], g[p[1]][p[2]]>> = <<q[1], g[q[1]][q[2]]>>
    BY <1>5
  <2>2. p[1] = q[1] /\ g[p[1]][p[2]] = g[p[1]][q[2]]
    BY <2>1
  <2>3. p[2] \in b[p[1]] /\ q[2] \in b[p[1]] /\ p[1] \in R
    BY <1>3, <2>2
  <2>4. p[2] = q[2]
    BY <1>2, <2>2, <2>3
  <2>. QED
    BY <1>3, <2>2, <2>4
<1>6. F \in Injection(P, R \X (1..n))
  <2>. HIDE DEF F, P
  <2>. QED
    BY <1>4, <1>5, Fun_IsInj
<1>7. IsFiniteSet(1..n) /\ Cardinality(1..n) = n
  BY FS_Interval
<1>8. IsFiniteSet(R \X (1..n)) /\ Cardinality(R \X (1..n)) = Cardinality(R) * n
  BY <1>7, FS_Product
<1>9. Cardinality(P) <= Cardinality(R \X (1..n))
  <2>. HIDE DEF F, P
  <2>. QED
    BY <1>6, <1>8, FS_Injection
<1>10. Cardinality(R) \in Nat
  BY FS_CardinalityType
<1>. QED
  BY <1>8, <1>9, <1>10

LEMMA PendingFinite ==
    ASSUME NEW c
    PROVE  IsFiniteSet(Pending(c)) /\ Cardinality(Pending(c)) \in Nat
<1>1. IsFiniteSet(Request) /\ IsFiniteSet(Email)
  BY TenancyAssumption
<1>2. IsFiniteSet(Request \X Email)
  BY <1>1, FS_Product
<1>3. Pending(c) \subseteq Request \X Email
  BY DEF Pending
<1>4. IsFiniteSet(Pending(c))
  BY <1>2, <1>3, FS_Subset
<1>. QED
  BY <1>4, FS_CardinalityType

\* Nothing is about to be made beyond what was, and no account is new.
LEMMA SeatedFrame ==
    ASSUME NEW c, FitsIn(c),
           {e \in Email : user'[e] = c} \subseteq {e \in Email : user[e] = c},
           \A x \in Request : req'[x].at = "create" /\ req'[x].who = c =>
              req[x].at = "create" /\ req[x].who = c /\ req'[x].batch = req[x].batch
    PROVE  FitsIn(c)'
<1>1. Seats(c)' \in Nat /\ Seats(c)' <= Seats(c) /\ Seats(c) \in Nat
  <2>1. IsFiniteSet({e \in Email : user[e] = c}) /\ Seats(c) \in Nat
    BY SeatsFinite
  <2>. QED
    BY <2>1, FS_Subset, FS_CardinalityType DEF Seats
<1>2. Cardinality(Pending(c)') \in Nat /\ Cardinality(Pending(c)') <= Cardinality(Pending(c))
      /\ Cardinality(Pending(c)) \in Nat
  <2>1. Pending(c)' \subseteq Pending(c)
    BY DEF Pending
  <2>2. IsFiniteSet(Pending(c)) /\ Cardinality(Pending(c)) \in Nat
    BY PendingFinite
  <2>. QED
    BY <2>1, <2>2, FS_Subset, FS_CardinalityType
<1>3. SeatLimit * Cardinality(Request) \in Int
  <2>1. Cardinality(Request) \in Nat /\ SeatLimit \in Nat
    BY TenancyAssumption, FS_CardinalityType
  <2>. QED
    BY <2>1
<1>4. Seats(c)' + Cardinality(Pending(c)') <= SeatLimit * Cardinality(Request)
  BY <1>1, <1>2, <1>3 DEF FitsIn
<1>5. \A x \in Request : req'[x].at = "create" /\ req'[x].who = c =>
         Cardinality(req'[x].batch) <= SeatLimit
  BY DEF FitsIn
<1>. QED
  BY <1>4, <1>5 DEF FitsIn

\* The count admits a batch: what the others are about to make is at most a free plan each.
LEMMA CountFits ==
    ASSUME TypeOK, NEW r \in Request, NEW c, FitsIn(c), req[r].who = c, req[r].at = "count",
           Seats(c) + Cardinality(req[r].batch) <= SeatLimit, UNCHANGED user,
           Goes(r, "create")
    PROVE  FitsIn(c)'
<1>0. ReqType /\ req[r] \in RequestType
  BY DEF TypeOK, ReqType
<1>1. /\ IsFiniteSet(Request) /\ IsFiniteSet(Email) /\ SeatLimit \in Nat
      /\ Cardinality(Request) \in Nat
  BY TenancyAssumption, FS_CardinalityType
<1>2. Seats(c) \in Nat
  BY SeatsFinite
<1>3. req[r].batch \subseteq Email
  BY <1>0 DEF RequestType
<1>4. IsFiniteSet(req[r].batch) /\ Cardinality(req[r].batch) \in Nat
  BY <1>1, <1>3, FS_Subset, FS_CardinalityType
<1>5. /\ req'[r].at = "create" /\ req'[r].who = c /\ req'[r].batch = req[r].batch
      /\ \A x \in Request : x # r => req'[x] = req[x]
  BY <1>0, Steps DEF Held
<1>6. \A x \in Request : req'[x].at = "create" /\ req'[x].who = c =>
         Cardinality(req'[x].batch) <= SeatLimit
  BY <1>1, <1>2, <1>4, <1>5 DEF FitsIn
<1> DEFINE R == Request \ {r}
           b == [x \in R |-> IF req[x].at = "create" /\ req[x].who = c THEN req[x].batch ELSE {}]
           New == {r} \X req[r].batch
<1>7. IsFiniteSet(R) /\ Cardinality(R) = Cardinality(Request) - 1
  BY <1>1, FS_RemoveElement
<1>8. Cardinality(Pending(c)) <= SeatLimit * Cardinality(R)
  <2>1. b \in [R -> SUBSET Email]
    BY DEF TypeOK, ReqType, RequestType
  <2>2. \A x \in R : Cardinality(b[x]) <= SeatLimit
    BY <1>1, FS_EmptySet DEF FitsIn
  <2>3. Pending(c) = {p \in R \X Email : p[2] \in b[p[1]]}
    BY DEF Pending
  <2>. HIDE DEF b, R
  <2>. QED
    BY <1>1, <1>7, <2>1, <2>2, <2>3, SumBound
<1>9. Pending(c)' = Pending(c) \cup New
  <2>1. ASSUME NEW p \in Pending(c)' PROVE p \in Pending(c) \cup New
    BY <1>5, <2>1 DEF Pending
  <2>2. ASSUME NEW p \in Pending(c) PROVE p \in Pending(c)'
    BY <1>5, <2>2 DEF Pending
  <2>3. ASSUME NEW p \in New PROVE p \in Pending(c)'
    BY <1>3, <1>5, <2>3 DEF Pending
  <2>. QED
    BY <2>1, <2>2, <2>3
<1>10. IsFiniteSet(New) /\ Cardinality(New) = Cardinality(req[r].batch)
  <2>1. IsFiniteSet({r}) /\ Cardinality({r}) = 1
    BY FS_Singleton
  <2>2. IsFiniteSet(New) /\ Cardinality(New) = Cardinality({r}) * Cardinality(req[r].batch)
    BY <1>4, <2>1, FS_Product
  <2>. QED
    BY <1>4, <2>1, <2>2
<1>11. Cardinality(Pending(c)') <= Cardinality(Pending(c)) + Cardinality(req[r].batch)
       /\ Cardinality(Pending(c)') \in Nat /\ Cardinality(Pending(c)) \in Nat
  <2>1. IsFiniteSet(Pending(c)) /\ Cardinality(Pending(c)) \in Nat
    BY PendingFinite
  <2>2. /\ IsFiniteSet(Pending(c) \cup New)
        /\ Cardinality(Pending(c) \cup New)
             = Cardinality(Pending(c)) + Cardinality(New) - Cardinality(Pending(c) \cap New)
    BY <1>10, <2>1, FS_Union
  <2>3. Cardinality(Pending(c) \cap New) \in Nat
    <3>1. IsFiniteSet(Pending(c) \cap New)
      BY <2>1, FS_Intersection
    <3>. QED
      BY <3>1, FS_CardinalityType
  <2>4. Cardinality(Pending(c) \cup New) \in Nat
    BY <2>2, FS_CardinalityType
  <2>. HIDE DEF New
  <2>. QED
    BY <1>4, <1>9, <1>10, <2>1, <2>2, <2>3, <2>4
<1>12. SeatLimit * Cardinality(R) + SeatLimit = SeatLimit * Cardinality(Request)
  <2>. HIDE DEF R
  <2>. QED
    BY <1>1, <1>7
<1>13. Seats(c)' = Seats(c)
  BY DEF Seats
<1>14. SeatLimit * Cardinality(R) \in Int
  <2>. HIDE DEF R
  <2>. QED
    BY <1>1, <1>7
<1>15. (Seats(c) + Cardinality(Pending(c)) <= SeatLimit * Cardinality(Request))'
  <2>. HIDE DEF R
  <2>. QED
    BY <1>1, <1>2, <1>4, <1>8, <1>11, <1>12, <1>13, <1>14
<1>. QED
  BY <1>6, <1>15 DEF FitsIn

\* An account that is made was about to be made.
LEMMA CreateFits ==
    ASSUME TypeOK, NEW r \in Request, NEW c \in College, FitsIn(c), createUser(r), user' # user
    PROVE  FitsIn(c)'
<1>0. /\ ReqType /\ req[r] \in RequestType /\ user \in [Email -> College \cup {None}]
      /\ None \notin College
  BY TenancyAssumption DEF TypeOK, ReqType, TenantType
<1>1. PICK e \in Email :
        /\ e \in req[r].batch /\ user[e] = None /\ user' = [user EXCEPT ![e] = req[r].who]
        /\ \/ Ends(r) /\ req[r].batch = {e}
           \/ /\ req'[r].at = "create" /\ req'[r].who = req[r].who
              /\ req'[r].batch = req[r].batch \ {e}
              /\ \A x \in Request : x # r => req'[x] = req[x]
  <2>1. req[r].at = "create" /\ \A e \in req[r].batch : e \in Email
    BY <1>0 DEF createUser, RequestType
  <2>. QED
    BY <1>0, <2>1, RowSteps
<1>2. req[r].at = "create" /\ req[r].who \in College
  BY <1>0 DEF createUser, ReqType, Placed, Registering
<1>3. /\ \A x \in Request : x # r => req'[x] = req[x]
      /\ \/ req'[r].at = "idle"
         \/ /\ req'[r].at = "create" /\ req'[r].who = req[r].who
            /\ req'[r].batch = req[r].batch \ {e}
  <2>1. Ends(r) => req'[r].at = "idle" /\ \A x \in Request : x # r => req'[x] = req[x]
    BY <1>0, Steps DEF Idle
  <2>. QED
    BY <1>1, <2>1
<1>4. \A f \in Email : user'[f] = IF f = e THEN req[r].who ELSE user[f]
  BY <1>0, <1>1
<1>5. CASE c # req[r].who
  <2>1. {f \in Email : user'[f] = c} \subseteq {f \in Email : user[f] = c}
    BY <1>4, <1>5
  <2>2. \A x \in Request : req'[x].at = "create" /\ req'[x].who = c =>
              req[x].at = "create" /\ req[x].who = c /\ req'[x].batch = req[x].batch
    BY <1>3, <1>5
  <2>. QED
    BY <2>1, <2>2, SeatedFrame
<1>6. CASE c = req[r].who
  <2>1. Seats(c)' = Seats(c) + 1 /\ Seats(c) \in Nat
    <3>1. IsFiniteSet({f \in Email : user[f] = c}) /\ Seats(c) \in Nat
      BY SeatsFinite
    <3>2. /\ {f \in Email : user'[f] = c} = {f \in Email : user[f] = c} \cup {e}
          /\ e \notin {f \in Email : user[f] = c}
      BY <1>0, <1>1, <1>4, <1>6
    <3>. QED
      BY <3>1, <3>2, FS_AddElement DEF Seats
  <2>2. <<r, e>> \in Pending(c)
    BY <1>1, <1>2, <1>6 DEF Pending
  <2>3. Pending(c)' \subseteq Pending(c) \ {<<r, e>>}
    <3>1. ASSUME NEW p \in Pending(c)' PROVE p \in Pending(c) /\ p # <<r, e>>
      <4>1. /\ p \in Request \X Email /\ req'[p[1]].at = "create" /\ req'[p[1]].who = c
            /\ p[2] \in req'[p[1]].batch
        BY <3>1 DEF Pending
      <4>2. CASE p[1] = r
        BY <1>1, <1>2, <1>3, <4>1, <4>2 DEF Pending
      <4>3. CASE p[1] # r
        BY <1>3, <4>1, <4>3 DEF Pending
      <4>. QED
        BY <4>2, <4>3
    <3>. QED
      BY <3>1
  <2>4. Cardinality(Pending(c)') <= Cardinality(Pending(c)) - 1
        /\ Cardinality(Pending(c)') \in Nat /\ Cardinality(Pending(c)) \in Nat
    <3>1. IsFiniteSet(Pending(c)) /\ Cardinality(Pending(c)) \in Nat
      BY PendingFinite
    <3>2. IsFiniteSet(Pending(c) \ {<<r, e>>})
          /\ Cardinality(Pending(c) \ {<<r, e>>}) = Cardinality(Pending(c)) - 1
      BY <2>2, <3>1, FS_RemoveElement
    <3>. QED
      BY <2>3, <3>1, <3>2, FS_Subset, FS_CardinalityType
  <2>5. SeatLimit * Cardinality(Request) \in Int /\ SeatLimit \in Nat
    <3>1. Cardinality(Request) \in Nat /\ SeatLimit \in Nat
      BY TenancyAssumption, FS_CardinalityType
    <3>. QED
      BY <3>1
  <2>6. (Seats(c) + Cardinality(Pending(c)) <= SeatLimit * Cardinality(Request))'
    BY <2>1, <2>4, <2>5 DEF FitsIn
  <2>7. ASSUME NEW x \in Request, req'[x].at = "create", req'[x].who = c
        PROVE  Cardinality(req'[x].batch) <= SeatLimit
    <3>1. CASE x # r
      BY <1>3, <2>7, <3>1 DEF FitsIn
    <3>2. CASE x = r
      <4>1. req[r].batch \subseteq Email /\ IsFiniteSet(Email)
        BY <1>0, TenancyAssumption DEF RequestType
      <4>2. IsFiniteSet(req[r].batch) /\ Cardinality(req[r].batch) \in Nat
        BY <4>1, FS_Subset, FS_CardinalityType
      <4>3. req'[r].batch \subseteq req[r].batch
        BY <1>3, <2>7, <3>2
      <4>4. Cardinality(req'[r].batch) <= Cardinality(req[r].batch)
            /\ Cardinality(req'[r].batch) \in Nat
        BY <4>2, <4>3, FS_Subset, FS_CardinalityType
      <4>5. Cardinality(req[r].batch) <= SeatLimit
        BY <1>2, <1>6 DEF FitsIn
      <4>. QED
        BY <2>5, <3>2, <4>2, <4>4, <4>5
    <3>. QED
      BY <3>1, <3>2
  <2>. QED
    BY <2>6, <2>7 DEF FitsIn
<1>. QED
  BY <1>5, <1>6

\* A college that has just been made has no accounts, and none are about to be made.
LEMMA NewFits ==
    ASSUME SignupsApart, TypeOK, Called, Alone, NEW r \in Request, signupCreate(r),
           NEW c \in College, req[r].who = c, plan[c] = "none"
    PROVE  FitsIn(c)'
<1>0. /\ ReqType /\ None \notin College /\ "signup" \in ops
      /\ req[r].at = "found"
  BY TenancyAssumption DEF TypeOK, ReqType, Placed, signupCreate, Called, Registering
<1>1. NobodyYet /\ Existing
  BY <1>0 DEF Alone
<1>2. \A e \in Email : user[e] # c
  BY <1>0, <1>1 DEF Existing
<1>3. ASSUME NEW x \in Request, req[x].who = c PROVE req[x].at # "create"
  <2>1. req[x].at = "create" => Founding(x)
    BY <1>0, SignupsOnly DEF Founding, Registering
  <2>. QED
    BY <1>1, <1>3, <2>1 DEF NobodyYet
<1>4. Goes(r, "check") /\ UNCHANGED user
  BY DEF signupCreate
<1>5. /\ req'[r].at = "check" /\ req'[r].who = c
      /\ \A x \in Request : x # r => req'[x] = req[x]
  BY <1>0, <1>4, Steps DEF Held
<1>6. \A x \in Request : req'[x].who = c => req'[x].at # "create"
  BY <1>3, <1>5
<1>7. {e \in Email : user'[e] = c} = {} /\ {p \in Request \X Email :
         req'[p[1]].at = "create" /\ req'[p[1]].who = c /\ p[2] \in req'[p[1]].batch} = {}
  BY <1>2, <1>4, <1>6
<1>8. Cardinality({e \in Email : user'[e] = c}) = 0
      /\ Cardinality({p \in Request \X Email :
            req'[p[1]].at = "create" /\ req'[p[1]].who = c /\ p[2] \in req'[p[1]].batch}) = 0
  BY <1>7, FS_EmptySet
<1>9. 0 <= SeatLimit * Cardinality(Request)
  <2>1. Cardinality(Request) \in Nat /\ SeatLimit \in Nat
    BY TenancyAssumption, FS_CardinalityType
  <2>. QED
    BY <2>1
<1>10. /\ \A x \in Request : req'[x].at = "create" /\ req'[x].who = c =>
             Cardinality(req'[x].batch) <= SeatLimit
       /\ Cardinality({e \in Email : user'[e] = c})
            + Cardinality({p \in Request \X Email :
                 req'[p[1]].at = "create" /\ req'[p[1]].who = c /\ p[2] \in req'[p[1]].batch})
            <= SeatLimit * Cardinality(Request)
  BY <1>6, <1>8, <1>9
<1>. QED
  BY <1>10 DEF FitsIn, Seats, Pending

LEMMA SeatedNext ==
    ASSUME SignupsApart, TypeOK, Called, Alone, Seated, [Next]_vars
    PROVE  Seated'
<1>1. UNCHANGED ops
  <2>1. ASSUME NEW r \in Request, Accounts(r) \/ Billing(r) \/ Submitting(r) PROVE UNCHANGED ops
    BY <2>1, AccountSteps, BillingSteps, SubmitSteps
  <2>. QED
    BY <2>1 DEF Next, Pay, Cancel, Stripe, checkoutCompleted, Meter,
           studentWindowPasses, collegeWindowPasses, vars
<1> SUFFICES ASSUME "checkout" \notin ops, "manual" \notin ops,
                    NEW c \in College, plan'[c] = "free"
             PROVE  FitsIn(c)'
  BY <1>1 DEF Seated
<1>0. /\ ReqType /\ plan \in [College -> Plan] /\ user \in [Email -> College \cup {None}]
      /\ None \notin College /\ (plan[c] = "free" => FitsIn(c))
  BY TenancyAssumption DEF TypeOK, TenantType, Seated
<1>2. /\ \A r \in Request : ~ Billing(r)
      /\ ~ Pay /\ ~ Cancel /\ ~ checkoutCompleted
  BY DEF Called, Billing, createCheckoutSession, createCustomer, saveCustomer, createSession,
     subscriptionDeleted, setCollegePlan, savePlan, Begins, Pay, Cancel, Stripe, checkoutCompleted
\* Nothing is made, and no other request is at "create" for the college than before.
<1>3. ASSUME plan' = plan, user' = user,
             \A x \in Request : req'[x].at = "create" /\ req'[x].who = c =>
                req[x].at = "create" /\ req[x].who = c /\ req'[x].batch = req[x].batch
      PROVE  FitsIn(c)'
  BY <1>0, <1>3, SeatedFrame
<1>4. ASSUME NEW r \in Request, NEW place, Goes(r, place) \/ Ends(r), place # "create"
      PROVE  \A x \in Request : req'[x].at = "create" =>
                req[x].at = "create" /\ req'[x] = req[x]
  BY <1>0, <1>4, Steps DEF Idle
<1>5. ASSUME NEW r \in Request, register(r) \/ bulkRegister(r) \/ signup(r)
      PROVE  FitsIn(c)'
  <2>1. plan' = plan /\ user' = user
    BY <1>5 DEF register, bulkRegister, signup, tenants
  <2>2. req'[r].at # "create" /\ \A x \in Request : x # r => req'[x] = req[x]
    BY <1>0, <1>5, RegisterSteps
  <2>. QED
    BY <1>3, <2>1, <2>2
<1>6. ASSUME NEW r \in Request, signupCreate(r) PROVE FitsIn(c)'
  <2>1. req[r].who \in College /\ UNCHANGED user /\ (Ends(r) \/ Goes(r, "check"))
    BY <1>0, <1>6 DEF signupCreate, ReqType, Placed, Registering
  <2>2. CASE plan[req[r].who] = "none" /\ c = req[r].who
    BY <1>6, <2>2, NewFits
  <2>3. CASE ~ (plan[req[r].who] = "none" /\ c = req[r].who)
    <3>1. plan'[c] = plan[c]
      BY <1>0, <1>6, <2>1, <2>3 DEF signupCreate
    <3>2. \A x \in Request : req'[x].at = "create" => req[x].at = "create" /\ req'[x] = req[x]
      BY <1>4, <2>1
    <3>. QED
      BY <1>0, <2>1, <3>1, <3>2, SeatedFrame
  <2>. QED
    BY <2>2, <2>3
<1>7. ASSUME NEW r \in Request, checkRow(r) \/ createUserFails(r) \/ createUser(r), user' = user
      PROVE  FitsIn(c)'
  <2>1. plan' = plan
    BY <1>7 DEF checkRow, createUserFails, createUser, tenants
  <2>2. Refused(r) \/ Broken(r) => \E place \in {"undo", "rollback"} : Goes(r, place) \/ Ends(r)
    BY DEF Refused, Broken
  <2>3. CASE Refused(r) \/ Broken(r)
    <3>1. \A x \in Request : req'[x].at = "create" => req[x].at = "create" /\ req'[x] = req[x]
      BY <1>4, <2>2, <2>3
    <3>. QED
      BY <1>3, <1>7, <2>1, <3>1
  <2>4. CASE ~ Refused(r) /\ ~ Broken(r)
    <3>1. checkRow(r) \/ createUser(r)
      BY <1>7, <2>4 DEF createUserFails
    <3>2. req[r].at = "create" => req[r].who \in College
      BY <1>0 DEF ReqType, Placed, Registering
    <3>4. req[r].batch \subseteq Email
      BY <1>0 DEF ReqType, RequestType
    <3>5. ASSUME NEW e \in Email, user[e] = None, user' = [user EXCEPT ![e] = req[r].who],
                 req[r].at = "create"
          PROVE  FALSE
      BY <1>0, <1>7, <3>2, <3>5
    <3>3. /\ req'[r].at # "create"
          /\ \A x \in Request : x # r => req'[x] = req[x]
      BY <1>0, <2>4, <3>1, <3>4, <3>5, RowSteps
    <3>. QED
      BY <1>3, <1>7, <2>1, <3>3
  <2>. QED
    BY <2>3, <2>4
<1>8. ASSUME NEW r \in Request, createUser(r), user' # user PROVE FitsIn(c)'
  <2>1. plan' = plan
    BY <1>8 DEF createUser
  <2>. QED
    BY <1>0, <1>8, <2>1, CreateFits
<1>9. ASSUME NEW r \in Request, assertSeatCapacity(r) PROVE FitsIn(c)'
  <2>1. plan' = plan /\ user' = user
    BY <1>9 DEF assertSeatCapacity, tenants
  <2>2. CASE plan[req[r].who] = "free" \/ req[r].batch = {}
    <3>1. Goes(r, "count") \/ Ends(r)
      BY <1>9, <2>2 DEF assertSeatCapacity
    <3>2. \A x \in Request : req'[x].at = "create" => req[x].at = "create" /\ req'[x] = req[x]
      BY <1>4, <3>1
    <3>. QED
      BY <1>3, <2>1, <3>2
  <2>3. CASE plan[req[r].who] # "free" /\ Goes(r, "create")
    <3>1. req'[r].who = req[r].who /\ \A x \in Request : x # r => req'[x] = req[x]
      BY <1>0, <2>3, Steps DEF Held
    <3>2. c # req[r].who
      BY <2>1, <2>3
    <3>. QED
      BY <1>3, <2>1, <3>1, <3>2
  <2>. QED
    BY <1>9, <2>2, <2>3 DEF assertSeatCapacity
<1>10. ASSUME NEW r \in Request, assertSeatCount(r) PROVE FitsIn(c)'
  <2>1. plan' = plan /\ user' = user /\ req[r].at = "count"
    BY <1>10 DEF assertSeatCount, tenants
  <2>2. CASE Refused(r)
    <3>1. Goes(r, "undo") \/ Ends(r)
      BY <2>2 DEF Refused
    <3>2. \A x \in Request : req'[x].at = "create" => req[x].at = "create" /\ req'[x] = req[x]
      BY <1>4, <3>1
    <3>. QED
      BY <1>3, <2>1, <3>2
  <2>3. CASE Goes(r, "create") /\ ~ (Seats(req[r].who) + Cardinality(req[r].batch) > SeatLimit)
    <3>1. CASE c # req[r].who
      <4>1. req'[r].who = req[r].who /\ \A x \in Request : x # r => req'[x] = req[x]
        BY <1>0, <2>3, Steps DEF Held
      <4>. QED
        BY <1>3, <2>1, <3>1, <4>1
    <3>2. CASE c = req[r].who
      <4>1. Seats(c) + Cardinality(req[r].batch) <= SeatLimit
        <5>1. req[r].batch \subseteq Email /\ IsFiniteSet(Email)
          BY <1>0, TenancyAssumption DEF ReqType, RequestType
        <5>2. Cardinality(req[r].batch) \in Nat /\ Seats(c) \in Nat /\ SeatLimit \in Nat
          BY <5>1, FS_Subset, FS_CardinalityType, SeatsFinite, TenancyAssumption
        <5>. QED
          BY <2>3, <3>2, <5>2
      <4>. QED
        BY <1>0, <2>1, <2>3, <3>2, <4>1, CountFits
    <3>. QED
      BY <3>1, <3>2
  <2>. QED
    BY <1>10, <2>2, <2>3 DEF assertSeatCount
<1>11. ASSUME NEW r \in Request, rollback(r) PROVE FitsIn(c)'
  <2>1. /\ plan' = plan /\ Ends(r)
        /\ user' = [e \in Email |-> IF e \in req[r].made THEN None ELSE user[e]]
    BY <1>11 DEF rollback
  <2>2. {e \in Email : user'[e] = c} \subseteq {e \in Email : user[e] = c}
    BY <1>0, <2>1
  <2>3. \A x \in Request : req'[x].at = "create" => req[x].at = "create" /\ req'[x] = req[x]
    BY <1>4, <2>1
  <2>. QED
    BY <1>0, <2>1, <2>2, <2>3, SeatedFrame
<1>12. ASSUME NEW r \in Request, undoSignup(r) PROVE FitsIn(c)'
  <2>1. /\ plan' = [plan EXCEPT ![req[r].who] = "none"] /\ Ends(r) /\ user' = user
    BY <1>12 DEF undoSignup
  <2>2. plan[c] = "free"
    BY <1>0, <2>1
  <2>3. \A x \in Request : req'[x].at = "create" => req[x].at = "create" /\ req'[x] = req[x]
    BY <1>4, <2>1
  <2>. QED
    BY <1>0, <2>1, <2>2, <2>3, SeatedFrame
<1>13. ASSUME NEW r \in Request, Submitting(r) PROVE FitsIn(c)'
  <2>1. plan' = plan /\ user' = user
    BY <1>13, SubmitSteps
  <2>2. \A x \in Request : req'[x].at = "create" => req'[x] = req[x]
    BY <1>13, SubmitSteps DEF Admitting
  <2>. QED
    BY <1>3, <2>1, <2>2
<1>14. CASE Meter \/ studentWindowPasses \/ collegeWindowPasses \/ UNCHANGED vars
  <2>1. plan' = plan /\ user' = user /\ req' = req
    BY <1>14 DEF Meter, studentWindowPasses, collegeWindowPasses, vars, tenants
  <2>. QED
    BY <1>3, <2>1
<1>16. ASSUME NEW r \in Request, Accounts(r) PROVE FitsIn(c)'
  <2>1. CASE checkRow(r) \/ createUserFails(r)
    <3>1. user' = user
      BY <2>1 DEF checkRow, createUserFails, tenants
    <3>. QED
      BY <1>7, <2>1, <3>1
  <2>2. CASE createUser(r)
    BY <1>7, <1>8, <2>2
  <2>3. CASE register(r) \/ bulkRegister(r) \/ signup(r)
    BY <1>5, <2>3
  <2>4. CASE \/ signupCreate(r) \/ assertSeatCapacity(r) \/ assertSeatCount(r)
             \/ rollback(r) \/ undoSignup(r)
    BY <1>6, <1>9, <1>10, <1>11, <1>12, <2>4
  <2>. QED
    BY <1>16, <2>1, <2>2, <2>3, <2>4 DEF Accounts
<1>. QED
  BY <1>2, <1>13, <1>14, <1>16 DEF Next

\* However many registrations and uploads overlap, each having counted before any of
\* the others created its accounts, a college on the free plan exceeds its limit by no
\* more than one plan for each request: a batch is counted as a whole, and what a
\* request is about to make was within the limit when it counted.
THEOREM SeatsAreBounded == ASSUME SignupsApart PROVE Spec => []SeatsBounded
<1> DEFINE IInv == TypeOK /\ Called /\ Linked /\ Settled /\ Alone /\ Seated
<1>1. Init => IInv
  <2> SUFFICES ASSUME Init PROVE IInv
    OBVIOUS
  <2>1. ASSUME NEW c \in College PROVE FitsIn(c)
    <3>1. /\ \A r \in Request : req[r].at = "idle" /\ \A e \in Email : user[e] = None
          /\ None \notin College
      BY TenancyAssumption DEF Init, Idle
    <3>2. {e \in Email : user[e] = c} = {} /\ Pending(c) = {}
      <4>1. {e \in Email : user[e] = c} = {}
        BY TenancyAssumption DEF Init
      <4>2. Pending(c) = {}
        BY <3>1 DEF Pending
      <4>. QED
        BY <4>1, <4>2
    <3>3. Seats(c) = 0 /\ Cardinality(Pending(c)) = 0
      BY <3>2, FS_EmptySet DEF Seats
    <3>4. Cardinality(Request) \in Nat /\ SeatLimit \in Nat
      BY TenancyAssumption, FS_CardinalityType
    <3>5. 0 <= SeatLimit * Cardinality(Request)
      BY <3>4
    <3>. QED
      BY <3>1, <3>3, <3>5 DEF FitsIn
  <2>. QED
    BY <2>1, InitType, CollegesInit DEF Seated
<1>2. IInv /\ [Next]_vars => IInv'
  BY NextType, CalledNext, LinkedNext, SettledNext, AloneNext, SeatedNext
<1>3. IInv => SeatsBounded
  <2> SUFFICES ASSUME IInv, NEW c \in College, plan[c] = "free",
                      "checkout" \notin ops, "manual" \notin ops
               PROVE  Seats(c) <= SeatLimit * Cardinality(Request)
    BY DEF SeatsBounded
  <2>1. Seats(c) + Cardinality(Pending(c)) <= SeatLimit * Cardinality(Request)
    BY DEF Seated, FitsIn
  <2>2. Seats(c) \in Nat /\ Cardinality(Pending(c)) \in Nat
    BY SeatsFinite, PendingFinite
  <2>3. SeatLimit * Cardinality(Request) \in Int
    <3>1. Cardinality(Request) \in Nat /\ SeatLimit \in Nat
      BY TenancyAssumption, FS_CardinalityType
    <3>. QED
      BY <3>1
  <2>. QED
    BY <2>1, <2>2, <2>3
<1>. QED
  BY <1>1, <1>2, <1>3, PTL DEF Spec
=============================================================================
