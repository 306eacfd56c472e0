----------------------------- MODULE Customers -----------------------------
(***************************************************************************)
(* Customers: create, update under optimistic concurrency, soft delete.    *)
(* Every statement of a transaction is an action under READ COMMITTED; an  *)
(* update merges the operator's patch into the row it has read and writes  *)
(* it if the stored version is by then the one the request carries, which  *)
(* may be any number: also one ahead of the row it has read.               *)
(***************************************************************************)
EXTENDS Naturals, Sequences

CONSTANTS
    OfficeCall,     \* requests in flight
    Customer,       \* customer ids
    Email,          \* addresses, equal up to case
    NationalId,     \* national ids, as their blind index
    Patch,          \* updates an operator may send
    VersionCap      \* bound on row versions

KycStatus == {"NOT_STARTED", "PENDING", "IN_REVIEW", "VERIFIED", "REJECTED", "EXPIRED"}
CustomerStatus == {"ACTIVE", "INACTIVE", "CLOSED"}
Keep == "keep"

ASSUME CustomersAssumption ==
    /\ Patch \subseteq [email : Email \cup {Keep}, kyc : KycStatus \cup {Keep},
                        status : CustomerStatus \cup {Keep}]
    /\ VersionCap \in Nat

VARIABLES
    customers,    \* customers
    office,       \* request -> its handler
    kycTrail,     \* customer -> the customer.kyc_change entries of the audit log
    kycDecisions, \* customer -> kyc_verifications
    outpaced      \* observer: customers to whom an update ahead of its row was committed

customerVars == <<customers, office, kycTrail, kycDecisions, outpaced>>

-----------------------------------------------------------------------------
CustomerRow == [state : {"live", "deleted"}, email : Email, nationalId : NationalId,
                kyc : KycStatus, status : CustomerStatus, version : 0 .. VersionCap]
NoCustomer == [state |-> "absent"]

OfficeHandler ==
    [at : {"dupEmail", "dupNationalId", "insert"}, email : Email, nationalId : NationalId]
      \cup [at : {"readCustomer", "otherEmail", "writeCustomer"}, customer : Customer,
            patch : Patch, version : 0 .. VersionCap, seen : CustomerRow \cup {NoCustomer}]
NoOffice == [at |-> "idle"]

CustomersTypeOK ==
    /\ customers \in [Customer -> CustomerRow \cup {NoCustomer}]
    /\ office \in [OfficeCall -> OfficeHandler \cup {NoOffice}]
    /\ kycTrail \in [Customer -> Seq(KycStatus \X KycStatus)]
    /\ kycDecisions \in [Customer -> Seq({"VERIFIED", "REJECTED"})]
    /\ outpaced \subseteq Customer

CustomersInit ==
    /\ customers = [c \in Customer |-> NoCustomer]
    /\ office = [p \in OfficeCall |-> NoOffice]
    /\ kycTrail = [c \in Customer |-> <<>>]
    /\ kycDecisions = [c \in Customer |-> <<>>]
    /\ outpaced = {}

-----------------------------------------------------------------------------
officeRows == <<customers, kycTrail, kycDecisions, outpaced>>

Call(p, h) == office[p] = NoOffice /\ office' = [office EXCEPT ![p] = h] /\ UNCHANGED officeRows
OnTo(p, l) == office' = [office EXCEPT ![p].at = l]
Done(p) == office' = [office EXCEPT ![p] = NoOffice]

Live(c) == customers[c].state = "live"
Mailed(email) == {c \in Customer : Live(c) /\ customers[c].email = email}
Identified(id) == {c \in Customer : Live(c) /\ customers[c].nationalId = id}

\* The legal next statuses of kyc-transitions.ts; staying is always legal.
Allowed ==
    [NOT_STARTED |-> {"PENDING", "IN_REVIEW", "VERIFIED", "REJECTED"},
     PENDING     |-> {"NOT_STARTED", "IN_REVIEW", "VERIFIED", "REJECTED", "EXPIRED"},
     IN_REVIEW   |-> {"NOT_STARTED", "PENDING", "VERIFIED", "REJECTED", "EXPIRED"},
     VERIFIED    |-> {"IN_REVIEW", "REJECTED", "EXPIRED"},
     REJECTED    |-> {"NOT_STARTED", "PENDING", "IN_REVIEW"},
     EXPIRED     |-> {"NOT_STARTED", "PENDING", "IN_REVIEW"}]

isKycTransitionAllowed(from, to) == from = to \/ to \in Allowed[from]

-----------------------------------------------------------------------------
\* create(): two look-ups, then the insert, which the partial unique indexes may
\* refuse; account, wallet and zero balance are rows of the same transaction.
CreateCustomer(p, email, nationalId) ==
    Call(p, [at |-> "dupEmail", email |-> email, nationalId |-> nationalId])

LookUpEmail(p) ==
    /\ office[p].at = "dupEmail"
    /\ IF Mailed(office[p].email) # {} THEN Done(p) ELSE OnTo(p, "dupNationalId")
    /\ UNCHANGED officeRows

LookUpNationalId(p) ==
    /\ office[p].at = "dupNationalId"
    /\ IF Identified(office[p].nationalId) # {} THEN Done(p) ELSE OnTo(p, "insert")
    /\ UNCHANGED officeRows

\* customers_email_active_unique
EmailTaken(c, email) == Mailed(email) \ {c} # {}

InsertCustomer(p, c) ==
    LET h == office[p] IN
    /\ h.at = "insert"
    /\ customers[c] = NoCustomer
    /\ IF EmailTaken(c, h.email) \/ Identified(h.nationalId) # {}
       THEN UNCHANGED customers
       ELSE customers' = [customers EXCEPT ![c] =
              [state |-> "live", email |-> h.email, nationalId |-> h.nationalId,
               kyc |-> "NOT_STARTED", status |-> "ACTIVE", version |-> 0]]
    /\ Done(p)
    /\ UNCHANGED <<kycTrail, kycDecisions, outpaced>>

-----------------------------------------------------------------------------
\* update(): the version is whatever the request carries; the form sends the one it
\* was loaded with, and the DTO takes any number that is not negative.
UpdateCustomer(p, c, patch, version) ==
    /\ customers[c] # NoCustomer
    /\ Call(p, [at |-> "readCustomer", customer |-> c, patch |-> patch, version |-> version,
                seen |-> NoCustomer])

Chosen(new, old) == IF new = Keep THEN old ELSE new

\* Absent fields keep the value of the row.
Merged(row, patch) ==
    [row EXCEPT !.email = Chosen(patch.email, @), !.kyc = Chosen(patch.kyc, @),
                !.status = Chosen(patch.status, @), !.version = @ + 1]

LegalStep(row, patch) ==
    /\ isKycTransitionAllowed(row.kyc, Chosen(patch.kyc, row.kyc))
    /\ row.status = "CLOSED" => Chosen(patch.status, "CLOSED") = "CLOSED"

ReadCustomer(p) ==
    LET h == office[p]
        row == customers[h.customer]
    IN
    /\ h.at = "readCustomer"
    /\ office' = [office EXCEPT ![p] =
         IF ~Live(h.customer) THEN NoOffice
         ELSE IF h.patch.email \notin {Keep, row.email}
              THEN [h EXCEPT !.at = "otherEmail", !.seen = row]
         ELSE IF LegalStep(row, h.patch) THEN [h EXCEPT !.at = "writeCustomer", !.seen = row]
         ELSE NoOffice]
    /\ UNCHANGED officeRows

LookUpOtherEmail(p) ==
    LET h == office[p] IN
    /\ h.at = "otherEmail"
    /\ IF Mailed(h.patch.email) \ {h.customer} # {} \/ ~LegalStep(h.seen, h.patch)
       THEN Done(p) ELSE OnTo(p, "writeCustomer")
    /\ UNCHANGED officeRows

\* Mutant: the row is written whatever its version has become.
AnyVersion(p) == Live(office[p].customer)

\* UPDATE ... WHERE deleted_at IS NULL AND row_version = the form's.
VersionHolds(p) ==
    Live(office[p].customer) /\ customers[office[p].customer].version = office[p].version

\* The request carries a version newer than the row it has read, and checked.
Ahead(p) == office[p].version > office[p].seen.version

\* Mutant: only decisions reach the audit log.
TrailOfDecisions(c, from, to) ==
    IF from # to /\ to \in {"VERIFIED", "REJECTED"}
    THEN Append(kycTrail[c], <<from, to>>) ELSE kycTrail[c]

TrailAfter(c, from, to) ==
    IF from # to THEN Append(kycTrail[c], <<from, to>>) ELSE kycTrail[c]

WriteCustomer(p) ==
    LET h == office[p]
        c == h.customer
        new == Merged(h.seen, h.patch)
    IN
    /\ h.at = "writeCustomer"
    /\ \/ /\ VersionHolds(p) /\ ~EmailTaken(c, new.email)
          /\ customers[c].version < VersionCap
          /\ customers' = [customers EXCEPT ![c] = [new EXCEPT !.version = customers[c].version + 1]]
          /\ kycTrail' = [kycTrail EXCEPT ![c] = TrailAfter(c, h.seen.kyc, new.kyc)]
          /\ kycDecisions' = [kycDecisions EXCEPT ![c] =
               IF new.kyc # h.seen.kyc /\ new.kyc \in {"VERIFIED", "REJECTED"}
               THEN Append(@, new.kyc) ELSE @]
          /\ outpaced' = IF Ahead(p) THEN outpaced \cup {c} ELSE outpaced
       \/ /\ ~VersionHolds(p) \/ EmailTaken(c, new.email)
          /\ UNCHANGED officeRows
    /\ Done(p)

SoftDelete(c) ==
    /\ Live(c) /\ customers[c].version < VersionCap
    /\ customers' = [customers EXCEPT ![c].state = "deleted", ![c].version = @ + 1]
    /\ UNCHANGED <<office, kycTrail, kycDecisions, outpaced>>

-----------------------------------------------------------------------------
\* The process dies or the database rolls the transaction back.
OfficeCrash(p) == office[p] # NoOffice /\ Done(p) /\ UNCHANGED officeRows

CustomersNext ==
    \/ \E p \in OfficeCall :
         \/ \E email \in Email, id \in NationalId : CreateCustomer(p, email, id)
         \/ LookUpEmail(p) \/ LookUpNationalId(p)
         \/ \E c \in Customer : InsertCustomer(p, c)
         \/ \E c \in Customer, version \in 0 .. VersionCap, patch \in Patch :
              UpdateCustomer(p, c, patch, version)
         \/ ReadCustomer(p) \/ LookUpOtherEmail(p) \/ WriteCustomer(p)
         \/ OfficeCrash(p)
    \/ \E c \in Customer : SoftDelete(c)

CustomersSpec == CustomersInit /\ [][CustomersNext]_customerVars

-----------------------------------------------------------------------------
\* The row an update may leave: its patch merged into the present row or, when its
\* version ran ahead of the row it has read, into that one.
Committed(p) ==
    LET now == customers[office[p].customer]
        base == IF Ahead(p) THEN office[p].seen ELSE now
    IN  [Merged(base, office[p].patch) EXCEPT !.version = now.version + 1]

\* No lost update: whatever update() commits is its patch applied to the row it
\* replaces, never to an older one, although it merges into a row read earlier.  Only
\* a request whose version ran ahead of that row merges into the older one.
UpdatesMerge ==
    [][\A c \in Customer :
         Live(c) /\ Live(c)' /\ customers'[c] # customers[c] =>
           \E p \in OfficeCall :
             /\ office[p].at = "writeCustomer" /\ office[p].customer = c
             /\ customers'[c] = Committed(p)]_customerVars

\* However updates overlap, a customer only moves along the KYC matrix and never out
\* of CLOSED, unless the step commits an update ahead of the row it was checked on; and
\* a deleted customer never comes back or changes, whatever the version.
LifecycleLegal ==
    [][\A c \in Customer : customers[c] # NoCustomer =>
         /\ customers[c].state = "deleted" => customers'[c] = customers[c]
         /\ \/ /\ isKycTransitionAllowed(customers[c].kyc, customers'[c].kyc)
               /\ customers[c].status = "CLOSED" => customers'[c].status = "CLOSED"
            \/ \E p \in OfficeCall :
                 /\ office[p].at = "writeCustomer" /\ office[p].customer = c
                 /\ Ahead(p) /\ VersionHolds(p) /\ office'[p] = NoOffice]_customerVars

\* The audit log tells the whole KYC history: its entries form an unbroken path from
\* NOT_STARTED to the customer's present status, as long as no update ahead of its
\* row has been committed to the customer.
KycTrailUnbroken ==
    \A c \in Customer \ outpaced :
        LET t == kycTrail[c]
            at == [i \in 0 .. Len(t) |-> IF i = 0 THEN "NOT_STARTED" ELSE t[i][2]]
        IN
        /\ \A i \in 1 .. Len(t) : t[i][1] = at[i - 1]
        /\ customers[c] # NoCustomer => customers[c].kyc = at[Len(t)]

\* No two customers that are not deleted share an address or a national id, even
\* when creations and changes of address pass their look-ups together.
LiveCustomersDistinct ==
    \A c, d \in Customer : Live(c) /\ Live(d) /\ c # d =>
        customers[c].email # customers[d].email /\ customers[c].nationalId # customers[d].nationalId

\* What update() and delete() may do to a customer, step by step.
CustomersEvolve == UpdatesMerge /\ LifecycleLegal

\* What holds of the customers and their audit trail at any time.
CustomersCoherent == KycTrailUnbroken /\ LiveCustomersDistinct
=============================================================================
