---------------------------- MODULE OfficeProofs ----------------------------
(***************************************************************************)
(* Proofs about the back office, for any number of concurrent requests:    *)
(* customers with any addresses and patches, the rate limiter with any     *)
(* limit and windows, live events with any instances and browsers,         *)
(* notifications with any operators, rows and pages, and the nightly jobs  *)
(* with any instances, pools and days.                                     *)
(***************************************************************************)
EXTENDS BackOffice, RowOrderProofs, TLAPS, FiniteSetTheorems, SequenceTheorems,
        WellFoundedInduction

-----------------------------------------------------------------------------
(* Customers *)

Creating == [at : {"dupEmail", "dupNationalId", "insert"}, email : Email, nationalId : NationalId]
Updating == [at : {"readCustomer", "otherEmail", "writeCustomer"}, customer : Customer,
             patch : Patch, version : 0 .. VersionCap, seen : CustomerRow \cup {NoCustomer}]

\* A row an update has read is the present one or an older version of it.
SeenInPast(seen, row) ==
    /\ seen \in CustomerRow /\ seen.state = "live"
    /\ seen.nationalId = row.nationalId
    /\ seen.version <= row.version
    /\ seen.version = row.version => seen = row

\* What an update may rely on, whatever version it carries: the row it has read is the
\* customer's present or an older one, and its patch is legal for it.
UpdateSound(h) ==
    h \in Updating =>
        LET row == customers[h.customer] IN
        /\ row \in CustomerRow
        /\ h.at # "readCustomer" => SeenInPast(h.seen, row)
        /\ h.at = "writeCustomer" => LegalStep(h.seen, h.patch)

\* The status the audit log ends with.
LastKyc(t) == IF Len(t) = 0 THEN "NOT_STARTED" ELSE t[Len(t)][2]

\* Every entry of the log starts where the one before it ended.
TrailLinked(t) ==
    \A i \in 1 .. Len(t) : t[i][1] = IF i = 1 THEN "NOT_STARTED" ELSE t[i - 1][2]

\* The inductive invariant of customers.
CustomersInv ==
    /\ CustomersTypeOK
    /\ LiveCustomersDistinct
    /\ \A c \in Customer : customers[c] = NoCustomer => c \notin outpaced
    /\ \A c \in Customer \ outpaced :
         /\ TrailLinked(kycTrail[c])
         /\ LastKyc(kycTrail[c]) =
              IF customers[c] = NoCustomer THEN "NOT_STARTED" ELSE customers[c].kyc
    /\ \A p \in OfficeCall : UpdateSound(office[p])

\* A handler's program counter tells what kind of request it is.
LEMMA HandlerKinds ==
    ASSUME NEW h \in OfficeHandler \cup {NoOffice}
    PROVE  /\ h \in Creating \cup Updating \cup {NoOffice}
           /\ h.at \in {"dupEmail", "dupNationalId", "insert"} <=> h \in Creating
           /\ h.at \in {"readCustomer", "otherEmail", "writeCustomer"} <=> h \in Updating
           /\ h.at = "idle" <=> h = NoOffice
BY DEF OfficeHandler, NoOffice, Creating, Updating

LEMMA RowKinds ==
    ASSUME NEW row \in CustomerRow \cup {NoCustomer}
    PROVE  /\ row # NoCustomer <=> row \in CustomerRow
           /\ row.state = "live" => row \in CustomerRow
           /\ row.state = "deleted" => row \in CustomerRow
BY DEF CustomerRow, NoCustomer

\* A merged row is a row.
LEMMA MergedRow ==
    ASSUME NEW row \in CustomerRow, NEW patch \in Patch
    PROVE  /\ Merged(row, patch) =
                [state |-> row.state, email |-> Chosen(patch.email, row.email),
                 nationalId |-> row.nationalId, kyc |-> Chosen(patch.kyc, row.kyc),
                 status |-> Chosen(patch.status, row.status), version |-> row.version + 1]
           /\ Chosen(patch.email, row.email) \in Email
           /\ Chosen(patch.kyc, row.kyc) \in KycStatus
           /\ Chosen(patch.status, row.status) \in CustomerStatus
<1>1. patch.email \in Email \cup {Keep} /\ patch.kyc \in KycStatus \cup {Keep}
      /\ patch.status \in CustomerStatus \cup {Keep}
    BY CustomersAssumption
<1>2. /\ Chosen(patch.email, row.email) \in Email
      /\ Chosen(patch.kyc, row.kyc) \in KycStatus
      /\ Chosen(patch.status, row.status) \in CustomerStatus
    BY <1>1 DEF Chosen, CustomerRow
<1>3. Merged(row, patch) =
                [state |-> row.state, email |-> Chosen(patch.email, row.email),
                 nationalId |-> row.nationalId, kyc |-> Chosen(patch.kyc, row.kyc),
                 status |-> Chosen(patch.status, row.status), version |-> row.version + 1]
  <2>1. row.version + 1 \in Nat
      BY DEF CustomerRow
  <2> DEFINE e == Chosen(patch.email, row.email)
             k == Chosen(patch.kyc, row.kyc)
             s == Chosen(patch.status, row.status)
             v == row.version + 1
  <2>2. e \in Email /\ k \in KycStatus /\ s \in CustomerStatus /\ v \in Nat
      BY <1>2, <2>1
  <2>3. Merged(row, patch) = [row EXCEPT !.email = e, !.kyc = k, !.status = s, !.version = v]
      BY DEF Merged
  <2> HIDE DEF e, k, s, v
  <2> DEFINE r == [row EXCEPT !.email = e, !.kyc = k, !.status = s, !.version = v]
             q == [state |-> row.state, email |-> e, nationalId |-> row.nationalId,
                   kyc |-> k, status |-> s, version |-> v]
             AnyRow == [state : {"live", "deleted"}, email : Email, nationalId : NationalId,
                        kyc : KycStatus, status : CustomerStatus, version : Nat]
  <2>4. r \in AnyRow /\ q \in AnyRow
      BY <2>2 DEF CustomerRow
  <2>5. /\ r.state = q.state /\ r.email = q.email /\ r.nationalId = q.nationalId
        /\ r.kyc = q.kyc /\ r.status = q.status /\ r.version = q.version
      BY DEF CustomerRow
  <2> HIDE DEF r, q
  <2>6. r = q
      BY <2>4, <2>5
  <2> QED
      BY <2>3, <2>6 DEF e, k, s, v, r, q
<1> QED
    BY <1>2, <1>3

\* The two forms of the unbroken trail agree.
LEMMA TrailForms ==
    ASSUME CustomersInv
    PROVE  KycTrailUnbroken
<1> SUFFICES ASSUME NEW c \in Customer \ outpaced
             PROVE  LET t == kycTrail[c]
                        at == [i \in 0 .. Len(t) |-> IF i = 0 THEN "NOT_STARTED" ELSE t[i][2]]
                    IN  /\ \A i \in 1 .. Len(t) : t[i][1] = at[i - 1]
                        /\ customers[c] # NoCustomer => customers[c].kyc = at[Len(t)]
    BY DEF KycTrailUnbroken
<1> DEFINE t == kycTrail[c]
           at == [i \in 0 .. Len(t) |-> IF i = 0 THEN "NOT_STARTED" ELSE t[i][2]]
<1>1. t \in Seq(KycStatus \X KycStatus) /\ Len(t) \in Nat
    BY DEF CustomersInv, CustomersTypeOK
<1>2. ASSUME NEW i \in 1 .. Len(t) PROVE t[i][1] = at[i - 1]
  <2>1. t[i][1] = IF i = 1 THEN "NOT_STARTED" ELSE t[i - 1][2]
      BY DEF CustomersInv, TrailLinked
  <2>2. i - 1 \in 0 .. Len(t) /\ (i - 1 = 0 <=> i = 1)
      BY <1>1
  <2>3. at[i - 1] = IF i - 1 = 0 THEN "NOT_STARTED" ELSE t[i - 1][2]
      BY <2>2
  <2> QED
      BY <2>1, <2>2, <2>3
<1>3. at[Len(t)] = LastKyc(t)
    BY <1>1 DEF LastKyc
<1> QED
    BY <1>2, <1>3 DEF CustomersInv

\* Appending the step from the last status keeps the trail unbroken.
LEMMA TrailGrows ==
    ASSUME NEW t \in Seq(KycStatus \X KycStatus), TrailLinked(t),
           NEW to \in KycStatus, NEW from \in KycStatus, from = LastKyc(t)
    PROVE  /\ TrailLinked(Append(t, <<from, to>>))
           /\ LastKyc(Append(t, <<from, to>>)) = to
           /\ Append(t, <<from, to>>) \in Seq(KycStatus \X KycStatus)
<1> DEFINE u == Append(t, <<from, to>>)
<1>1. /\ Len(t) \in Nat /\ Len(u) = Len(t) + 1 /\ u[Len(u)] = <<from, to>>
      /\ \A i \in 1 .. Len(t) : u[i] = t[i]
      /\ u \in Seq(KycStatus \X KycStatus)
    OBVIOUS
<1>2. ASSUME NEW i \in 1 .. Len(u)
      PROVE  u[i][1] = IF i = 1 THEN "NOT_STARTED" ELSE u[i - 1][2]
  <2>1. CASE i = Len(u)
      BY <1>1, <2>1 DEF LastKyc
  <2>2. CASE i # Len(u)
    <3>1. i \in 1 .. Len(t) /\ (i # 1 => i - 1 \in 1 .. Len(t))
        BY <1>1, <2>2
    <3>2. t[i][1] = IF i = 1 THEN "NOT_STARTED" ELSE t[i - 1][2]
        BY <3>1 DEF TrailLinked
    <3> QED
        BY <1>1, <3>1, <3>2
  <2> QED
      BY <2>1, <2>2
<1>3. LastKyc(u) = to
    BY <1>1 DEF LastKyc
<1> QED
    BY <1>1, <1>2, <1>3 DEF TrailLinked

LEMMA CustomersInitInv == CustomersInit => CustomersInv
<1> SUFFICES ASSUME CustomersInit PROVE CustomersInv
    OBVIOUS
<1>1. CustomersTypeOK
    BY DEF CustomersInit, CustomersTypeOK
<1>2. LiveCustomersDistinct
    BY DEF CustomersInit, LiveCustomersDistinct, Live, NoCustomer
<1>3. ASSUME NEW c \in Customer
      PROVE  /\ TrailLinked(kycTrail[c])
             /\ LastKyc(kycTrail[c]) =
                  IF customers[c] = NoCustomer THEN "NOT_STARTED" ELSE customers[c].kyc
             /\ c \notin outpaced
    BY DEF CustomersInit, TrailLinked, LastKyc
<1>4. ASSUME NEW p \in OfficeCall PROVE UpdateSound(office[p])
    BY DEF CustomersInit, UpdateSound, NoOffice, Updating
<1> QED
    BY <1>1, <1>2, <1>3, <1>4 DEF CustomersInv

\* A step that only moves one request on.
LEMMA RequestMoves ==
    ASSUME CustomersInv, NEW p \in OfficeCall, NEW h \in OfficeHandler \cup {NoOffice},
           office' = [office EXCEPT ![p] = h], UNCHANGED officeRows, UpdateSound(h)
    PROVE  CustomersInv'
<1>1. CustomersTypeOK'
    BY DEF CustomersInv, CustomersTypeOK, officeRows
<1>2. LiveCustomersDistinct'
    BY DEF CustomersInv, LiveCustomersDistinct, Live, officeRows
<1>3. ASSUME NEW q \in OfficeCall PROVE UpdateSound(office[q])'
  <2>1. UpdateSound(office'[q])
      BY DEF CustomersInv, CustomersTypeOK
  <2> QED
      BY <2>1 DEF UpdateSound, officeRows
<1> QED
    BY <1>1, <1>2, <1>3 DEF CustomersInv, officeRows

\* A row that moves to a higher version leaves every request sound: what was read
\* of the old row is of a lower version.
LEMMA RowMoves ==
    ASSUME CustomersInv, NEW c \in Customer, NEW row \in CustomerRow,
           customers' = [customers EXCEPT ![c] = row],
           customers[c] \in CustomerRow =>
             row.version > customers[c].version /\ row.nationalId = customers[c].nationalId,
           NEW h, UpdateSound(h)
    PROVE  UpdateSound(h)'
<1> SUFFICES ASSUME h \in Updating
             PROVE  /\ customers'[h.customer] \in CustomerRow
                    /\ h.at # "readCustomer" => SeenInPast(h.seen, customers'[h.customer])
                    /\ h.at = "writeCustomer" => LegalStep(h.seen, h.patch)
    BY DEF UpdateSound, Updating, SeenInPast, LegalStep
<1>1. /\ customers[h.customer] \in CustomerRow
      /\ h.at # "readCustomer" => SeenInPast(h.seen, customers[h.customer])
      /\ h.at = "writeCustomer" => LegalStep(h.seen, h.patch)
      /\ h.customer \in Customer
    BY DEF UpdateSound, Updating
<1>2. CASE h.customer # c
    BY <1>1, <1>2 DEF CustomersInv, CustomersTypeOK
<1>3. CASE h.customer = c
  <2>1. /\ customers'[h.customer] = row /\ row.version > customers[c].version
        /\ row.nationalId = customers[c].nationalId
      BY <1>1, <1>3 DEF CustomersInv, CustomersTypeOK
  <2>2. row.version \in Nat /\ customers[c].version \in Nat
      BY <1>1, <1>3 DEF CustomerRow
  <2>3. h.at # "readCustomer" => h.seen \in CustomerRow /\ h.seen.version \in Nat
                                 /\ h.seen.state = "live" /\ h.seen.version <= customers[c].version
                                 /\ h.seen.nationalId = customers[c].nationalId
      BY <1>1, <1>3 DEF SeenInPast, CustomerRow
  <2> QED
      BY <1>1, <1>3, <2>1, <2>2, <2>3 DEF SeenInPast
<1> QED
    BY <1>2, <1>3

\* The conditional UPDATE goes through over a row of the request's version: the very
\* row that was read, unless the version was ahead of that.
LEMMA CommitOverSeen ==
    ASSUME CustomersInv, NEW p \in OfficeCall, office[p].at = "writeCustomer", VersionHolds(p)
    PROVE  LET h == office[p]
               row == customers[h.customer]
           IN
           /\ h \in Updating /\ h.customer \in Customer /\ h.patch \in Patch
           /\ row \in CustomerRow /\ row.state = "live"
           /\ h.seen \in CustomerRow /\ h.seen.state = "live"
           /\ h.seen.nationalId = row.nationalId
           /\ ~Ahead(p) => h.seen = row
           /\ LegalStep(h.seen, h.patch)
<1> DEFINE h == office[p]
           row == customers[h.customer]
<1>1. h \in Updating
    BY HandlerKinds DEF CustomersInv, CustomersTypeOK
<1>2. h.customer \in Customer /\ h.patch \in Patch /\ h.version \in Nat
    BY <1>1 DEF Updating
<1>3. row \in CustomerRow /\ SeenInPast(h.seen, row) /\ LegalStep(h.seen, h.patch)
    BY <1>1 DEF CustomersInv, UpdateSound
<1>4. row.version = h.version /\ row.state = "live"
    BY DEF VersionHolds, Live
<1>5. ~Ahead(p) => h.seen = row
    BY <1>2, <1>3, <1>4 DEF SeenInPast, CustomerRow, Ahead
<1> QED
    BY <1>1, <1>2, <1>3, <1>4, <1>5 DEF SeenInPast

\* What a step that replaces one row has to keep.
LEMMA RowReplaced ==
    ASSUME CustomersInv, NEW c \in Customer, NEW row \in CustomerRow,
           customers' = [customers EXCEPT ![c] = row],
           customers[c] \in CustomerRow =>
             row.version > customers[c].version /\ row.nationalId = customers[c].nationalId,
           office' \in [OfficeCall -> OfficeHandler \cup {NoOffice}],
           \A p \in OfficeCall : office'[p] \in {office[p], NoOffice},
           NEW t \in Seq(KycStatus \X KycStatus), kycTrail' = [kycTrail EXCEPT ![c] = t],
           outpaced' \in {outpaced, outpaced \cup {c}},
           c \notin outpaced' => TrailLinked(t) /\ LastKyc(t) = row.kyc,
           kycDecisions' \in [Customer -> Seq({"VERIFIED", "REJECTED"})],
           row.state = "live" => \A d \in Customer : Live(d) /\ d # c =>
             customers[d].email # row.email /\ customers[d].nationalId # row.nationalId
    PROVE  CustomersInv'
<1>0. CustomersTypeOK
    BY DEF CustomersInv
<1>1. CustomersTypeOK'
    BY <1>0 DEF CustomersTypeOK
<1>2. LiveCustomersDistinct'
    BY <1>0 DEF CustomersInv, LiveCustomersDistinct, Live, CustomersTypeOK
<1>3. ASSUME NEW d \in Customer, d \notin outpaced'
      PROVE  (/\ TrailLinked(kycTrail[d])
              /\ LastKyc(kycTrail[d]) =
                   IF customers[d] = NoCustomer THEN "NOT_STARTED" ELSE customers[d].kyc)'
  <2>1. row # NoCustomer
      BY RowKinds
  <2>2. CASE d = c
    <3>1. kycTrail'[d] = t /\ customers'[d] = row
        BY <1>0, <2>2 DEF CustomersTypeOK
    <3> QED
        BY <1>3, <2>1, <2>2, <3>1 DEF TrailLinked, LastKyc
  <2>3. CASE d # c
    <3>1. kycTrail'[d] = kycTrail[d] /\ customers'[d] = customers[d]
        BY <1>0, <2>3 DEF CustomersTypeOK
    <3>2. /\ TrailLinked(kycTrail[d])
          /\ LastKyc(kycTrail[d]) =
               IF customers[d] = NoCustomer THEN "NOT_STARTED" ELSE customers[d].kyc
        BY <1>3 DEF CustomersInv
    <3> QED
        BY <3>1, <3>2 DEF TrailLinked, LastKyc
  <2> QED
      BY <2>2, <2>3
<1>4. ASSUME NEW p \in OfficeCall PROVE UpdateSound(office[p])'
  <2>1. UpdateSound(office[p]) /\ UpdateSound(NoOffice)
      BY DEF CustomersInv, UpdateSound, NoOffice, Updating
  <2>2. UpdateSound(office'[p])
      BY <2>1
  <2>3. PICK h : h = office'[p]
      OBVIOUS
  <2>4. UpdateSound(h)
      BY <2>2, <2>3
  <2>5. UpdateSound(h)'
      BY <2>4, RowMoves DEF UpdateSound
  <2> QED
      BY <2>3, <2>5 DEF UpdateSound
<1>5. ASSUME NEW d \in Customer, customers'[d] = NoCustomer PROVE d \notin outpaced'
  <2>1. d # c
      BY <1>0, <1>5, RowKinds DEF CustomersTypeOK
  <2> QED
      BY <1>0, <1>5, <2>1 DEF CustomersInv, CustomersTypeOK
<1> QED
    BY <1>1, <1>2, <1>3, <1>4, <1>5 DEF CustomersInv

LEMMA InsertStep ==
    ASSUME CustomersInv, NEW p \in OfficeCall, NEW c \in Customer, InsertCustomer(p, c)
    PROVE  CustomersInv'
<1>0. CustomersTypeOK
    BY DEF CustomersInv
<1> DEFINE h == office[p]
           row == [state |-> "live", email |-> h.email, nationalId |-> h.nationalId,
                   kyc |-> "NOT_STARTED", status |-> "ACTIVE", version |-> 0]
<1>1. h \in Creating
    BY <1>0, HandlerKinds DEF InsertCustomer, CustomersTypeOK
<1>2. row \in CustomerRow /\ row.version = 0
    BY <1>1, CustomersAssumption DEF Creating, CustomerRow, KycStatus, CustomerStatus
<1>3. /\ office' \in [OfficeCall -> OfficeHandler \cup {NoOffice}]
      /\ \A q \in OfficeCall : office'[q] \in {office[q], NoOffice}
    BY <1>0 DEF InsertCustomer, Done, CustomersTypeOK
<1>4. CASE EmailTaken(c, h.email) \/ Identified(h.nationalId) # {}
  <2>1. UNCHANGED officeRows /\ office' = [office EXCEPT ![p] = NoOffice]
      BY <1>4 DEF InsertCustomer, officeRows, Done
  <2>2. UpdateSound(NoOffice)
      BY DEF UpdateSound, NoOffice, Updating
  <2> QED
      BY <2>1, <2>2, RequestMoves
<1>5. CASE ~(EmailTaken(c, h.email) \/ Identified(h.nationalId) # {})
  <2>1. /\ customers' = [customers EXCEPT ![c] = row]
        /\ customers[c] = NoCustomer
        /\ UNCHANGED <<kycTrail, kycDecisions, outpaced>>
      BY <1>5 DEF InsertCustomer
  <2>2. customers[c] \notin CustomerRow
      BY <2>1 DEF NoCustomer, CustomerRow
  <2>3. kycTrail' = [kycTrail EXCEPT ![c] = kycTrail[c]] /\ kycTrail[c] \in Seq(KycStatus \X KycStatus)
      BY <1>0, <2>1 DEF CustomersTypeOK
  <2>4. TrailLinked(kycTrail[c]) /\ LastKyc(kycTrail[c]) = row.kyc
      BY <2>1 DEF CustomersInv
  <2>5. \A d \in Customer : Live(d) /\ d # c =>
             customers[d].email # row.email /\ customers[d].nationalId # row.nationalId
      BY <1>5 DEF EmailTaken, Mailed, Identified
  <2>6. kycDecisions' \in [Customer -> Seq({"VERIFIED", "REJECTED"})]
      BY <1>0, <2>1 DEF CustomersTypeOK
  <2> HIDE DEF row
  <2> QED
      BY <1>2, <1>3, <2>1, <2>2, <2>3, <2>4, <2>5, <2>6, RowReplaced
<1> QED
    BY <1>4, <1>5

LEMMA SoftDeleteStep ==
    ASSUME CustomersInv, NEW c \in Customer, SoftDelete(c)
    PROVE  CustomersInv'
<1>0. CustomersTypeOK
    BY DEF CustomersInv
<1> DEFINE row == [customers[c] EXCEPT !.state = "deleted", !.version = @ + 1]
<1>1. customers[c] \in CustomerRow /\ customers[c].version < VersionCap
    BY <1>0, RowKinds DEF SoftDelete, Live, CustomersTypeOK
<1>2. /\ row \in CustomerRow /\ row.version > customers[c].version
      /\ row.state = "deleted" /\ row.kyc = customers[c].kyc
      /\ row.nationalId = customers[c].nationalId
  <2>1. customers[c].version \in Nat /\ customers[c].version + 1 \in 0 .. VersionCap
      BY <1>1, CustomersAssumption DEF CustomerRow
  <2>2. row \in CustomerRow
      BY <1>1, <2>1 DEF CustomerRow
  <2>3. /\ row.version = customers[c].version + 1 /\ row.state = "deleted"
        /\ row.kyc = customers[c].kyc /\ row.nationalId = customers[c].nationalId
      BY <1>1 DEF CustomerRow
  <2> QED
      BY <2>1, <2>2, <2>3
<1>3. /\ customers' = [customers EXCEPT ![c] = row]
      /\ UNCHANGED <<office, kycTrail, kycDecisions, outpaced>>
    BY DEF SoftDelete
<1>4. kycTrail' = [kycTrail EXCEPT ![c] = kycTrail[c]] /\ kycTrail[c] \in Seq(KycStatus \X KycStatus)
    BY <1>0, <1>3 DEF CustomersTypeOK
<1>5. c \notin outpaced' => TrailLinked(kycTrail[c]) /\ LastKyc(kycTrail[c]) = row.kyc
  <2>1. customers[c] # NoCustomer
      BY <1>1, RowKinds
  <2> QED
      BY <1>2, <1>3, <2>1 DEF CustomersInv
<1>6. /\ kycDecisions' \in [Customer -> Seq({"VERIFIED", "REJECTED"})]
      /\ office' \in [OfficeCall -> OfficeHandler \cup {NoOffice}]
      /\ \A q \in OfficeCall : office'[q] \in {office[q], NoOffice}
    BY <1>0, <1>3 DEF CustomersTypeOK
<1> HIDE DEF row
<1> QED
    BY <1>2, <1>3, <1>4, <1>5, <1>6, RowReplaced

LEMMA WriteStep ==
    ASSUME CustomersInv, NEW p \in OfficeCall, WriteCustomer(p)
    PROVE  CustomersInv'
<1>0. CustomersTypeOK
    BY DEF CustomersInv
<1> DEFINE h == office[p]
           c == h.customer
           new == Merged(h.seen, h.patch)
<1>1. /\ office' = [office EXCEPT ![p] = NoOffice]
      /\ office' \in [OfficeCall -> OfficeHandler \cup {NoOffice}]
      /\ \A q \in OfficeCall : office'[q] \in {office[q], NoOffice}
    BY <1>0 DEF WriteCustomer, Done, CustomersTypeOK
<1>2. CASE UNCHANGED officeRows
  <2>1. UpdateSound(NoOffice)
      BY DEF UpdateSound, NoOffice, Updating
  <2> QED
      BY <1>1, <1>2, <2>1, RequestMoves
<1>3. CASE ~UNCHANGED officeRows
  <2>1. /\ h.at = "writeCustomer" /\ VersionHolds(p) /\ ~EmailTaken(c, new.email)
        /\ customers[c].version < VersionCap
        /\ customers' = [customers EXCEPT ![c] = [new EXCEPT !.version = customers[c].version + 1]]
        /\ kycTrail' = [kycTrail EXCEPT ![c] = TrailAfter(c, h.seen.kyc, new.kyc)]
        /\ kycDecisions' = [kycDecisions EXCEPT ![c] =
               IF new.kyc # h.seen.kyc /\ new.kyc \in {"VERIFIED", "REJECTED"}
               THEN Append(@, new.kyc) ELSE @]
        /\ outpaced' = IF Ahead(p) THEN outpaced \cup {c} ELSE outpaced
      BY <1>3 DEF WriteCustomer
  <2>2. /\ c \in Customer /\ h.patch \in Patch /\ customers[c] \in CustomerRow
        /\ customers[c].state = "live" /\ h.seen \in CustomerRow /\ h.seen.state = "live"
        /\ h.seen.nationalId = customers[c].nationalId /\ (~Ahead(p) => h.seen = customers[c])
      BY <2>1, CommitOverSeen
  <2>3. PICK row : row = [new EXCEPT !.version = customers[c].version + 1]
      OBVIOUS
  <2>4. /\ row \in CustomerRow /\ row.version > customers[c].version
        /\ row.nationalId = customers[c].nationalId /\ row.state = "live"
        /\ row.kyc = new.kyc /\ row.email = new.email /\ new.kyc \in KycStatus
      BY <2>1, <2>2, <2>3, MergedRow, CustomersAssumption DEF CustomerRow
  <2>5. customers' = [customers EXCEPT ![c] = row]
      BY <2>1, <2>3
  <2>6. PICK t : t = TrailAfter(c, h.seen.kyc, row.kyc)
      OBVIOUS
  <2>7. /\ kycTrail' = [kycTrail EXCEPT ![c] = t]
        /\ kycTrail[c] \in Seq(KycStatus \X KycStatus)
      BY <1>0, <2>1, <2>2, <2>4, <2>6 DEF CustomersTypeOK
  <2>8. h.seen.kyc \in KycStatus /\ row.kyc \in KycStatus
      BY <2>2, <2>4 DEF CustomerRow
  <2>9. t \in Seq(KycStatus \X KycStatus)
      BY <2>6, <2>7, <2>8 DEF TrailAfter
  <2>10. ASSUME c \notin outpaced' PROVE TrailLinked(t) /\ LastKyc(t) = row.kyc
    <3>1. c \notin outpaced /\ h.seen = customers[c] /\ customers[c] # NoCustomer
        BY <2>1, <2>2, <2>10, RowKinds
    <3>2. TrailLinked(kycTrail[c]) /\ LastKyc(kycTrail[c]) = h.seen.kyc
        BY <2>2, <3>1 DEF CustomersInv
    <3> QED
        BY <2>6, <2>7, <2>8, <3>2, TrailGrows DEF TrailAfter
  <2>11. kycDecisions' \in [Customer -> Seq({"VERIFIED", "REJECTED"})]
      BY <1>0, <2>1, <2>2 DEF CustomersTypeOK
  <2>12. \A d \in Customer : Live(d) /\ d # c =>
             customers[d].email # row.email /\ customers[d].nationalId # row.nationalId
    <3>1. \A d \in Customer : Live(d) /\ d # c => customers[d].nationalId # customers[c].nationalId
        BY <2>2 DEF CustomersInv, LiveCustomersDistinct, Live
    <3>2. \A d \in Customer : Live(d) /\ d # c => customers[d].email # row.email
        BY <2>1, <2>4 DEF EmailTaken, Mailed
    <3> QED
        BY <2>4, <3>1, <3>2
  <2>13. outpaced' \in {outpaced, outpaced \cup {c}}
      BY <2>1
  <2> HIDE DEF new
  <2> QED
      BY <1>1, <2>2, <2>4, <2>5, <2>7, <2>9, <2>10, <2>11, <2>12, <2>13, RowReplaced
<1> QED
    BY <1>2, <1>3

\* A request that moves from one of its steps to the next.
LEMMA NextOfficeStep ==
    ASSUME CustomersTypeOK, NEW p \in OfficeCall, NEW l, OnTo(p, l),
           \/ office[p] \in Creating /\ l \in {"dupNationalId", "insert"}
           \/ office[p] \in Updating /\ l = "writeCustomer"
    PROVE  /\ office' = [office EXCEPT ![p] = [office[p] EXCEPT !.at = l]]
           /\ [office[p] EXCEPT !.at = l] \in OfficeHandler
BY DEF OnTo, Creating, Updating, OfficeHandler

\* A handler that ends.
LEMMA RequestEnds ==
    ASSUME CustomersInv, NEW p \in OfficeCall, Done(p), UNCHANGED officeRows
    PROVE  CustomersInv'
<1>1. UpdateSound(NoOffice)
    BY DEF UpdateSound, NoOffice, Updating
<1> QED
    BY <1>1, RequestMoves DEF Done

\* Creating a customer moves through its look-ups.
LEMMA CreateSteps ==
    ASSUME CustomersInv, NEW p \in OfficeCall,
           \/ \E email \in Email, id \in NationalId : CreateCustomer(p, email, id)
           \/ LookUpEmail(p)
           \/ LookUpNationalId(p)
    PROVE  CustomersInv'
<1>0. CustomersTypeOK
    BY DEF CustomersInv
<1>1. ASSUME NEW email \in Email, NEW id \in NationalId, CreateCustomer(p, email, id)
      PROVE  CustomersInv'
  <2> DEFINE h == [at |-> "dupEmail", email |-> email, nationalId |-> id]
  <2>1. h \in OfficeHandler /\ h \notin Updating
      BY DEF OfficeHandler, Updating
  <2>2. UpdateSound(h)
      BY <2>1 DEF UpdateSound
  <2>3. office' = [office EXCEPT ![p] = h] /\ UNCHANGED officeRows
      BY <1>1 DEF CreateCustomer, Call
  <2> HIDE DEF h
  <2> QED
      BY <2>1, <2>2, <2>3, RequestMoves
<1>2. ASSUME NEW l \in {"dupNationalId", "insert"}, office[p] \in Creating, OnTo(p, l),
             UNCHANGED officeRows
      PROVE  CustomersInv'
  <2>1. PICK h \in OfficeHandler : office' = [office EXCEPT ![p] = h] /\ h.at = l
    <3>1. [office[p] EXCEPT !.at = l].at = l
        BY <1>2 DEF Creating
    <3> QED
        BY <1>0, <1>2, <3>1, NextOfficeStep
  <2>2. UpdateSound(h)
      BY <2>1, <1>2 DEF UpdateSound, Updating
  <2> QED
      BY <1>2, <2>1, <2>2, RequestMoves
<1>3. CASE LookUpEmail(p)
  <2>1. office[p] \in Creating
      BY <1>0, <1>3, HandlerKinds DEF LookUpEmail, CustomersTypeOK
  <2> QED
      BY <1>2, <1>3, <2>1, RequestEnds DEF LookUpEmail
<1>4. CASE LookUpNationalId(p)
  <2>1. office[p] \in Creating
      BY <1>0, <1>4, HandlerKinds DEF LookUpNationalId, CustomersTypeOK
  <2> QED
      BY <1>2, <1>4, <2>1, RequestEnds DEF LookUpNationalId
<1> QED
    BY <1>1, <1>3, <1>4

\* An update that has just been sent, with any version, has read nothing yet.
LEMMA UpdateStep ==
    ASSUME CustomersInv, NEW p \in OfficeCall, NEW c \in Customer,
           NEW version \in 0 .. VersionCap, NEW patch \in Patch,
           UpdateCustomer(p, c, patch, version)
    PROVE  CustomersInv'
<1> DEFINE h == [at |-> "readCustomer", customer |-> c, patch |-> patch, version |-> version,
                 seen |-> NoCustomer]
<1>1. h \in Updating /\ h \in OfficeHandler
    BY DEF Updating, OfficeHandler
<1>2. customers[c] \in CustomerRow
    BY RowKinds DEF UpdateCustomer, CustomersInv, CustomersTypeOK
<1>3. UpdateSound(h)
    BY <1>2 DEF UpdateSound
<1>4. office' = [office EXCEPT ![p] = h] /\ UNCHANGED officeRows
    BY DEF UpdateCustomer, Call
<1> HIDE DEF h
<1> QED
    BY <1>1, <1>3, <1>4, RequestMoves

\* What update() reads is the present row.
LEMMA ReadStep ==
    ASSUME CustomersInv, NEW p \in OfficeCall, ReadCustomer(p)
    PROVE  CustomersInv'
<1> DEFINE h == office[p]
           row == customers[h.customer]
<1>1. h \in Updating /\ h.customer \in Customer
    BY HandlerKinds DEF ReadCustomer, CustomersInv, CustomersTypeOK, Updating
<1>2. row \in CustomerRow
    BY <1>1 DEF CustomersInv, UpdateSound
<1>3. UNCHANGED officeRows
    BY DEF ReadCustomer
<1>4. ASSUME NEW l \in {"otherEmail", "writeCustomer"}, row.state = "live",
             l = "writeCustomer" => LegalStep(row, h.patch),
             office' = [office EXCEPT ![p] = [h EXCEPT !.at = l, !.seen = row]]
      PROVE  CustomersInv'
  <2>1. PICK g : g = [h EXCEPT !.at = l, !.seen = row]
      OBVIOUS
  <2>2. g \in Updating /\ g.at = l /\ g.seen = row /\ g.customer = h.customer
        /\ g.patch = h.patch /\ g.version = h.version
      BY <1>1, <1>2, <2>1 DEF Updating
  <2>3. row.version <= row.version
      BY <1>2 DEF CustomerRow
  <2>4. UpdateSound(g)
      BY <1>2, <1>4, <2>2, <2>3 DEF UpdateSound, SeenInPast
  <2>5. g \in OfficeHandler
      BY <2>2 DEF Updating, OfficeHandler
  <2> QED
      BY <1>3, <1>4, <2>1, <2>4, <2>5, RequestMoves
<1>5. CASE Done(p)
    BY <1>3, <1>5, RequestEnds
<1>6. CASE ~Done(p)
  <2>1. Live(h.customer)
      BY <1>6 DEF ReadCustomer, Done
  <2>2. row.state = "live"
      BY <2>1 DEF Live
  <2>3. CASE h.patch.email \notin {Keep, row.email}
    <3>1. office' = [office EXCEPT ![p] = [h EXCEPT !.at = "otherEmail", !.seen = row]]
        BY <2>1, <2>3 DEF ReadCustomer
    <3> QED
        BY <1>4, <2>2, <3>1
  <2>4. CASE h.patch.email \in {Keep, row.email}
    <3>1. LegalStep(row, h.patch)
        BY <1>6, <2>1, <2>4 DEF ReadCustomer, Done
    <3>2. office' = [office EXCEPT ![p] = [h EXCEPT !.at = "writeCustomer", !.seen = row]]
        BY <2>1, <2>4, <3>1 DEF ReadCustomer
    <3> QED
        BY <1>4, <2>2, <3>1, <3>2
  <2> QED
      BY <2>3, <2>4
<1> QED
    BY <1>5, <1>6

LEMMA OtherEmailStep ==
    ASSUME CustomersInv, NEW p \in OfficeCall, LookUpOtherEmail(p)
    PROVE  CustomersInv'
<1>0. CustomersTypeOK
    BY DEF CustomersInv
<1> DEFINE h == office[p]
<1>1. h \in Updating /\ h.at = "otherEmail"
    BY <1>0, HandlerKinds DEF LookUpOtherEmail, CustomersTypeOK
<1>2. UpdateSound(h) /\ UNCHANGED officeRows
    BY DEF CustomersInv, LookUpOtherEmail
<1>3. CASE Done(p)
    BY <1>2, <1>3, RequestEnds
<1>4. CASE ~Done(p)
  <2>1. LegalStep(h.seen, h.patch) /\ OnTo(p, "writeCustomer")
      BY <1>4 DEF LookUpOtherEmail
  <2>2. PICK g : g = [h EXCEPT !.at = "writeCustomer"]
      OBVIOUS
  <2>3. office' = [office EXCEPT ![p] = g] /\ g \in OfficeHandler
      BY <1>0, <1>1, <2>1, <2>2, NextOfficeStep
  <2>4. g.at = "writeCustomer" /\ g.seen = h.seen /\ g.customer = h.customer
        /\ g.patch = h.patch /\ g.version = h.version
      BY <1>1, <2>2 DEF Updating
  <2>5. UpdateSound(g)
      BY <1>1, <1>2, <2>1, <2>4 DEF UpdateSound
  <2> QED
      BY <1>2, <2>3, <2>5, RequestMoves
<1> QED
    BY <1>3, <1>4

\* Every step of the back office keeps the invariant.
LEMMA CustomersStep == CustomersInv /\ [CustomersNext]_customerVars => CustomersInv'
<1> SUFFICES ASSUME CustomersInv, [CustomersNext]_customerVars PROVE CustomersInv'
    OBVIOUS
<1>1. CASE UNCHANGED customerVars
  <2>1. CustomersTypeOK' /\ LiveCustomersDistinct'
      BY <1>1 DEF customerVars, CustomersInv, CustomersTypeOK, LiveCustomersDistinct, Live
  <2>2. ASSUME NEW p \in OfficeCall PROVE UpdateSound(office[p])'
      BY <1>1 DEF customerVars, CustomersInv, UpdateSound
  <2> QED
      BY <1>1, <2>1, <2>2 DEF customerVars, CustomersInv
<1>2. ASSUME NEW p \in OfficeCall, OfficeCrash(p) PROVE CustomersInv'
    BY <1>2, RequestEnds DEF OfficeCrash
<1>3. CASE CustomersNext
    BY <1>2, <1>3, CreateSteps, InsertStep, UpdateStep, ReadStep, OtherEmailStep, WriteStep,
       SoftDeleteStep DEF CustomersNext
<1> QED
    BY <1>1, <1>3

\* The inductive invariant holds of the back office's customers at any time.
THEOREM CustomersSafe == CustomersSpec => []CustomersInv
BY CustomersInitInv, CustomersStep, PTL DEF CustomersSpec

\* Whatever requests overlap and crash and whatever versions they carry, no two customers
\* that are not deleted share an address or an id, and the audit log is the whole KYC
\* history of every customer to whom no update ahead of its row was committed.
THEOREM CustomersStayCoherent == CustomersSpec => []CustomersCoherent
<1>1. CustomersInv => CustomersCoherent
    BY TrailForms DEF CustomersInv, CustomersCoherent
<1> QED
    BY <1>1, CustomersSafe, PTL

\* Customers and their requests keep their types.
THEOREM CustomersTypeCorrect == CustomersSpec => []CustomersTypeOK
<1>1. CustomersInv => CustomersTypeOK
    BY DEF CustomersInv
<1> QED
    BY <1>1, CustomersSafe, PTL

\* The three ways a stored row may change: a patch merged into the row itself, or into
\* the older one a request ahead of it has read, a deletion, or not at all.
RowEvolves(c) ==
    \/ customers'[c] = customers[c]
    \/ \E p \in OfficeCall :
         /\ office[p].at = "writeCustomer" /\ office[p].customer = c /\ office[p].patch \in Patch
         /\ VersionHolds(p) /\ office'[p] = NoOffice
         /\ ~Ahead(p) => LegalStep(customers[c], office[p].patch)
         /\ customers'[c] = Committed(p)
    \/ /\ Live(c)
       /\ customers'[c] = [customers[c] EXCEPT !.state = "deleted", !.version = @ + 1]

LEMMA RowsEvolve ==
    ASSUME CustomersInv, CustomersNext, NEW c \in Customer, customers[c] # NoCustomer
    PROVE  RowEvolves(c)
<1>0. CustomersTypeOK
    BY DEF CustomersInv
<1>1. CASE customers'[c] = customers[c]
    BY <1>1 DEF RowEvolves
<1>2. ASSUME NEW p \in OfficeCall, WriteCustomer(p), customers'[c] # customers[c]
      PROVE  RowEvolves(c)
  <2> DEFINE h == office[p]
             new == Merged(h.seen, h.patch)
  <2>1. /\ h.at = "writeCustomer" /\ VersionHolds(p)
        /\ customers' = [customers EXCEPT ![h.customer] =
                           [new EXCEPT !.version = customers[h.customer].version + 1]]
      BY <1>2 DEF WriteCustomer, officeRows
  <2>2. h.customer = c
      BY <1>0, <1>2, <2>1 DEF CustomersTypeOK
  <2>3. /\ h.patch \in Patch /\ LegalStep(h.seen, h.patch)
        /\ ~Ahead(p) => h.seen = customers[c]
      BY <2>1, <2>2, CommitOverSeen
  <2>4. customers'[c] = [new EXCEPT !.version = customers[c].version + 1]
      BY <1>0, <2>1, <2>2 DEF CustomersTypeOK
  <2>5. office'[p] = NoOffice
      BY <1>0, <1>2 DEF WriteCustomer, Done, CustomersTypeOK
  <2>6. customers'[c] = Committed(p)
      BY <2>2, <2>3, <2>4 DEF Committed
  <2> QED
      BY <2>1, <2>2, <2>3, <2>4, <2>5, <2>6 DEF RowEvolves
<1>3. ASSUME NEW d \in Customer, SoftDelete(d), customers'[c] # customers[c]
      PROVE  RowEvolves(c)
  <2>1. d = c
      BY <1>0, <1>3 DEF SoftDelete, CustomersTypeOK
  <2> QED
      BY <1>0, <1>3, <2>1 DEF SoftDelete, CustomersTypeOK, RowEvolves
<1>4. ASSUME NEW p \in OfficeCall, NEW d \in Customer, InsertCustomer(p, d)
      PROVE  customers'[c] = customers[c]
    BY <1>0, <1>4 DEF InsertCustomer, CustomersTypeOK
<1>5. ASSUME NEW p \in OfficeCall,
             \/ \E email \in Email, id \in NationalId : CreateCustomer(p, email, id)
             \/ LookUpEmail(p) \/ LookUpNationalId(p)
             \/ \E d \in Customer, version \in 0 .. VersionCap, patch \in Patch :
                  UpdateCustomer(p, d, patch, version)
             \/ ReadCustomer(p) \/ LookUpOtherEmail(p) \/ OfficeCrash(p)
      PROVE  customers'[c] = customers[c]
    BY <1>5 DEF CreateCustomer, LookUpEmail, LookUpNationalId, UpdateCustomer, Call,
       ReadCustomer, LookUpOtherEmail, OfficeCrash, officeRows
<1> QED
    BY <1>1, <1>2, <1>3, <1>4, <1>5 DEF CustomersNext

\* However updates overlap, every committed update is its patch applied to the row it
\* replaces, along the KYC matrix and never out of CLOSED, unless its version ran ahead of
\* the row it was checked on, and then it is its patch applied to that row; a deleted
\* customer never changes again, whatever versions requests carry.
THEOREM CustomersEvolveLegally == CustomersSpec => CustomersEvolve
<1> DEFINE Merges == \A c \in Customer :
         Live(c) /\ Live(c)' /\ customers'[c] # customers[c] =>
           \E p \in OfficeCall :
             /\ office[p].at = "writeCustomer" /\ office[p].customer = c
             /\ customers'[c] = Committed(p)
           Outrun(c) == \E p \in OfficeCall :
                 /\ office[p].at = "writeCustomer" /\ office[p].customer = c
                 /\ Ahead(p) /\ VersionHolds(p) /\ office'[p] = NoOffice
           Legal == \A c \in Customer : customers[c] # NoCustomer =>
         /\ customers[c].state = "deleted" => customers'[c] = customers[c]
         /\ \/ /\ isKycTransitionAllowed(customers[c].kyc, customers'[c].kyc)
               /\ customers[c].status = "CLOSED" => customers'[c].status = "CLOSED"
            \/ Outrun(c)
<1>1. CustomersInv /\ CustomersNext => Merges
  <2> SUFFICES ASSUME CustomersInv, CustomersNext, NEW c \in Customer,
                      Live(c), Live(c)', customers'[c] # customers[c]
               PROVE  \E p \in OfficeCall :
                        /\ office[p].at = "writeCustomer" /\ office[p].customer = c
                        /\ customers'[c] = Committed(p)
      OBVIOUS
  <2>1. customers[c] \in CustomerRow /\ customers[c] # NoCustomer
      BY RowKinds DEF Live, CustomersInv, CustomersTypeOK
  <2>2. customers'[c] # [customers[c] EXCEPT !.state = "deleted", !.version = @ + 1]
      BY <2>1 DEF Live, CustomerRow
  <2>3. RowEvolves(c)
      BY <2>1, RowsEvolve
  <2> QED
      BY <2>2, <2>3 DEF RowEvolves
<1>2. CustomersInv /\ CustomersNext => Legal
  <2> SUFFICES ASSUME CustomersInv, CustomersNext, NEW c \in Customer, customers[c] # NoCustomer
               PROVE  /\ customers[c].state = "deleted" => customers'[c] = customers[c]
                      /\ \/ /\ isKycTransitionAllowed(customers[c].kyc, customers'[c].kyc)
                            /\ customers[c].status = "CLOSED" => customers'[c].status = "CLOSED"
                         \/ Outrun(c)
      OBVIOUS
  <2>1. customers[c] \in CustomerRow
      BY RowKinds DEF CustomersInv, CustomersTypeOK
  <2>2. CASE customers'[c] = customers[c]
      BY <2>2 DEF isKycTransitionAllowed
  <2>3. ASSUME NEW p \in OfficeCall, office[p].at = "writeCustomer", office[p].customer = c,
               office[p].patch \in Patch, VersionHolds(p), office'[p] = NoOffice,
               ~Ahead(p) => LegalStep(customers[c], office[p].patch),
               customers'[c] = Committed(p)
        PROVE  /\ customers[c].state # "deleted"
               /\ \/ /\ isKycTransitionAllowed(customers[c].kyc, customers'[c].kyc)
                     /\ customers[c].status = "CLOSED" => customers'[c].status = "CLOSED"
                  \/ Outrun(c)
    <3>1. customers[c].state = "live"
        BY <2>3 DEF VersionHolds, Live
    <3>2. CASE Ahead(p)
        BY <2>3, <3>1, <3>2
    <3>3. CASE ~Ahead(p)
      <4> DEFINE new == Merged(customers[c], office[p].patch)
      <4>1. new.kyc = Chosen(office[p].patch.kyc, customers[c].kyc)
            /\ new.status = Chosen(office[p].patch.status, customers[c].status)
            /\ [new EXCEPT !.version = customers[c].version + 1] = new
          BY <2>1, <2>3, MergedRow
      <4>2. customers'[c] = new
          BY <2>3, <3>3, <4>1 DEF Committed
      <4> HIDE DEF new
      <4> QED
          BY <2>3, <3>1, <3>3, <4>1, <4>2 DEF LegalStep
    <3> QED
        BY <3>2, <3>3
  <2>4. CASE Live(c) /\ customers'[c] = [customers[c] EXCEPT !.state = "deleted", !.version = @ + 1]
    <3>1. customers'[c].kyc = customers[c].kyc /\ customers'[c].status = customers[c].status
        BY <2>1, <2>4 DEF CustomerRow
    <3> QED
        BY <2>4, <3>1 DEF Live, isKycTransitionAllowed
  <2> HIDE DEF Outrun
  <2>5. RowEvolves(c)
      BY RowsEvolve
  <2> QED
      BY <2>2, <2>3, <2>4, <2>5 DEF RowEvolves
<1> HIDE DEF Merges, Legal
<1>3. CustomersSpec => [][Merges]_customerVars /\ [][Legal]_customerVars
    BY <1>1, <1>2, CustomersSafe, PTL DEF CustomersSpec
<1> QED
    BY <1>3, PTL DEF CustomersEvolve, UpdatesMerge, LifecycleLegal, Merges, Legal

-----------------------------------------------------------------------------
(* The rate limiter *)

\* The requests let through at a time of at least lo, and of those at most hi.
LetThrough(lo, hi) == {i \in DOMAIN admitted : lo <= admitted[i] /\ admitted[i] <= hi}

\* The first tick of the counter's life.
CounterStart == hitExpiry - TtlTicks

\* The inductive invariant of the limiter: the present counter's budget, and the
\* one before it as far as a window may still reach back.
ThrottlerInv ==
    /\ ThrottlerTypeOK
    /\ HitsLive => hitCount >= 1
    /\ CounterStart <= throttleTime
    /\ \A i \in DOMAIN admitted : admitted[i] <= throttleTime /\ admitted[i] < hitExpiry
    /\ Cardinality(LetThrough(CounterStart, throttleTime)) <= HitLimit
    /\ Cardinality(LetThrough(CounterStart, throttleTime)) <= hitCount
    /\ Cardinality(LetThrough(CounterStart - TtlTicks, CounterStart - 1)) <= HitLimit
    /\ RateBounded

LEMMA ThrottlerConstants ==
    /\ TtlTicks \in Nat /\ TtlTicks >= 1 /\ HitLimit \in Nat /\ HitLimit >= 1
    /\ BlockTicks \in Nat /\ ThrottleBound \in Nat /\ ThrottleBound >= 1
<1>1. \A n \in Nat \ {0} : n >= 1
    OBVIOUS
<1> QED
    BY <1>1, ThrottlerAssumption

\* Sets of positions are finite, and a smaller set counts less.
LEMMA CountMonotone ==
    ASSUME NEW s \in Seq(1..ThrottleBound), NEW S, NEW T, S \subseteq T, T \subseteq DOMAIN s
    PROVE  /\ IsFiniteSet(T) /\ IsFiniteSet(S)
           /\ Cardinality(S) \in Nat /\ Cardinality(T) \in Nat
           /\ Cardinality(S) <= Cardinality(T)
<1>1. DOMAIN s = 1 .. Len(s) /\ Len(s) \in Nat
    OBVIOUS
<1>2. IsFiniteSet(DOMAIN s)
    BY <1>1, FS_Interval
<1>3. IsFiniteSet(T)
    BY <1>2, FS_Subset
<1> QED
    BY <1>3, FS_Subset, FS_CardinalityType

\* Two sets count at least as much as what they cover together.
LEMMA CountCovered ==
    ASSUME NEW s \in Seq(1..ThrottleBound), NEW S, NEW T, NEW U,
           S \subseteq DOMAIN s, T \subseteq DOMAIN s, U \subseteq S \cup T
    PROVE  Cardinality(U) <= Cardinality(S) + Cardinality(T)
<1>1. /\ IsFiniteSet(S) /\ IsFiniteSet(T) /\ IsFiniteSet(S \cap T)
      /\ Cardinality(S) \in Nat /\ Cardinality(T) \in Nat
    BY CountMonotone
<1>2. Cardinality(U) \in Nat /\ Cardinality(S \cup T) \in Nat /\ Cardinality(U) <= Cardinality(S \cup T)
  <2>1. S \cup T \subseteq DOMAIN s
      OBVIOUS
  <2> QED
      BY <2>1, CountMonotone
<1>3. Cardinality(S \cap T) \in Nat
    BY <1>1, FS_CardinalityType
<1>4. Cardinality(S \cup T) = Cardinality(S) + Cardinality(T) - Cardinality(S \cap T)
    BY <1>1, FS_Union
<1> QED
    BY <1>1, <1>2, <1>3, <1>4

\* One request more counts at most one more.
LEMMA CountOneMore ==
    ASSUME NEW s \in Seq(1..ThrottleBound), NEW S, NEW T, NEW k,
           S \subseteq DOMAIN s, T \subseteq S \cup {k}
    PROVE  Cardinality(T) \in Nat /\ Cardinality(T) <= Cardinality(S) + 1
<1>1. IsFiniteSet(S) /\ Cardinality(S) \in Nat
    BY CountMonotone
<1>2. IsFiniteSet(S \cup {k}) /\ Cardinality(S \cup {k}) \in Nat
      /\ Cardinality(S \cup {k}) <= Cardinality(S) + 1
  <2>1. Cardinality(S \cup {k}) = IF k \in S THEN Cardinality(S) ELSE Cardinality(S) + 1
      BY <1>1, FS_AddElement
  <2>2. IsFiniteSet(S \cup {k})
      BY <1>1, FS_AddElement
  <2> QED
      BY <1>1, <2>1, <2>2
<1> QED
    BY <1>1, <1>2, FS_Subset, FS_CardinalityType

LEMMA ThrottlerNumbers ==
    ASSUME ThrottlerTypeOK
    PROVE  /\ hitCount \in Nat /\ hitExpiry \in Nat /\ blockExpiry \in Nat
           /\ throttleTime \in Nat /\ throttleTime \in 1..ThrottleBound
           /\ admitted \in Seq(1..ThrottleBound)
<1>1. throttleTime \in 1..ThrottleBound /\ ThrottleBound \in Nat
    BY ThrottlerConstants, Zenon DEF ThrottlerTypeOK
<1>2. throttleTime \in Nat
    BY <1>1
<1> QED
    BY <1>1, <1>2, Zenon DEF ThrottlerTypeOK

LEMMA ThrottlerInitInv == ThrottlerInit => ThrottlerInv
<1> SUFFICES ASSUME ThrottlerInit PROVE ThrottlerInv
    OBVIOUS
<1>1. \A lo, hi : LetThrough(lo, hi) = {}
    BY DEF ThrottlerInit, LetThrough
<1>2. Cardinality({}) = 0
    BY FS_EmptySet
<1>3. RateBounded
  <2> SUFFICES ASSUME NEW t \in 1..ThrottleBound
               PROVE  Cardinality({i \in DOMAIN admitted : admitted[i] \in t..(t + TtlTicks - 1)})
                        <= 2 * HitLimit
      BY DEF RateBounded
  <2>1. {i \in DOMAIN admitted : admitted[i] \in t..(t + TtlTicks - 1)} = {}
      BY DEF ThrottlerInit
  <2>2. 0 <= 2 * HitLimit
      BY ThrottlerConstants
  <2> QED
      BY <1>2, <2>1, <2>2
<1>4. ThrottlerTypeOK
    BY ThrottlerConstants DEF ThrottlerInit, ThrottlerTypeOK
<1>5. admitted = <<>> /\ \A i \in DOMAIN admitted : FALSE
    BY DEF ThrottlerInit
<1>6. hitCount = 0 /\ hitExpiry = 0 /\ throttleTime = 1
    BY DEF ThrottlerInit
<1>7. /\ HitsLive => hitCount >= 1
      /\ CounterStart <= throttleTime
    BY <1>6, ThrottlerConstants DEF HitsLive, CounterStart
<1>8. /\ Cardinality(LetThrough(CounterStart, throttleTime)) <= HitLimit
      /\ Cardinality(LetThrough(CounterStart, throttleTime)) <= hitCount
      /\ Cardinality(LetThrough(CounterStart - TtlTicks, CounterStart - 1)) <= HitLimit
    BY <1>1, <1>2, <1>6, ThrottlerConstants
<1> QED
    BY <1>3, <1>4, <1>5, <1>7, <1>8 DEF ThrottlerInv

LEMMA IncrementCounts ==
    ASSUME Increment
    PROVE  hitCount' = NextHits /\ hitExpiry' = ExpiryAfter(NextHits) /\ throttleTime' = throttleTime
BY Zenon DEF Increment

LEMMA IncrementLets ==
    ASSUME Increment, Within(NextHits)
    PROVE  /\ admitted' = Append(admitted, throttleTime)
           /\ verdict' = "let through" /\ blockExpiry' = blockExpiry
BY Zenon DEF Increment

LEMMA IncrementBlocks ==
    ASSUME Increment, ~Within(NextHits)
    PROVE  /\ admitted' = admitted
           /\ verdict' = "blocked" /\ blockExpiry' = throttleTime + BlockTicks
BY Zenon DEF Increment

LEMMA IncrementTypes ==
    ASSUME ThrottlerTypeOK, Increment PROVE ThrottlerTypeOK'
<1>1. hitCount' \in Nat /\ hitExpiry' \in Nat
    BY ThrottlerNumbers, ThrottlerConstants, IncrementCounts DEF NextHits, ExpiryAfter
<1>2. /\ blockExpiry' \in Nat /\ admitted' \in Seq(1..ThrottleBound)
      /\ verdict' \in {"none", "let through", "blocked"}
  <2>1. CASE Within(NextHits)
    <3>1. /\ admitted \in Seq(1..ThrottleBound) /\ throttleTime \in 1..ThrottleBound
          /\ admitted' = Append(admitted, throttleTime)
        BY <2>1, ThrottlerNumbers, IncrementLets
    <3>2. admitted' \in Seq(1..ThrottleBound)
        BY <3>1
    <3> QED
        BY <2>1, <3>2, ThrottlerNumbers, IncrementLets
  <2>2. CASE ~Within(NextHits)
    <3>1. blockExpiry' \in Nat
        BY <2>2, ThrottlerNumbers, ThrottlerConstants, IncrementBlocks
    <3> QED
        BY <2>2, <3>1, ThrottlerNumbers, IncrementBlocks
  <2> QED
      BY <2>1, <2>2
<1>3. redisUp' \in BOOLEAN /\ throttleTime' \in 1..ThrottleBound
    BY Zenon DEF Increment, ThrottlerTypeOK
<1> QED
    BY <1>1, <1>2, <1>3, Zenon DEF ThrottlerTypeOK

\* A request let through under the live counter.
LEMMA SameCounterStep ==
    ASSUME ThrottlerInv, Increment, HitsLive PROVE ThrottlerInv'
<1>0. /\ TtlTicks \in Nat /\ HitLimit \in Nat /\ HitLimit >= 1 /\ TtlTicks >= 1
      /\ hitCount \in Nat /\ hitExpiry \in Nat /\ throttleTime \in Nat
      /\ throttleTime \in 1..ThrottleBound /\ admitted \in Seq(1..ThrottleBound)
    BY ThrottlerConstants, ThrottlerNumbers DEF ThrottlerInv
<1>1. /\ hitCount' = hitCount + 1 /\ hitCount + 1 # 1
      /\ hitExpiry' = hitExpiry /\ throttleTime' = throttleTime
      /\ CounterStart' = CounterStart /\ CounterStart \in Int
  <2>1. hitCount >= 1 /\ NextHits = hitCount + 1
      BY DEF ThrottlerInv, NextHits
  <2> QED
      BY <1>0, <2>1, IncrementCounts DEF ExpiryAfter, CounterStart
<1>2. ThrottlerTypeOK'
    BY IncrementTypes DEF ThrottlerInv
<1>3. CASE UNCHANGED admitted
  <2>1. \A lo, hi : LetThrough(lo, hi)' = LetThrough(lo, hi)
      BY <1>3 DEF LetThrough
  <2>2. RateBounded'
      BY <1>3 DEF ThrottlerInv, RateBounded
  <2>3. Cardinality(LetThrough(CounterStart, throttleTime)) \in Nat
      BY <1>0, CountMonotone DEF LetThrough
  <2>4. LetThrough(CounterStart, throttleTime)' = LetThrough(CounterStart, throttleTime)
      BY <1>1, <1>3 DEF LetThrough
  <2>5. LetThrough(CounterStart - TtlTicks, CounterStart - 1)'
          = LetThrough(CounterStart - TtlTicks, CounterStart - 1)
      BY <1>1, <1>3 DEF LetThrough
  <2> QED
      BY <1>0, <1>1, <1>2, <1>3, <2>2, <2>3, <2>4, <2>5 DEF ThrottlerInv, HitsLive
<1>4. CASE ~UNCHANGED admitted
  <2>1. admitted' = Append(admitted, throttleTime) /\ hitCount + 1 <= HitLimit
    <3>1. Within(NextHits)
        BY <1>4, IncrementBlocks
    <3> QED
        BY <3>1, IncrementLets DEF Within, NextHits
  <2>2. PICK k : k = Len(admitted) + 1
      OBVIOUS
  <2>3. /\ admitted \in Seq(1..ThrottleBound) /\ DOMAIN admitted = 1 .. Len(admitted)
        /\ Len(admitted) \in Nat
        /\ DOMAIN admitted' = (DOMAIN admitted) \cup {k} /\ k \notin DOMAIN admitted
        /\ admitted'[k] = throttleTime /\ \A i \in DOMAIN admitted : admitted'[i] = admitted[i]
      BY <1>0, <2>1, <2>2
  <2>4. LetThrough(CounterStart, throttleTime)' \subseteq LetThrough(CounterStart, throttleTime) \cup {k}
      BY <1>1, <2>3 DEF LetThrough
  <2>5. /\ Cardinality(LetThrough(CounterStart, throttleTime)) \in Nat
        /\ Cardinality(LetThrough(CounterStart, throttleTime)') \in Nat
        /\ Cardinality(LetThrough(CounterStart, throttleTime)')
             <= Cardinality(LetThrough(CounterStart, throttleTime)) + 1
    <3>1. LetThrough(CounterStart, throttleTime) \subseteq DOMAIN admitted
        BY DEF LetThrough
    <3> QED
        BY <2>3, <2>4, <3>1, CountOneMore, CountMonotone
  <2>6. CounterStart <= throttleTime
      BY DEF ThrottlerInv
  <2>7. LetThrough(CounterStart - TtlTicks, CounterStart - 1)'
          = LetThrough(CounterStart - TtlTicks, CounterStart - 1)
    <3>1. ~(throttleTime <= CounterStart - 1)
        BY <1>0, <1>1, <2>6
    <3> QED
        BY <1>1, <2>3, <3>1 DEF LetThrough
  <2>8. RateBounded'
    <3> SUFFICES ASSUME NEW t \in 1..ThrottleBound
                 PROVE  Cardinality({i \in DOMAIN admitted' : admitted'[i] \in t..(t + TtlTicks - 1)})
                          <= 2 * HitLimit
        BY DEF RateBounded
    <3> DEFINE W == {i \in DOMAIN admitted' : admitted'[i] \in t..(t + TtlTicks - 1)}
    <3>1. CASE throttleTime \notin t..(t + TtlTicks - 1)
      <4>1. W = {i \in DOMAIN admitted : admitted[i] \in t..(t + TtlTicks - 1)}
          BY <2>3, <3>1
      <4> QED
          BY <4>1 DEF ThrottlerInv, RateBounded
    <3>2. CASE throttleTime \in t..(t + TtlTicks - 1)
      <4> DEFINE A == LetThrough(CounterStart, throttleTime)'
                 B == LetThrough(CounterStart - TtlTicks, CounterStart - 1)
      <4>1. CounterStart - TtlTicks <= t /\ t \in Int
          BY <1>0, <1>1, <2>6, <3>2, ThrottlerConstants
      <4>2. \A i \in DOMAIN admitted' : admitted'[i] \in Int /\ admitted'[i] <= throttleTime
          BY <1>0, <2>3, ThrottlerConstants DEF ThrottlerInv
      <4>3. W \subseteq A \cup B
        <5> SUFFICES ASSUME NEW i \in W, i \notin A PROVE i \in B
            OBVIOUS
        <5>1. i \in DOMAIN admitted' /\ admitted'[i] >= t /\ admitted'[i] < CounterStart
            BY <1>1, <4>1, <4>2 DEF LetThrough
        <5>2. i \in DOMAIN admitted /\ admitted[i] = admitted'[i]
            BY <1>0, <1>1, <2>3, <2>6, <5>1
        <5> QED
            BY <1>0, <1>1, <4>1, <4>2, <5>1, <5>2 DEF LetThrough
      <4>4. A \subseteq DOMAIN admitted' /\ B \subseteq DOMAIN admitted'
          BY <2>3 DEF LetThrough
      <4>5. admitted' \in Seq(1..ThrottleBound)
          BY <1>2 DEF ThrottlerTypeOK
      <4>6. Cardinality(W) <= Cardinality(A) + Cardinality(B)
          BY <4>3, <4>4, <4>5, CountCovered
      <4>7. Cardinality(A) \in Nat /\ Cardinality(B) \in Nat /\ Cardinality(W) \in Nat
          BY <4>4, <4>5, CountMonotone
      <4>8. Cardinality(A) <= HitLimit /\ Cardinality(B) <= HitLimit
          BY <1>0, <2>1, <2>5 DEF ThrottlerInv
      <4> HIDE DEF A, B, W
      <4>9. Cardinality(W) <= 2 * HitLimit
          BY <1>0, <4>6, <4>7, <4>8
      <4> QED
          BY <4>9 DEF W
    <3> QED
        BY <3>1, <3>2
  <2>9. \A i \in DOMAIN admitted' : admitted'[i] <= throttleTime' /\ admitted'[i] < hitExpiry'
      BY <1>0, <1>1, <2>3 DEF ThrottlerInv, HitsLive
  <2> QED
      BY <1>0, <1>1, <1>2, <2>1, <2>5, <2>6, <2>7, <2>8, <2>9 DEF ThrottlerInv, HitsLive
<1> QED
    BY <1>3, <1>4

\* The first request of a new counter: the old one's life is over, and only its
\* budget can be left in a window that reaches the new one.
LEMMA FreshCounterStep ==
    ASSUME ThrottlerInv, Increment, ~HitsLive PROVE ThrottlerInv'
<1>0. /\ TtlTicks \in Nat /\ HitLimit \in Nat /\ HitLimit >= 1 /\ TtlTicks >= 1
      /\ hitCount \in Nat /\ hitExpiry \in Nat /\ throttleTime \in Nat
      /\ throttleTime \in 1..ThrottleBound /\ admitted \in Seq(1..ThrottleBound)
      /\ CounterStart \in Int
    BY ThrottlerConstants, ThrottlerNumbers DEF ThrottlerInv, CounterStart
<1>1. NextHits = 1 /\ Within(NextHits)
    BY <1>0 DEF NextHits, Within
<1>2. /\ hitCount' = 1 /\ hitExpiry' = throttleTime + TtlTicks /\ throttleTime' = throttleTime
      /\ CounterStart' = throttleTime
      /\ admitted' = Append(admitted, throttleTime)
  <2>1. hitCount' = 1 /\ hitExpiry' = throttleTime + TtlTicks /\ throttleTime' = throttleTime
      BY <1>1, IncrementCounts DEF ExpiryAfter
  <2>2. CounterStart' = throttleTime
      BY <1>0, <2>1 DEF CounterStart
  <2> QED
      BY <1>1, <2>1, <2>2, IncrementLets
<1>3. ThrottlerTypeOK'
    BY IncrementTypes DEF ThrottlerInv
<1>4. PICK k : k = Len(admitted) + 1
    OBVIOUS
<1>5. /\ DOMAIN admitted = 1 .. Len(admitted) /\ Len(admitted) \in Nat
      /\ DOMAIN admitted' = (DOMAIN admitted) \cup {k} /\ k \notin DOMAIN admitted
      /\ admitted'[k] = throttleTime /\ \A i \in DOMAIN admitted : admitted'[i] = admitted[i]
    BY <1>0, <1>2, <1>4
<1>6. \A i \in DOMAIN admitted : /\ admitted[i] \in Int /\ admitted[i] <= throttleTime
                                 /\ admitted[i] < hitExpiry /\ admitted[i] < throttleTime
  <2>1. hitExpiry <= throttleTime
      BY <1>0 DEF HitsLive
  <2>2. \A i \in DOMAIN admitted : admitted[i] \in Int
      BY <1>0, ThrottlerConstants
  <2> QED
      BY <1>0, <2>1, <2>2 DEF ThrottlerInv
<1>7. /\ Cardinality(LetThrough(CounterStart, throttleTime)') \in Nat
      /\ Cardinality(LetThrough(CounterStart, throttleTime)') <= 1
  <2>1. PICK S : S = {}
      OBVIOUS
  <2>2. LetThrough(CounterStart, throttleTime)' \subseteq S \cup {k}
      BY <1>0, <1>2, <1>5, <1>6 DEF LetThrough
  <2>3. Cardinality(S) = 0 /\ S \subseteq DOMAIN admitted
      BY <2>1, FS_EmptySet
  <2>4. PICK T : T = LetThrough(CounterStart, throttleTime)'
      OBVIOUS
  <2>5. T \subseteq S \cup {k}
      BY <2>2, <2>4
  <2>6. Cardinality(T) \in Nat /\ Cardinality(T) <= Cardinality(S) + 1
      BY <1>0, <2>3, <2>5, CountOneMore
  <2>7. Cardinality(T) <= 1
      BY <2>3, <2>6
  <2> QED
      BY <2>4, <2>6, <2>7
<1>8. /\ LetThrough(throttleTime - TtlTicks, throttleTime - 1)
           \subseteq LetThrough(CounterStart, throttleTime)
      /\ LetThrough(CounterStart - TtlTicks, CounterStart - 1)'
           = LetThrough(throttleTime - TtlTicks, throttleTime - 1)
  <2>1. CounterStart <= throttleTime - TtlTicks
      BY <1>0 DEF CounterStart, HitsLive
  <2>2. ASSUME NEW i \in LetThrough(throttleTime - TtlTicks, throttleTime - 1)
        PROVE  i \in LetThrough(CounterStart, throttleTime)
      BY <1>0, <1>6, <2>1 DEF LetThrough
  <2>3. LetThrough(CounterStart - TtlTicks, CounterStart - 1)'
           = LetThrough(throttleTime - TtlTicks, throttleTime - 1)
      BY <1>0, <1>2, <1>5 DEF LetThrough
  <2> QED
      BY <2>2, <2>3
<1>9. Cardinality(LetThrough(throttleTime - TtlTicks, throttleTime - 1)) \in Nat
      /\ Cardinality(LetThrough(throttleTime - TtlTicks, throttleTime - 1)) <= HitLimit
  <2>1. LetThrough(CounterStart, throttleTime) \subseteq DOMAIN admitted
      BY DEF LetThrough
  <2>2. /\ Cardinality(LetThrough(CounterStart, throttleTime)) \in Nat
        /\ Cardinality(LetThrough(throttleTime - TtlTicks, throttleTime - 1)) \in Nat
        /\ Cardinality(LetThrough(throttleTime - TtlTicks, throttleTime - 1))
             <= Cardinality(LetThrough(CounterStart, throttleTime))
      BY <1>0, <1>8, <2>1, CountMonotone
  <2>3. Cardinality(LetThrough(CounterStart, throttleTime)) <= HitLimit
      BY DEF ThrottlerInv
  <2> QED
      BY <1>0, <2>2, <2>3
<1>10. RateBounded'
  <2> SUFFICES ASSUME NEW t \in 1..ThrottleBound
               PROVE  Cardinality({i \in DOMAIN admitted' : admitted'[i] \in t..(t + TtlTicks - 1)})
                        <= 2 * HitLimit
      BY DEF RateBounded
  <2> DEFINE W == {i \in DOMAIN admitted' : admitted'[i] \in t..(t + TtlTicks - 1)}
             B == LetThrough(throttleTime - TtlTicks, throttleTime - 1)
  <2>1. CASE throttleTime \notin t..(t + TtlTicks - 1)
    <3>1. W = {i \in DOMAIN admitted : admitted[i] \in t..(t + TtlTicks - 1)}
        BY <1>5, <2>1
    <3> QED
        BY <3>1 DEF ThrottlerInv, RateBounded
  <2>2. CASE throttleTime \in t..(t + TtlTicks - 1)
    <3>1. throttleTime - TtlTicks <= t /\ t \in Int
        BY <1>0, <2>2
    <3>2. W \subseteq B \cup {k}
      <4> SUFFICES ASSUME NEW i \in W, i # k PROVE i \in B
          OBVIOUS
      <4>1. i \in DOMAIN admitted /\ admitted'[i] = admitted[i] /\ admitted[i] >= t
          BY <1>5, <1>6, <3>1
      <4> QED
          BY <1>0, <1>6, <3>1, <4>1 DEF LetThrough
    <3>3. B \subseteq DOMAIN admitted
        BY DEF LetThrough
    <3>4. Cardinality(W) \in Nat /\ Cardinality(W) <= Cardinality(B) + 1
        BY <1>0, <3>2, <3>3, CountOneMore
    <3> HIDE DEF W
    <3>5. Cardinality(W) <= 2 * HitLimit
        BY <1>0, <1>9, <3>4
    <3> QED
        BY <3>5 DEF W
  <2> QED
      BY <2>1, <2>2
<1>11. \A i \in DOMAIN admitted' : admitted'[i] <= throttleTime' /\ admitted'[i] < hitExpiry'
  <2> SUFFICES ASSUME NEW i \in DOMAIN admitted'
               PROVE  admitted'[i] <= throttleTime /\ admitted'[i] < throttleTime + TtlTicks
      BY <1>2
  <2>1. CASE i = k
      BY <1>0, <1>5, <2>1
  <2>2. CASE i # k
    <3>1. admitted'[i] = admitted[i] /\ i \in DOMAIN admitted
        BY <1>5, <2>2
    <3> QED
        BY <1>0, <1>6, <3>1
  <2> QED
      BY <2>1, <2>2
<1>12. Cardinality(LetThrough(CounterStart - TtlTicks, CounterStart - 1)') <= HitLimit
    BY <1>8, <1>9
<1>13. /\ Cardinality(LetThrough(CounterStart, throttleTime)') <= HitLimit
       /\ Cardinality(LetThrough(CounterStart, throttleTime)') <= hitCount'
       /\ CounterStart' <= throttleTime' /\ (HitsLive' => hitCount' >= 1)
    BY <1>0, <1>2, <1>7
<1> QED
    BY <1>3, <1>10, <1>11, <1>12, <1>13 DEF ThrottlerInv

\* Time passes: the counter of today may die, and nothing else changes.
LEMMA ThrottleTickStep ==
    ASSUME ThrottlerInv, ThrottleTick PROVE ThrottlerInv'
<1>0. /\ TtlTicks \in Nat /\ hitCount \in Nat /\ hitExpiry \in Nat /\ throttleTime \in Nat
      /\ ThrottleBound \in Nat /\ admitted \in Seq(1..ThrottleBound) /\ CounterStart \in Int
      /\ blockExpiry \in Nat
    BY ThrottlerConstants, ThrottlerNumbers DEF ThrottlerInv, CounterStart
<1>1. /\ throttleTime' = throttleTime + 1 /\ throttleTime < ThrottleBound
      /\ hitCount' = hitCount /\ hitExpiry' = hitExpiry /\ blockExpiry' = blockExpiry
      /\ admitted' = admitted
    BY Zenon DEF ThrottleTick
<1>2. ThrottlerTypeOK'
  <2>1. redisUp' \in BOOLEAN /\ verdict' \in {"none", "let through", "blocked"}
      BY Zenon DEF ThrottleTick, ThrottlerInv, ThrottlerTypeOK
  <2>2. throttleTime' \in 1..ThrottleBound
      BY <1>0, <1>1
  <2>3. /\ hitCount' \in Nat /\ hitExpiry' \in Nat /\ blockExpiry' \in Nat
        /\ admitted' \in Seq(1..ThrottleBound)
      BY <1>0, <1>1
  <2> QED
      BY <2>1, <2>2, <2>3, Zenon DEF ThrottlerTypeOK
<1>3. \A i \in DOMAIN admitted : admitted[i] \in Int
    BY <1>0
<1>4. LetThrough(CounterStart, throttleTime)' = LetThrough(CounterStart, throttleTime)
  <2>1. \A i \in DOMAIN admitted : admitted[i] <= throttleTime
      BY DEF ThrottlerInv
  <2>2. CounterStart' = CounterStart
      BY <1>1 DEF CounterStart
  <2> QED
      BY <1>0, <1>1, <1>3, <2>1, <2>2 DEF LetThrough
<1>5. LetThrough(CounterStart - TtlTicks, CounterStart - 1)'
        = LetThrough(CounterStart - TtlTicks, CounterStart - 1)
    BY <1>1 DEF LetThrough, CounterStart
<1>6. RateBounded'
    BY <1>1 DEF ThrottlerInv, RateBounded
<1>7. \A i \in DOMAIN admitted' : admitted'[i] <= throttleTime' /\ admitted'[i] < hitExpiry'
    BY <1>0, <1>1, <1>3 DEF ThrottlerInv
<1>8. (HitsLive' => hitCount' >= 1) /\ CounterStart' <= throttleTime'
    BY <1>0, <1>1 DEF ThrottlerInv, HitsLive, CounterStart
<1> QED
    BY <1>1, <1>2, <1>4, <1>5, <1>6, <1>7, <1>8 DEF ThrottlerInv

\* Answers that touch neither the counter nor the clock.
LEMMA ThrottlerRests ==
    ASSUME ThrottlerInv, UNCHANGED <<hitCount, hitExpiry, throttleTime, admitted>>,
           blockExpiry' \in Nat, redisUp' \in BOOLEAN,
           verdict' \in {"none", "let through", "blocked"}
    PROVE  ThrottlerInv'
<1>1. ThrottlerTypeOK'
    BY Zenon DEF ThrottlerInv, ThrottlerTypeOK
<1>2. /\ LetThrough(CounterStart, throttleTime)' = LetThrough(CounterStart, throttleTime)
      /\ LetThrough(CounterStart - TtlTicks, CounterStart - 1)'
           = LetThrough(CounterStart - TtlTicks, CounterStart - 1)
    BY DEF LetThrough, CounterStart
<1>3. RateBounded'
    BY DEF ThrottlerInv, RateBounded
<1> QED
    BY <1>1, <1>2, <1>3 DEF ThrottlerInv, HitsLive, CounterStart

LEMMA ThrottlerStep == ThrottlerInv /\ [ThrottlerNext]_throttleVars => ThrottlerInv'
<1> SUFFICES ASSUME ThrottlerInv, [ThrottlerNext]_throttleVars PROVE ThrottlerInv'
    OBVIOUS
<1>0. blockExpiry \in Nat /\ redisUp \in BOOLEAN /\ verdict \in {"none", "let through", "blocked"}
    BY Zenon DEF ThrottlerInv, ThrottlerTypeOK
<1>1. CASE HitWhileBlocked
    BY <1>0, <1>1, ThrottlerRests DEF HitWhileBlocked
<1>2. CASE Increment
    BY <1>2, SameCounterStep, FreshCounterStep
<1>3. CASE IncrementFails
    BY <1>0, <1>3, ThrottlerRests DEF IncrementFails, FailClosed
<1>4. CASE RedisFlips
  <2>1. redisUp' \in BOOLEAN
      BY <1>4, Zenon DEF RedisFlips
  <2> QED
      BY <1>0, <1>4, <2>1, ThrottlerRests DEF RedisFlips
<1>5. CASE ThrottleTick
    BY <1>5, ThrottleTickStep
<1>6. CASE UNCHANGED throttleVars
    BY <1>0, <1>6, ThrottlerRests DEF throttleVars
<1> QED
    BY <1>1, <1>2, <1>3, <1>4, <1>5, <1>6 DEF ThrottlerNext

\* For every limit, life of the counter and block, whenever counters expire and
\* whatever Redis does, all API instances together let through at most two budgets
\* in any window of a counter's length.
THEOREM RateStaysBounded == ThrottlerSpec => []RateBounded
<1>1. ThrottlerInv => RateBounded
    BY DEF ThrottlerInv
<1> QED
    BY <1>1, ThrottlerInitInv, ThrottlerStep, PTL DEF ThrottlerSpec

\* The counter, its expiry and the block stay in range.
THEOREM ThrottlerTypeCorrect == ThrottlerSpec => []ThrottlerTypeOK
<1>1. ThrottlerInv => ThrottlerTypeOK
    BY DEF ThrottlerInv
<1> QED
    BY <1>1, ThrottlerInitInv, ThrottlerStep, PTL DEF ThrottlerSpec

-----------------------------------------------------------------------------
(* Live events *)

\* The events a stream has received.
GotSet(s) == {s.got[k] : k \in DOMAIN s.got}

\* An event is excused from a stream on other instances than the one that emitted
\* it: the publish failed, or the message is on its way.
OnItsWay(s, n) ==
    /\ emitted[n].origin \notin s.on
    /\ n \in unpublished \/ \E i \in s.on : <<n, i>> \in channel

\* What holds of an open stream: nothing received twice, nothing out of scope, no
\* message on its way that would repeat what is there, and nothing missing.
StreamSound(s) ==
    s.at = "open" =>
        /\ \E i \in Instance : s.on = {i}
        /\ \A j, k \in DOMAIN s.got : s.got[j] = s.got[k] => j = k
        /\ \A n \in GotSet(s) :
             /\ n \in DOMAIN emitted
             /\ InScope(emitted[n], s.subject)
             /\ \A i \in s.on : <<n, i>> \in channel => emitted[n].origin = i
        /\ \A n \in DOMAIN emitted : n > s.since /\ InScope(emitted[n], s.subject) =>
             n \in GotSet(s) \/ OnItsWay(s, n)

\* The inductive invariant of the live events.
LiveInv == LiveTypeOK /\ \A b \in Browser : StreamSound(source[b])

\* One event more on a stream.
LEMMA StreamGrows ==
    ASSUME NEW s \in Source, NEW n \in 1..EventBound,
           NEW r, r = [s EXCEPT !.got = Append(@, n)]
    PROVE  /\ r \in Source
           /\ r.at = s.at /\ r.subject = s.subject /\ r.on = s.on /\ r.since = s.since
           /\ GotSet(r) = GotSet(s) \cup {n}
           /\ n \notin GotSet(s) /\ (\A j, k \in DOMAIN s.got : s.got[j] = s.got[k] => j = k) =>
                \A j, k \in DOMAIN r.got : r.got[j] = r.got[k] => j = k
<1>1. s.got \in Seq(1..EventBound)
    BY DEF Source
<1>2. Append(s.got, n) \in Seq(1..EventBound)
    BY <1>1
<1>3. /\ r \in Source /\ r.got = Append(s.got, n)
      /\ r.at = s.at /\ r.subject = s.subject /\ r.on = s.on /\ r.since = s.since
    BY <1>2 DEF Source
<1>4. /\ DOMAIN s.got = 1 .. Len(s.got) /\ Len(s.got) \in Nat
      /\ DOMAIN r.got = 1 .. (Len(s.got) + 1)
      /\ r.got[Len(s.got) + 1] = n
      /\ \A k \in 1 .. Len(s.got) : r.got[k] = s.got[k]
    BY <1>1, <1>3
<1>5. GotSet(r) = GotSet(s) \cup {n}
    BY <1>4 DEF GotSet
<1>6. ASSUME n \notin GotSet(s), \A j, k \in DOMAIN s.got : s.got[j] = s.got[k] => j = k,
             NEW j \in DOMAIN r.got, NEW k \in DOMAIN r.got, r.got[j] = r.got[k]
      PROVE  j = k
    BY <1>4, <1>6 DEF GotSet
<1> QED
    BY <1>3, <1>5, <1>6

LEMMA LiveInitInv == LiveInit => LiveInv
<1> SUFFICES ASSUME LiveInit PROVE LiveInv
    OBVIOUS
<1>1. NoSource \in Source
    BY LiveEventsAssumption DEF NoSource, Source
<1>2. LiveTypeOK
    BY <1>1, LiveEventsAssumption DEF LiveInit, LiveTypeOK
<1>3. ASSUME NEW b \in Browser PROVE StreamSound(source[b])
    BY DEF LiveInit, StreamSound, NoSource
<1> QED
    BY <1>2, <1>3 DEF LiveInv

\* Steps of one browser leave the others' streams and the messages alone.
LEMMA BrowserStep ==
    ASSUME LiveInv, NEW b \in Browser, NEW s \in Source, StreamSound(s),
           source' = [source EXCEPT ![b] = s],
           signedIn' \in [Browser -> LiveUser \cup {Everyone}],
           streamCookie' \in [Browser -> LiveUser \cup {Everyone}],
           UNCHANGED <<emitted, channel, unpublished, foreign>>
    PROVE  LiveInv'
<1>1. LiveTypeOK'
    BY DEF LiveInv, LiveTypeOK
<1>2. ASSUME NEW d \in Browser PROVE StreamSound(source[d])'
  <2>1. StreamSound(source'[d])
      BY DEF LiveInv, LiveTypeOK
  <2> QED
      BY <2>1 DEF StreamSound, GotSet, OnItsWay, InScope
<1> QED
    BY <1>1, <1>2 DEF LiveInv

LEMMA BrowserSteps ==
    ASSUME LiveInv, NEW b \in Browser,
           \/ \E u \in LiveUser : OpenShell(b, u)
           \/ \E i \in Instance : OpenEventSource(b, i)
           \/ CloseShell(b) \/ AuthorizeStream(b) \/ StreamCookieExpires(b) \/ StreamDrops(b)
    PROVE  LiveInv'
<1>0. /\ LiveTypeOK /\ StreamSound(source[b]) /\ source[b] \in Source
      /\ source \in [Browser -> Source]
      /\ signedIn \in [Browser -> LiveUser \cup {Everyone}]
      /\ streamCookie \in [Browser -> LiveUser \cup {Everyone}]
    BY DEF LiveInv, LiveTypeOK
<1>1. ASSUME NEW u \in LiveUser, OpenShell(b, u) PROVE LiveInv'
  <2>1. PICK s : s = [source[b] EXCEPT !.at = IF @ = "off" THEN "authorize" ELSE @]
      OBVIOUS
  <2>2. s \in Source /\ (s = source[b] \/ s.at = "authorize")
      BY <1>0, <2>1 DEF Source
  <2>3. StreamSound(s)
      BY <1>0, <2>2 DEF StreamSound
  <2>4. source' = [source EXCEPT ![b] = s]
      BY <1>0, <1>1, <2>1 DEF OpenShell
  <2> QED
      BY <1>0, <1>1, <2>2, <2>3, <2>4, BrowserStep DEF OpenShell
<1>2. ASSUME NEW i \in Instance, OpenEventSource(b, i) PROVE LiveInv'
  <2>1. PICK s : s = [at |-> "open", subject |-> streamCookie[b], on |-> {i},
                      got |-> <<>>, since |-> Len(emitted)]
      OBVIOUS
  <2>2. /\ emitted \in Seq(Event) /\ Len(emitted) \in Nat /\ Len(emitted) <= EventBound
        /\ DOMAIN emitted = 1 .. Len(emitted)
      BY <1>0 DEF LiveTypeOK
  <2>3. s \in Source
      BY <1>0, <2>1, <2>2, LiveEventsAssumption DEF Source
  <2>4. StreamSound(s)
    <3>1. DOMAIN s.got = {} /\ GotSet(s) = {} /\ s.on = {i} /\ s.since = Len(emitted)
        BY <2>1 DEF GotSet
    <3>2. \A n \in DOMAIN emitted : ~(n > s.since)
        BY <2>2, <3>1
    <3> QED
        BY <3>1, <3>2 DEF StreamSound
  <2> QED
      BY <1>0, <1>2, <2>1, <2>3, <2>4, BrowserStep DEF OpenEventSource
<1>3. CASE CloseShell(b) \/ StreamCookieExpires(b)
  <2>1. source' = [source EXCEPT ![b] = source[b]]
      BY <1>0, <1>3 DEF CloseShell, StreamCookieExpires
  <2> QED
      BY <1>0, <1>3, <2>1, BrowserStep DEF CloseShell, StreamCookieExpires
<1>4. CASE AuthorizeStream(b)
  <2>1. PICK s : s = [source[b] EXCEPT !.at = "handshake"]
      OBVIOUS
  <2>2. s \in Source /\ s.at = "handshake"
      BY <1>0, <2>1 DEF Source
  <2>3. StreamSound(s)
      BY <2>2 DEF StreamSound
  <2> QED
      BY <1>0, <1>4, <2>1, <2>2, <2>3, BrowserStep DEF AuthorizeStream
<1>5. CASE StreamDrops(b)
  <2>1. PICK s : s = [NoSource EXCEPT !.at = "authorize"]
      OBVIOUS
  <2>2. s \in Source /\ s.at = "authorize"
    <3>1. NoSource \in Source
        BY LiveEventsAssumption DEF NoSource, Source
    <3> QED
        BY <2>1, <3>1 DEF Source
  <2>3. StreamSound(s)
      BY <2>2 DEF StreamSound
  <2> QED
      BY <1>0, <1>5, <2>1, <2>2, <2>3, BrowserStep DEF StreamDrops
<1> QED
    BY <1>1, <1>2, <1>3, <1>4, <1>5

\* The n-th event, delivered on instance i, reaches every stream that has not had it.
LEMMA DeliverStreams ==
    ASSUME LiveTypeOK, NEW n \in 1..EventBound, NEW e, NEW i \in Instance, Deliver(n, e, i),
           NEW b \in Browser
    PROVE  /\ source'[b] \in Source
           /\ b \in Receivers(e, i) => source'[b] = [source[b] EXCEPT !.got = Append(@, n)]
           /\ b \notin Receivers(e, i) => source'[b] = source[b]
<1>1. source[b] \in Source
    BY DEF LiveTypeOK
<1>2. CASE b \in Receivers(e, i)
  <2>1. source'[b] = [source[b] EXCEPT !.got = Append(@, n)]
      BY <1>2 DEF Deliver
  <2> QED
      BY <1>1, <1>2, <2>1, StreamGrows
<1>3. CASE b \notin Receivers(e, i)
    BY <1>1, <1>3 DEF Deliver
<1> QED
    BY <1>2, <1>3

LEMMA EmitStep ==
    ASSUME LiveInv, NEW i \in Instance, NEW to \in LiveUser \cup {Everyone}, EmitEvent(i, to)
    PROVE  LiveInv'
<1> DEFINE n == Len(emitted) + 1
           e == [to |-> to, origin |-> i]
<1>0. /\ LiveTypeOK /\ emitted \in Seq(Event) /\ Len(emitted) \in Nat /\ DOMAIN emitted = 1 .. Len(emitted)
      /\ channel \subseteq (DOMAIN emitted) \X Instance
      /\ source \in [Browser -> Source]
    BY DEF LiveInv, LiveTypeOK
<1>1. PICK m : m = n
    OBVIOUS
<1>2. /\ m \in 1..EventBound /\ e \in Event /\ m \notin DOMAIN emitted /\ m = Len(emitted) + 1
    BY <1>0, <1>1, LiveEventsAssumption DEF EmitEvent, Event
<1>3. /\ emitted' = Append(emitted, e) /\ Deliver(m, e, i)
      /\ signedIn' = signedIn /\ streamCookie' = streamCookie
    BY <1>1 DEF EmitEvent
<1>4. \/ channel' = channel \cup ({m} \X Instance) /\ unpublished' = unpublished
      \/ unpublished' = unpublished \cup {m} /\ channel' = channel
    BY <1>1 DEF EmitEvent
<1>5. /\ emitted' \in Seq(Event) /\ Len(emitted') = m /\ DOMAIN emitted' = (DOMAIN emitted) \cup {m}
      /\ emitted'[m] = e /\ \A k \in DOMAIN emitted : emitted'[k] = emitted[k]
    BY <1>0, <1>2, <1>3
<1>6. LiveTypeOK'
  <2>1. source' \in [Browser -> Source]
    <3>1. \A b \in Browser : source'[b] \in Source
        BY <1>0, <1>2, <1>3, DeliverStreams
    <3>2. source' = [b \in Browser |-> source'[b]]
        BY <1>3 DEF Deliver
    <3> QED
        BY <3>1, <3>2
  <2>2. foreign' \subseteq Browser
      BY <1>0, <1>3 DEF Deliver, Receivers, LiveTypeOK
  <2>3. channel' \subseteq (DOMAIN emitted') \X Instance
      BY <1>0, <1>4, <1>5
  <2>4. unpublished' \subseteq DOMAIN emitted'
      BY <1>0, <1>4, <1>5 DEF LiveTypeOK
  <2>5. Len(emitted') <= EventBound
      BY <1>2, <1>5, LiveEventsAssumption
  <2> QED
      BY <1>0, <1>3, <1>5, <2>1, <2>2, <2>3, <2>4, <2>5 DEF LiveTypeOK
<1>7. ASSUME NEW b \in Browser PROVE StreamSound(source[b])'
  <2>1. PICK s, r : s = source[b] /\ r = source'[b]
      OBVIOUS
  <2>2. s \in Source /\ StreamSound(s)
      BY <1>0, <2>1 DEF LiveInv
  <2>3. /\ r.at = s.at /\ r.subject = s.subject /\ r.on = s.on /\ r.since = s.since
        /\ b \in Receivers(e, i) => r = [s EXCEPT !.got = Append(@, m)]
        /\ b \notin Receivers(e, i) => r = s
    <3>1. /\ b \in Receivers(e, i) => r = [s EXCEPT !.got = Append(@, m)]
          /\ b \notin Receivers(e, i) => r = s
        BY <1>0, <1>3, <2>1 DEF Deliver
    <3>2. CASE b \in Receivers(e, i)
        BY <1>2, <2>2, <3>1, <3>2, StreamGrows
    <3> QED
        BY <3>1, <3>2
  <2> SUFFICES ASSUME r.at = "open"
               PROVE  /\ \E j \in Instance : r.on = {j}
                      /\ \A j, k \in DOMAIN r.got : r.got[j] = r.got[k] => j = k
                      /\ \A k \in GotSet(r) :
                           /\ k \in DOMAIN emitted'
                           /\ InScope(emitted'[k], r.subject)
                           /\ \A j \in r.on : <<k, j>> \in channel' => emitted'[k].origin = j
                      /\ \A k \in DOMAIN emitted' : k > r.since /\ InScope(emitted'[k], r.subject) =>
                           \/ k \in GotSet(r)
                           \/ /\ emitted'[k].origin \notin r.on
                              /\ k \in unpublished' \/ \E j \in r.on : <<k, j>> \in channel'
      BY <2>1 DEF StreamSound, GotSet, OnItsWay, InScope
  <2>4. /\ \E j \in Instance : s.on = {j}
        /\ \A j, k \in DOMAIN s.got : s.got[j] = s.got[k] => j = k
        /\ \A k \in GotSet(s) :
             /\ k \in DOMAIN emitted
             /\ InScope(emitted[k], s.subject)
             /\ \A j \in s.on : <<k, j>> \in channel => emitted[k].origin = j
        /\ \A k \in DOMAIN emitted : k > s.since /\ InScope(emitted[k], s.subject) =>
             k \in GotSet(s) \/ OnItsWay(s, k)
      BY <2>2, <2>3 DEF StreamSound
  <2>5. m \notin GotSet(s)
      BY <1>2, <2>4
  <2>6. b \in Receivers(e, i) <=> i \in s.on /\ InScope(e, s.subject)
      BY <2>1, <2>3 DEF Receivers
  <2>7. /\ GotSet(r) = IF b \in Receivers(e, i) THEN GotSet(s) \cup {m} ELSE GotSet(s)
        /\ \A j, k \in DOMAIN r.got : r.got[j] = r.got[k] => j = k
      BY <1>2, <2>2, <2>3, <2>4, <2>5, StreamGrows
  <2>8. \A k \in DOMAIN emitted, j \in Instance : <<k, j>> \in channel' <=> <<k, j>> \in channel
      BY <1>2, <1>4
  <2>9. \A k \in DOMAIN emitted : k \in unpublished' <=> k \in unpublished
      BY <1>2, <1>4
  <2>10. ASSUME NEW k \in GotSet(r)
         PROVE  /\ k \in DOMAIN emitted'
                /\ InScope(emitted'[k], r.subject)
                /\ \A j \in r.on : <<k, j>> \in channel' => emitted'[k].origin = j
    <3>1. CASE k = m
        BY <1>5, <2>3, <2>4, <2>5, <2>6, <2>7, <3>1 DEF InScope
    <3>2. CASE k # m
      <4>1. k \in GotSet(s) /\ k \in DOMAIN emitted
          BY <2>4, <2>7, <3>2
      <4> QED
          BY <1>5, <2>3, <2>4, <2>8, <4>1
    <3> QED
        BY <3>1, <3>2
  <2>11. ASSUME NEW k \in DOMAIN emitted', k > r.since, InScope(emitted'[k], r.subject),
                k \notin GotSet(r)
         PROVE  /\ emitted'[k].origin \notin r.on
                /\ k \in unpublished' \/ \E j \in r.on : <<k, j>> \in channel'
    <3>1. CASE k = m
      <4>1. emitted'[k] = e /\ e.origin = i
          BY <1>5, <3>1
      <4>2. i \notin r.on
          BY <2>3, <2>6, <2>7, <2>11, <3>1, <4>1
      <4>3. PICK j \in Instance : r.on = {j}
          BY <2>3, <2>4
      <4> QED
          BY <1>4, <3>1, <4>1, <4>2, <4>3
    <3>2. CASE k # m
      <4>1. k \in DOMAIN emitted /\ emitted'[k] = emitted[k] /\ k \notin GotSet(s)
          BY <1>5, <2>7, <2>11, <3>2
      <4>2. OnItsWay(s, k)
          BY <2>3, <2>4, <2>11, <4>1
      <4> QED
          BY <2>3, <2>4, <2>8, <2>9, <4>1, <4>2 DEF OnItsWay
    <3> QED
        BY <3>1, <3>2
  <2> QED
      BY <2>3, <2>4, <2>7, <2>10, <2>11
<1> QED
    BY <1>6, <1>7 DEF LiveInv

LEMMA RemoteStep ==
    ASSUME LiveInv, NEW i \in Instance, NEW n \in DOMAIN emitted, OnRemoteMessage(n, i)
    PROVE  LiveInv'
<1>0. /\ LiveTypeOK /\ emitted \in Seq(Event) /\ Len(emitted) \in Nat /\ DOMAIN emitted = 1 .. Len(emitted)
      /\ Len(emitted) <= EventBound
      /\ channel \subseteq (DOMAIN emitted) \X Instance
      /\ source \in [Browser -> Source]
    BY DEF LiveInv, LiveTypeOK
<1>1. /\ <<n, i>> \in channel /\ channel' = channel \ {<<n, i>>}
      /\ UNCHANGED <<emitted, unpublished, signedIn, streamCookie>>
    BY DEF OnRemoteMessage
<1>2. n \in 1..EventBound
    BY <1>0, LiveEventsAssumption
<1>3. /\ emitted[n].origin # i => Deliver(n, emitted[n], i)
      /\ emitted[n].origin = i => source' = source /\ foreign' = foreign
    BY DEF OnRemoteMessage, FromElsewhere
<1>4. LiveTypeOK'
  <2>1. source' \in [Browser -> Source] /\ foreign' \subseteq Browser
    <3>1. CASE emitted[n].origin = i
        BY <1>0, <1>3, <3>1 DEF LiveTypeOK
    <3>2. CASE emitted[n].origin # i
      <4>1. \A b \in Browser : source'[b] \in Source
          BY <1>0, <1>2, <1>3, <3>2, DeliverStreams
      <4>2. source' = [b \in Browser |-> source'[b]]
          BY <1>3, <3>2 DEF Deliver
      <4>3. foreign' \subseteq Browser
          BY <1>0, <1>3, <3>2 DEF Deliver, Receivers, LiveTypeOK
      <4> QED
          BY <4>1, <4>2, <4>3
    <3> QED
        BY <3>1, <3>2
  <2> QED
      BY <1>0, <1>1, <2>1 DEF LiveTypeOK
<1>5. ASSUME NEW b \in Browser PROVE StreamSound(source[b])'
  <2>1. PICK s, r : s = source[b] /\ r = source'[b]
      OBVIOUS
  <2>2. s \in Source /\ StreamSound(s)
      BY <1>0, <2>1 DEF LiveInv
  <2> DEFINE Hands == emitted[n].origin # i /\ b \in Receivers(emitted[n], i)
  <2>3. /\ Hands => r = [s EXCEPT !.got = Append(@, n)]
        /\ ~Hands => r = s
      BY <1>0, <1>3, <2>1 DEF Deliver
  <2>4. r.at = s.at /\ r.subject = s.subject /\ r.on = s.on /\ r.since = s.since
    <3>1. CASE Hands
        BY <1>2, <2>2, <2>3, <3>1, StreamGrows
    <3> QED
        BY <2>3, <3>1
  <2> SUFFICES ASSUME r.at = "open"
               PROVE  /\ \E j \in Instance : r.on = {j}
                      /\ \A j, k \in DOMAIN r.got : r.got[j] = r.got[k] => j = k
                      /\ \A k \in GotSet(r) :
                           /\ k \in DOMAIN emitted
                           /\ InScope(emitted[k], r.subject)
                           /\ \A j \in r.on : <<k, j>> \in channel' => emitted[k].origin = j
                      /\ \A k \in DOMAIN emitted : k > r.since /\ InScope(emitted[k], r.subject) =>
                           \/ k \in GotSet(r)
                           \/ /\ emitted[k].origin \notin r.on
                              /\ k \in unpublished \/ \E j \in r.on : <<k, j>> \in channel'
      BY <1>1, <2>1 DEF StreamSound, GotSet, OnItsWay, InScope
  <2>5. /\ \A j, k \in DOMAIN s.got : s.got[j] = s.got[k] => j = k
        /\ \A k \in GotSet(s) :
             /\ k \in DOMAIN emitted
             /\ InScope(emitted[k], s.subject)
             /\ \A j \in s.on : <<k, j>> \in channel => emitted[k].origin = j
        /\ \A k \in DOMAIN emitted : k > s.since /\ InScope(emitted[k], s.subject) =>
             k \in GotSet(s) \/ OnItsWay(s, k)
      BY <2>2, <2>4 DEF StreamSound
  <2>6. PICK o \in Instance : s.on = {o}
      BY <2>2, <2>4 DEF StreamSound
  <2>7. Hands <=> emitted[n].origin # i /\ o = i /\ InScope(emitted[n], s.subject)
      BY <2>1, <2>4, <2>6 DEF Receivers
  <2> HIDE DEF Hands
  <2>8. Hands => n \notin GotSet(s)
      BY <1>1, <2>5, <2>6, <2>7
  <2>9. /\ GotSet(r) = IF Hands THEN GotSet(s) \cup {n} ELSE GotSet(s)
        /\ \A j, k \in DOMAIN r.got : r.got[j] = r.got[k] => j = k
    <3>1. CASE Hands
        BY <1>2, <2>2, <2>3, <2>5, <2>8, <3>1, StreamGrows
    <3>2. CASE ~Hands
        BY <2>3, <2>5, <3>2
    <3> QED
        BY <3>1, <3>2
  <2>10. ASSUME NEW k \in GotSet(r)
         PROVE  /\ k \in DOMAIN emitted
                /\ InScope(emitted[k], r.subject)
                /\ \A j \in r.on : <<k, j>> \in channel' => emitted[k].origin = j
    <3>1. CASE k \in GotSet(s)
        BY <1>1, <2>4, <2>5, <3>1
    <3>2. CASE k \notin GotSet(s)
      <4>1. k = n /\ Hands
          BY <2>9, <3>2
      <4>2. <<k, o>> \notin channel'
          BY <1>1, <2>7, <4>1
      <4> QED
          BY <2>4, <2>6, <2>7, <4>1, <4>2
    <3> QED
        BY <3>1, <3>2
  <2>11. ASSUME NEW k \in DOMAIN emitted, k > r.since, InScope(emitted[k], r.subject),
                k \notin GotSet(r)
         PROVE  /\ emitted[k].origin \notin r.on
                /\ k \in unpublished \/ \E j \in r.on : <<k, j>> \in channel'
    <3>1. k \notin GotSet(s) /\ OnItsWay(s, k)
        BY <2>4, <2>5, <2>9, <2>11
    <3>2. emitted[k].origin # o /\ (k \in unpublished \/ <<k, o>> \in channel)
        BY <2>6, <3>1 DEF OnItsWay
    <3>3. ~(k = n /\ o = i)
        BY <2>4, <2>7, <2>9, <2>11, <3>2
    <3>4. <<k, o>> \in channel => <<k, o>> \in channel'
        BY <1>1, <3>3
    <3> QED
        BY <2>4, <2>6, <3>2, <3>4
  <2> QED
      BY <2>4, <2>6, <2>9, <2>10, <2>11
<1> QED
    BY <1>4, <1>5 DEF LiveInv

LEMMA LiveStep == LiveInv /\ [LiveNext]_liveVars => LiveInv'
<1> SUFFICES ASSUME LiveInv, [LiveNext]_liveVars PROVE LiveInv'
    OBVIOUS
<1>1. CASE UNCHANGED liveVars
  <2>1. LiveTypeOK'
      BY <1>1 DEF LiveInv, LiveTypeOK, liveVars
  <2>2. ASSUME NEW b \in Browser PROVE StreamSound(source[b])'
    <3>1. StreamSound(source[b]) /\ source'[b] = source[b]
        BY <1>1 DEF LiveInv, liveVars
    <3>2. UNCHANGED <<emitted, channel, unpublished>>
        BY <1>1 DEF liveVars
    <3> QED
        BY <3>1, <3>2 DEF StreamSound, GotSet, OnItsWay, InScope
  <2> QED
      BY <2>1, <2>2 DEF LiveInv
<1>2. CASE LiveNext
    BY <1>2, BrowserSteps, EmitStep, RemoteStep DEF LiveNext
<1> QED
    BY <1>1, <1>2

\* A stream that holds no event twice has received each at most once.
LEMMA ReceivedCount ==
    ASSUME LiveInv, NEW b \in Browser, source[b].at = "open", NEW n
    PROVE  Received(b, n) = IF n \in GotSet(source[b]) THEN 1 ELSE 0
<1> DEFINE S == {k \in DOMAIN source[b].got : source[b].got[k] = n}
<1>1. CASE n \in GotSet(source[b])
  <2>1. PICK k \in DOMAIN source[b].got : source[b].got[k] = n
      BY <1>1 DEF GotSet
  <2>2. S = {k}
      BY <2>1 DEF LiveInv, StreamSound
  <2> QED
      BY <1>1, <2>2, FS_Singleton DEF Received
<1>2. CASE n \notin GotSet(source[b])
  <2>1. S = {}
      BY <1>2 DEF GotSet
  <2> QED
      BY <1>2, <2>1, FS_EmptySet DEF Received
<1> QED
    BY <1>1, <1>2

\* With any number of instances, browsers and operators, whatever the interleaving of
\* emits, Redis messages and reconnections, an open stream receives every event in
\* its scope once, unless the publish failed or the message is on its way, and
\* nothing out of scope.
THEOREM EventsDeliveredOnce == LiveSpec => []DeliveredOnce
<1>1. LiveInv => DeliveredOnce
  <2> SUFFICES ASSUME LiveInv, NEW b \in Browser, NEW n \in DOMAIN emitted, source[b].at = "open"
               PROVE  IF ~InScope(emitted[n], source[b].subject) THEN Received(b, n) = 0
                      ELSE /\ Received(b, n) <= 1
                           /\ \/ n <= source[b].since
                              \/ Received(b, n) = 1
                              \/ n \in unpublished /\ emitted[n].origin \notin source[b].on
                              \/ \E i \in source[b].on : <<n, i>> \in channel
      BY DEF DeliveredOnce
  <2>1. StreamSound(source[b]) /\ source[b] \in Source /\ emitted \in Seq(Event)
      BY DEF LiveInv, LiveTypeOK
  <2>2. source[b].since \in Int /\ n \in Int
      BY <2>1 DEF Source
  <2>3. n <= source[b].since \/ n > source[b].since
      BY <2>2
  <2>4. CASE n \in GotSet(source[b])
    <3>1. InScope(emitted[n], source[b].subject)
        BY <2>1, <2>4 DEF StreamSound
    <3>2. Received(b, n) = 1
        BY <2>4, ReceivedCount
    <3> QED
        BY <3>1, <3>2
  <2>5. CASE n \notin GotSet(source[b])
    <3>1. Received(b, n) = 0
        BY <2>5, ReceivedCount
    <3>2. InScope(emitted[n], source[b].subject) =>
            n <= source[b].since \/ OnItsWay(source[b], n)
        BY <2>1, <2>3, <2>5 DEF StreamSound
    <3> QED
        BY <3>1, <3>2 DEF OnItsWay
  <2> QED
      BY <2>4, <2>5
<1> QED
    BY <1>1, LiveInitInv, LiveStep, PTL DEF LiveSpec

\* Streams hold and channels carry only events that were emitted.
THEOREM LiveTypeCorrect == LiveSpec => []LiveTypeOK
<1>1. LiveInv => LiveTypeOK
    BY DEF LiveInv
<1> QED
    BY <1>1, LiveInitInv, LiveStep, PTL DEF LiveSpec

\* What a page shows and keeps of a stream is the operator's who is signed in.
OwnStream(b) ==
    signedIn[b] # Everyone =>
        source[b].subject \in {signedIn[b], Everyone} /\ streamCookie[b] \in {signedIn[b], Everyone}
ClearedInv == foreign = {} /\ \A b \in Browser : OwnStream(b)

\* Delivery keeps the subjects, and finds nobody else signed in.
LEMMA DeliveredToOwner ==
    ASSUME LiveTypeOK, ClearedInv, NEW n, NEW e, NEW i, Deliver(n, e, i),
           UNCHANGED <<signedIn, streamCookie>>
    PROVE  ClearedInv'
<1>1. source \in [Browser -> Source]
    BY DEF LiveTypeOK
<1>2. ASSUME NEW b \in Browser PROVE source'[b].subject = source[b].subject
  <2>1. CASE b \in Receivers(e, i)
    <3>1. source'[b] = [source[b] EXCEPT !.got = Append(source[b].got, n)]
        BY <2>1 DEF Deliver
    <3> QED
        BY <1>1, <3>1 DEF Source
  <2>2. CASE b \notin Receivers(e, i)
      BY <2>2 DEF Deliver
  <2> QED
      BY <2>1, <2>2
<1>3. ASSUME NEW b \in Receivers(e, i), e.to # Everyone PROVE signedIn[b] \in {e.to, Everyone}
  <2>1. b \in Browser /\ source[b].subject = e.to
      BY <1>3 DEF Receivers, InScope
  <2> QED
      BY <1>3, <2>1 DEF ClearedInv, OwnStream
<1>4. foreign' = {}
    BY <1>3 DEF Deliver, ClearedInv
<1> QED
    BY <1>2, <1>4 DEF ClearedInv, OwnStream

LEMMA ClearedStep ==
    ASSUME LiveTypeOK, ClearedInv, [ClearedNext]_liveVars PROVE ClearedInv'
<1>0. /\ source \in [Browser -> Source]
      /\ signedIn \in [Browser -> LiveUser \cup {Everyone}]
      /\ streamCookie \in [Browser -> LiveUser \cup {Everyone}]
    BY DEF LiveTypeOK
<1>1. ASSUME UNCHANGED foreign, NEW b \in Browser, OwnStream(b)',
             \A c \in Browser \ {b} : /\ source'[c] = source[c] /\ signedIn'[c] = signedIn[c]
                                      /\ streamCookie'[c] = streamCookie[c]
      PROVE  ClearedInv'
    BY <1>1 DEF ClearedInv, OwnStream
<1>2. ASSUME NEW i \in Instance, NEW to \in LiveUser \cup {Everyone}, EmitEvent(i, to)
      PROVE  ClearedInv'
    BY <1>2, DeliveredToOwner DEF EmitEvent
<1>3. ASSUME NEW i \in Instance, NEW n \in DOMAIN emitted, OnRemoteMessage(n, i)
      PROVE  ClearedInv'
  <2>1. CASE FromElsewhere(n, i)
      BY <1>3, <2>1, DeliveredToOwner DEF OnRemoteMessage
  <2>2. CASE ~FromElsewhere(n, i)
      BY <1>3, <2>2 DEF OnRemoteMessage, ClearedInv, OwnStream
  <2> QED
      BY <2>1, <2>2
<1>4. ASSUME NEW b \in Browser, NEW u \in LiveUser, OpenShell(b, u), ClearedNext
      PROVE  ClearedInv'
  <2>1. signedIn'[b] = u /\ u # Everyone /\ signedIn[b] = Everyone
      BY <1>0, <1>4, LiveEventsAssumption DEF OpenShell
  <2>2. {source[b].subject, streamCookie[b]} \subseteq {u, Everyone}
      BY <1>4, <2>1 DEF ClearedNext
  <2>3. source'[b].subject = source[b].subject /\ UNCHANGED <<streamCookie, foreign>>
      BY <1>0, <1>4 DEF OpenShell, Source
  <2>4. OwnStream(b)'
      BY <2>1, <2>2, <2>3 DEF OwnStream
  <2> QED
      BY <1>0, <1>1, <1>4, <2>4 DEF OpenShell
<1>5. ASSUME NEW b \in Browser, CloseShell(b) PROVE ClearedInv'
  <2>1. OwnStream(b)'
      BY <1>0, <1>5 DEF CloseShell, OwnStream
  <2> QED
      BY <1>0, <1>1, <1>5, <2>1 DEF CloseShell
<1>6. ASSUME NEW b \in Browser, AuthorizeStream(b) PROVE ClearedInv'
  <2>1. source'[b].subject = source[b].subject /\ streamCookie'[b] = signedIn[b]
      BY <1>0, <1>6 DEF AuthorizeStream, Source
  <2>2. OwnStream(b)'
      BY <1>6, <2>1 DEF AuthorizeStream, OwnStream, ClearedInv
  <2> QED
      BY <1>0, <1>1, <1>6, <2>2 DEF AuthorizeStream
<1>7. ASSUME NEW b \in Browser, NEW i \in Instance, OpenEventSource(b, i) PROVE ClearedInv'
  <2>1. source'[b].subject = streamCookie[b]
      BY <1>0, <1>7 DEF OpenEventSource
  <2>2. OwnStream(b)'
      BY <1>7, <2>1 DEF OpenEventSource, OwnStream, ClearedInv
  <2> QED
      BY <1>0, <1>1, <1>7, <2>2 DEF OpenEventSource
<1>8. ASSUME NEW b \in Browser, StreamCookieExpires(b) PROVE ClearedInv'
  <2>1. OwnStream(b)'
      BY <1>0, <1>8 DEF StreamCookieExpires, OwnStream, ClearedInv
  <2> QED
      BY <1>0, <1>1, <1>8, <2>1 DEF StreamCookieExpires
<1>9. ASSUME NEW b \in Browser, StreamDrops(b) PROVE ClearedInv'
  <2>1. source'[b].subject = Everyone
      BY <1>0, <1>9 DEF StreamDrops, NoSource
  <2>2. OwnStream(b)'
      BY <1>9, <2>1 DEF StreamDrops, OwnStream, ClearedInv
  <2> QED
      BY <1>0, <1>1, <1>9, <2>2 DEF StreamDrops
<1>10. CASE UNCHANGED liveVars
    BY <1>10 DEF liveVars, ClearedInv, OwnStream
<1> QED
    BY <1>2, <1>3, <1>4, <1>5, <1>6, <1>7, <1>8, <1>9, <1>10 DEF ClearedNext, LiveNext

\* No operator is handed another's private event as long as one signs in on a page only
\* after stream and cookie of the one before are gone: the stream that outlives a sign-out
\* alone is behind the violation of NoForeignEvent.
THEOREM ClearedPagesKeepPrivacy == ClearedSpec => []NoForeignEvent
<1>1. LiveInit => ClearedInv
    BY DEF LiveInit, ClearedInv, OwnStream
<1>2. LiveTypeOK /\ ClearedInv /\ [ClearedNext]_liveVars => ClearedInv'
    BY ClearedStep
<1>3. ClearedInv => NoForeignEvent
    BY DEF ClearedInv, NoForeignEvent
<1>4. ClearedSpec => LiveSpec
  <2>1. [ClearedNext]_liveVars => [LiveNext]_liveVars
      BY DEF ClearedNext
  <2> QED
      BY <2>1, PTL DEF ClearedSpec, LiveSpec
<1> QED
    BY <1>1, <1>2, <1>3, <1>4, LiveTypeCorrect, PTL DEF ClearedSpec

-----------------------------------------------------------------------------
(* Notifications *)

EmitState ==
    [at : {"idle", "settings", "emit", "insert"}, byPreference : BOOLEAN, dedupe : BOOLEAN,
     actor : SUBSET NoteUser, on : SUBSET NoteUser, settled : SUBSET NoteUser,
     todo : SUBSET NoteUser, to : SUBSET NoteUser, seen : 0..NoteBound,
     checked : 0..NoteClockBound]

\* What a fan-out by preference knows between and after its two reads, of the users who
\* have not saved their settings since the first.
FanOutSound(e) ==
    /\ e.at = "settings" =>
         \A u \in e.settled : u \in e.on <=> pref[u] = "on"
    /\ e.at \in {"emit", "insert"} /\ e.byPreference =>
         \A u \in e.settled : u \in e.on <=> pref[u] # "off" /\ u \notin e.actor

\* The rows a de-duplication saw are out of the window, or another recipient's.
WindowClear(rows, seen, to, checked) ==
    \A i \in 1..seen : rows[i].to = to => rows[i].born < checked - DedupeTicks

InsertSound(e) ==
    e.at = "insert" =>
        e.seen <= Len(notes) /\ \A u \in e.to : WindowClear(notes, e.seen, u, e.checked)

NotesInv ==
    /\ notes \in Seq(Note) /\ Len(notes) <= NoteBound
    /\ pref \in [NoteUser -> {"on", "off", "absent"}]
    /\ noteClock \in 0..NoteClockBound
    /\ emits \in [EmitCall -> EmitState]
    /\ \A j \in EmitCall : FanOutSound(emits[j]) /\ InsertSound(emits[j])
    /\ \A k \in 1..Len(notes) :
         /\ notes[k].seen <= Len(notes)
         /\ WindowClear(notes, notes[k].seen, notes[k].to, notes[k].checked)

LEMMA NoteConstants == DedupeTicks \in Nat /\ NoteBound \in Nat /\ NoteClockBound \in Nat
BY NotificationsAssumption

LEMMA NoteZeros == 0 \in 0..NoteBound /\ 0 \in 0..NoteClockBound /\ {} \in SUBSET NoteUser
BY NoteConstants

LEMMA NoteNumbers == ASSUME NEW n \in Note
                     PROVE  n.seen \in Nat /\ n.born \in Nat /\ n.checked \in Nat
BY NoteConstants DEF Note

LEMMA IdleEmitState == IdleEmit \in EmitState /\ IdleEmit.at = "idle"
BY NoteConstants DEF IdleEmit, EmitState

LEMMA NoteInitInv == ASSUME NoteInit PROVE NotesInv
BY NoteConstants, IdleEmitState DEF NoteInit, NotesInv, FanOutSound, InsertSound

\* A step of one fan-out that adds no row.
LEMMA EmitMoves ==
    ASSUME NotesInv, NEW j \in EmitCall, NEW g \in EmitState,
           emits' = [emits EXCEPT ![j] = g], FanOutSound(g), InsertSound(g),
           UNCHANGED <<notes, pref, noteClock>>
    PROVE  NotesInv'
<1>1. emits' \in [EmitCall -> EmitState]
    BY DEF NotesInv
<1>2. ASSUME NEW k \in EmitCall PROVE FanOutSound(emits[k])' /\ InsertSound(emits[k])'
  <2>1. PICK e : e = emits'[k] /\ FanOutSound(e) /\ InsertSound(e)
      BY DEF NotesInv
  <2> QED
      BY <2>1 DEF FanOutSound, InsertSound, WindowClear
<1> QED
    BY <1>1, <1>2 DEF NotesInv, WindowClear

LEMMA PreferenceStep ==
    ASSUME NotesInv, NEW u \in NoteUser, NEW v \in {"on", "off"}, SavePreference(u, v)
    PROVE  NotesInv'
<1>1. /\ pref' = [pref EXCEPT ![u] = v]
      /\ emits' = [j \in EmitCall |-> [emits[j] EXCEPT !.settled = @ \ {u}]]
      /\ UNCHANGED <<notes, noteClock>>
    BY DEF SavePreference
<1>2. pref' \in [NoteUser -> {"on", "off", "absent"}]
    BY <1>1 DEF NotesInv
<1>3. ASSUME NEW j \in EmitCall
      PROVE  emits'[j] \in EmitState /\ FanOutSound(emits[j])' /\ InsertSound(emits[j])'
  <2>1. emits[j] \in EmitState /\ FanOutSound(emits[j]) /\ InsertSound(emits[j])
      BY DEF NotesInv
  <2>2. PICK g : g = [emits[j] EXCEPT !.settled = emits[j].settled \ {u}]
      OBVIOUS
  <2>3. emits[j].settled \ {u} \in SUBSET NoteUser
      BY <2>1 DEF EmitState
  <2>4. /\ g \in EmitState /\ g.at = emits[j].at /\ g.byPreference = emits[j].byPreference
        /\ g.actor = emits[j].actor /\ g.on = emits[j].on
        /\ g.settled = emits[j].settled \ {u} /\ g.to = emits[j].to
        /\ g.seen = emits[j].seen /\ g.checked = emits[j].checked
      BY <2>1, <2>2, <2>3 DEF EmitState
  <2>5. emits'[j] = g
      BY <1>1, <2>2
  <2>6. \A w \in g.settled : pref'[w] = pref[w] /\ w \in emits[j].settled
      BY <1>1, <2>1, <2>4 DEF NotesInv, EmitState
  <2>7. FanOutSound(emits[j])'
      BY <2>1, <2>4, <2>5, <2>6 DEF FanOutSound
  <2>8. InsertSound(emits[j])'
      BY <1>1, <2>1, <2>4, <2>5 DEF InsertSound, WindowClear
  <2> QED
      BY <2>4, <2>5, <2>7, <2>8
<1>4. emits' \in [EmitCall -> EmitState]
    BY <1>1, <1>3
<1> QED
    BY <1>1, <1>2, <1>3, <1>4 DEF NotesInv, WindowClear

LEMMA StartStep ==
    ASSUME NotesInv, NEW j \in EmitCall,
           \/ \E d \in BOOLEAN, A \in {{}} \cup {{u} : u \in NoteUser} : StartPreferenceFanOut(j, d, A)
           \/ \E d \in BOOLEAN, R \in SUBSET NoteUser : StartFanOut(j, d, R)
    PROVE  NotesInv'
<1>1. ASSUME NEW d \in BOOLEAN, NEW A \in {{}} \cup {{u} : u \in NoteUser},
             StartPreferenceFanOut(j, d, A)
      PROVE  NotesInv'
  <2>1. PICK S : S = {u \in NoteUser : pref[u] = "on"}
      OBVIOUS
  <2>2. PICK g : g = [IdleEmit EXCEPT !.at = "settings", !.byPreference = TRUE,
                            !.dedupe = d, !.actor = A, !.on = S, !.settled = NoteUser]
      OBVIOUS
  <2>3. A \in SUBSET NoteUser /\ S \in SUBSET NoteUser
      BY <2>1
  <2>4. g \in EmitState /\ g.at = "settings" /\ g.on = S /\ g.settled = NoteUser
    <3>1. PICK i : i = IdleEmit /\ i \in EmitState
        BY IdleEmitState
    <3>2. g = [i EXCEPT !.at = "settings", !.byPreference = TRUE,
                        !.dedupe = d, !.actor = A, !.on = S, !.settled = NoteUser]
        BY <2>2, <3>1
    <3> QED
        BY <2>3, <3>1, <3>2 DEF EmitState
  <2>5. FanOutSound(g) /\ InsertSound(g)
      BY <2>1, <2>4 DEF FanOutSound, InsertSound
  <2>6. emits' = [emits EXCEPT ![j] = g] /\ UNCHANGED <<notes, pref, noteClock>>
      BY <1>1, <2>1, <2>2 DEF StartPreferenceFanOut
  <2> QED
      BY <2>4, <2>5, <2>6, EmitMoves
<1>2. ASSUME NEW d \in BOOLEAN, NEW R \in SUBSET NoteUser, StartFanOut(j, d, R) PROVE NotesInv'
  <2>1. PICK g : g = [IdleEmit EXCEPT !.at = "emit", !.dedupe = d, !.todo = R]
      OBVIOUS
  <2>2. g \in EmitState /\ g.at = "emit" /\ g.settled = {}
    <3>1. PICK i : i = IdleEmit /\ i \in EmitState /\ i.settled = {}
        BY IdleEmitState DEF IdleEmit
    <3>2. g = [i EXCEPT !.at = "emit", !.dedupe = d, !.todo = R]
        BY <2>1, <3>1
    <3> QED
        BY <3>1, <3>2 DEF EmitState
  <2>3. FanOutSound(g) /\ InsertSound(g)
      BY <2>2 DEF FanOutSound, InsertSound
  <2>4. emits' = [emits EXCEPT ![j] = g] /\ UNCHANGED <<notes, pref, noteClock>>
      BY <1>2, <2>1 DEF StartFanOut
  <2> QED
      BY <2>2, <2>3, <2>4, EmitMoves
<1> QED
    BY <1>1, <1>2

LEMMA ReadWithoutRowStep == ASSUME NotesInv, NEW j \in EmitCall, ReadWithoutRow(j) PROVE NotesInv'
<1>1. PICK e : e = emits[j]
    OBVIOUS
<1>2. e \in EmitState /\ FanOutSound(e) /\ e.at = "settings"
    BY <1>1 DEF NotesInv, ReadWithoutRow
<1>3. PICK S : S = (e.on \cup WithoutRow) \ e.actor
    OBVIOUS
<1>4. S \in SUBSET NoteUser
    BY <1>2, <1>3 DEF EmitState, WithoutRow
<1>5. PICK g : g = [e EXCEPT !.at = "emit", !.on = S, !.todo = S]
    OBVIOUS
<1>6. /\ g \in EmitState /\ g.at = "emit" /\ g.on = S /\ g.settled = e.settled
      /\ g.actor = e.actor
    BY <1>2, <1>4, <1>5 DEF EmitState
<1>7. emits' = [emits EXCEPT ![j].at = "emit", ![j].on = S, ![j].todo = S]
    BY <1>1, <1>3 DEF ReadWithoutRow
<1>8. emits' = [emits EXCEPT ![j] = g]
    BY <1>1, <1>2, <1>5, <1>7 DEF NotesInv, EmitState
<1>9. FanOutSound(g)
  <2>1. ASSUME NEW u \in e.settled PROVE u \in S <=> pref[u] # "off" /\ u \notin e.actor
    <3>1. u \in NoteUser /\ (u \in e.on <=> pref[u] = "on") /\ pref[u] \in {"on", "off", "absent"}
        BY <1>2 DEF EmitState, FanOutSound, NotesInv
    <3> QED
        BY <1>3, <3>1 DEF WithoutRow
  <2> QED
      BY <1>6, <2>1 DEF FanOutSound
<1>10. InsertSound(g) /\ UNCHANGED <<notes, pref, noteClock>>
    BY <1>6 DEF InsertSound, ReadWithoutRow
<1> QED
    BY <1>6, <1>8, <1>9, <1>10, EmitMoves

LEMMA CheckDuplicateStep ==
    ASSUME NotesInv, NEW j \in EmitCall, NEW u \in NoteUser, CheckDuplicate(j, u) PROVE NotesInv'
<1>1. PICK e : e = emits[j]
    OBVIOUS
<1>2. e \in EmitState /\ FanOutSound(e) /\ e.at = "emit"
    BY <1>1 DEF NotesInv, CheckDuplicate
<1>3. PICK T : T = e.todo \ {u}
    OBVIOUS
<1>4. T \in SUBSET NoteUser
    BY <1>2, <1>3 DEF EmitState
<1>5. UNCHANGED <<notes, pref, noteClock>>
    BY DEF CheckDuplicate
<1>6. CASE e.dedupe /\ Recent(u) # {}
  <2>1. PICK g : g = [e EXCEPT !.todo = T]
      OBVIOUS
  <2>2. /\ g \in EmitState /\ g.at = "emit" /\ g.on = e.on /\ g.settled = e.settled
        /\ g.actor = e.actor /\ g.byPreference = e.byPreference
      BY <1>2, <1>4, <2>1 DEF EmitState
  <2>3. emits' = [emits EXCEPT ![j] = g]
      BY <1>1, <1>3, <1>6, <2>1 DEF CheckDuplicate
  <2>4. FanOutSound(g) /\ InsertSound(g)
      BY <1>2, <2>2 DEF FanOutSound, InsertSound
  <2> QED
      BY <1>5, <2>2, <2>3, <2>4, EmitMoves
<1>7. CASE ~(e.dedupe /\ Recent(u) # {})
  <2>1. PICK n : n = IF e.dedupe THEN Len(notes) ELSE 0
      OBVIOUS
  <2>2. n \in 0..NoteBound /\ n <= Len(notes) /\ noteClock \in 0..NoteClockBound
      BY <2>1, NoteConstants DEF NotesInv
  <2>3. PICK g : g = [e EXCEPT !.todo = T, !.at = "insert", !.to = {u}, !.seen = n,
                               !.checked = noteClock]
      OBVIOUS
  <2>4. /\ g \in EmitState /\ g.at = "insert" /\ g.on = e.on /\ g.settled = e.settled
        /\ g.actor = e.actor /\ g.byPreference = e.byPreference
        /\ g.to = {u} /\ g.seen = n /\ g.checked = noteClock
      BY <1>2, <1>4, <2>2, <2>3 DEF EmitState
  <2>5. emits' = [emits EXCEPT ![j].todo = T, ![j].at = "insert", ![j].to = {u}, ![j].seen = n,
                               ![j].checked = noteClock]
      BY <1>1, <1>3, <1>7, <2>1 DEF CheckDuplicate
  <2>6. emits' = [emits EXCEPT ![j] = g]
      BY <1>1, <1>2, <2>3, <2>5 DEF NotesInv, EmitState
  <2>7. WindowClear(notes, n, u, noteClock)
    <3>1. ASSUME NEW i \in 1..n, notes[i].to = u PROVE notes[i].born < noteClock - DedupeTicks
      <4>1. i \in DOMAIN notes /\ Recent(u) = {} /\ notes[i].born \in Nat
        <5>1. notes \in Seq(Note) /\ Len(notes) \in Nat /\ n # 0
            BY <2>2, <3>1, NoteConstants DEF NotesInv
        <5>2. e.dedupe
            BY <2>1, <5>1, Zenon
        <5>3. Recent(u) = {}
            BY <1>7, <5>2, Zenon
        <5>4. i \in DOMAIN notes /\ notes[i] \in Note
            BY <2>2, <3>1, <5>1, NoteConstants
        <5> QED
            BY <5>3, <5>4, NoteNumbers
      <4>2. ~(notes[i].born >= noteClock - DedupeTicks)
          BY <3>1, <4>1 DEF Recent, RowsOf
      <4> QED
          BY <2>2, <4>1, <4>2, NoteConstants
    <3> QED
        BY <3>1 DEF WindowClear
  <2>8. FanOutSound(g) /\ InsertSound(g)
      BY <1>2, <2>2, <2>4, <2>7 DEF FanOutSound, InsertSound
  <2> QED
      BY <1>5, <2>4, <2>6, <2>8, EmitMoves
<1> QED
    BY <1>6, <1>7

\* The state of a fan-out after the row of a recipient, inserted or failed.
LEMMA NextRecipient ==
    ASSUME NotesInv, NEW j \in EmitCall, emits[j].at = "insert",
           emits' = [emits EXCEPT ![j].at = "emit", ![j].to = {}, ![j].seen = 0, ![j].checked = 0]
    PROVE  \E g \in EmitState : /\ emits' = [emits EXCEPT ![j] = g]
                                /\ FanOutSound(g) /\ g.at = "emit"
<1>1. PICK e : e = emits[j]
    OBVIOUS
<1>2. e \in EmitState /\ FanOutSound(e) /\ e.at = "insert"
    BY <1>1 DEF NotesInv
<1>3. PICK g : g = [e EXCEPT !.at = "emit", !.to = {}, !.seen = 0, !.checked = 0]
    OBVIOUS
<1>4. /\ g \in EmitState /\ g.at = "emit" /\ g.on = e.on /\ g.settled = e.settled
      /\ g.actor = e.actor /\ g.byPreference = e.byPreference
    BY <1>2, <1>3, NoteZeros DEF EmitState
<1>5. emits' = [emits EXCEPT ![j] = g]
    BY <1>1, <1>2, <1>3 DEF NotesInv, EmitState
<1>6. FanOutSound(g)
    BY <1>2, <1>4 DEF FanOutSound
<1> QED
    BY <1>4, <1>5, <1>6

LEMMA InsertNoteStep == ASSUME NotesInv, NEW j \in EmitCall, InsertNote(j) PROVE NotesInv'
<1>1. PICK g \in EmitState : emits' = [emits EXCEPT ![j] = g] /\ FanOutSound(g) /\ g.at = "emit"
    BY NextRecipient DEF InsertNote
<1>2. PICK e : e = emits[j]
    OBVIOUS
<1>3. e \in EmitState /\ InsertSound(e) /\ e.at = "insert"
    BY <1>2 DEF NotesInv, InsertNote
<1>4. PICK u \in e.to : notes' = Append(notes, [to |-> u, read |-> FALSE, born |-> noteClock,
                                               seen |-> e.seen, checked |-> e.checked])
    BY <1>2 DEF InsertNote
<1>5. PICK r : r = [to |-> u, read |-> FALSE, born |-> noteClock,
                    seen |-> e.seen, checked |-> e.checked]
    OBVIOUS
<1>6. r \in Note /\ r.to = u /\ r.seen = e.seen /\ r.checked = e.checked
    BY <1>3, <1>5 DEF Note, EmitState, NotesInv
<1>7. /\ notes \in Seq(Note) /\ Len(notes) < NoteBound /\ UNCHANGED <<pref, noteClock>>
      /\ notes' = Append(notes, r)
    BY <1>4, <1>5 DEF InsertNote, NotesInv
<1>8. /\ notes' \in Seq(Note) /\ Len(notes') = Len(notes) + 1 /\ Len(notes) \in Nat
      /\ Len(notes') <= NoteBound
      /\ \A i \in 1..Len(notes) : notes'[i] = notes[i]
      /\ notes'[Len(notes) + 1] = r
    BY <1>6, <1>7, NoteConstants
<1>9. ASSUME NEW n \in Nat, n <= Len(notes), NEW t, NEW c, WindowClear(notes, n, t, c)
      PROVE  WindowClear(notes', n, t, c)
    BY <1>8, <1>9 DEF WindowClear
<1>10. ASSUME NEW k \in 1..Len(notes')
       PROVE  /\ notes'[k].seen <= Len(notes')
              /\ WindowClear(notes', notes'[k].seen, notes'[k].to, notes'[k].checked)
  <2>1. CASE k \in 1..Len(notes)
    <3>1. notes'[k] = notes[k] /\ notes[k].seen \in Nat
        BY <1>7, <1>8, <2>1, NoteNumbers
    <3>2. /\ notes[k].seen <= Len(notes)
          /\ WindowClear(notes, notes[k].seen, notes[k].to, notes[k].checked)
        BY <2>1 DEF NotesInv
    <3> QED
        BY <1>8, <1>9, <3>1, <3>2
  <2>2. CASE k = Len(notes) + 1
    <3>1. e.seen \in Nat /\ e.seen <= Len(notes) /\ WindowClear(notes, e.seen, u, e.checked)
        BY <1>3, NoteConstants DEF InsertSound, EmitState
    <3> QED
        BY <1>6, <1>8, <1>9, <2>2, <3>1
  <2> QED
      BY <1>8, <2>1, <2>2
<1>11. ASSUME NEW k \in EmitCall PROVE FanOutSound(emits[k])' /\ InsertSound(emits[k])'
  <2>1. CASE k = j
    <3>1. emits'[k] = g
        BY <1>1, <2>1 DEF NotesInv
    <3> QED
        BY <1>1, <1>7, <3>1 DEF FanOutSound, InsertSound
  <2>2. CASE k # j
    <3>1. PICK h : h = emits[k]
        OBVIOUS
    <3>2. emits'[k] = h /\ h \in EmitState /\ FanOutSound(h) /\ InsertSound(h)
        BY <1>1, <2>2, <3>1 DEF NotesInv
    <3>3. h.at = "insert" =>
            h.seen <= Len(notes') /\ \A w \in h.to : WindowClear(notes', h.seen, w, h.checked)
        BY <1>8, <1>9, <3>2, NoteConstants DEF InsertSound, EmitState
    <3> QED
        BY <1>7, <3>2, <3>3 DEF FanOutSound, InsertSound
  <2> QED
      BY <2>1, <2>2
<1>12. emits' \in [EmitCall -> EmitState]
    BY <1>1 DEF NotesInv
<1> QED
    BY <1>7, <1>8, <1>10, <1>11, <1>12 DEF NotesInv

\* Marking rows as read changes neither recipients nor times.
LEMMA MarkReadStep == ASSUME NotesInv, NEW S, MarkRead(S) PROVE NotesInv'
<1>1. /\ notes' = [i \in DOMAIN notes |-> [notes[i] EXCEPT !.read = @ \/ i \in S]]
      /\ UNCHANGED <<pref, noteClock, emits>>
    BY DEF MarkRead
<1>2. notes \in Seq(Note) /\ DOMAIN notes = 1..Len(notes) /\ Len(notes) \in Nat
    BY DEF NotesInv
<1>3. ASSUME NEW i \in 1..Len(notes)
      PROVE  /\ notes'[i] \in Note
             /\ notes'[i].to = notes[i].to /\ notes'[i].born = notes[i].born
             /\ notes'[i].seen = notes[i].seen /\ notes'[i].checked = notes[i].checked
  <2>1. PICK b : b = (notes[i].read \/ i \in S)
      OBVIOUS
  <2>2. b \in BOOLEAN
      BY <2>1, Zenon
  <2>3. notes'[i] = [notes[i] EXCEPT !.read = b]
      BY <1>1, <1>2, <2>1
  <2>4. notes[i] \in Note
      BY <1>2
  <2> QED
      BY <2>2, <2>3, <2>4 DEF Note
<1>4. notes' \in Seq(Note) /\ Len(notes') = Len(notes)
    BY <1>1, <1>2, <1>3
<1>5. ASSUME NEW n \in Nat, n <= Len(notes), NEW t, NEW c, WindowClear(notes, n, t, c)
      PROVE  WindowClear(notes', n, t, c)
    BY <1>2, <1>3, <1>5 DEF WindowClear
<1>6. ASSUME NEW k \in 1..Len(notes')
      PROVE  /\ notes'[k].seen <= Len(notes')
             /\ WindowClear(notes', notes'[k].seen, notes'[k].to, notes'[k].checked)
  <2>1. notes[k].seen \in Nat /\ notes[k].seen <= Len(notes)
      BY <1>2, <1>4, NoteNumbers DEF NotesInv
  <2>2. WindowClear(notes, notes[k].seen, notes[k].to, notes[k].checked)
      BY <1>4 DEF NotesInv
  <2> QED
      BY <1>3, <1>4, <1>5, <2>1, <2>2
<1>7. ASSUME NEW j \in EmitCall PROVE FanOutSound(emits[j])' /\ InsertSound(emits[j])'
  <2>1. emits[j] \in EmitState /\ FanOutSound(emits[j]) /\ InsertSound(emits[j])
      BY DEF NotesInv
  <2>2. emits[j].at = "insert" =>
          /\ emits[j].seen <= Len(notes')
          /\ \A w \in emits[j].to : WindowClear(notes', emits[j].seen, w, emits[j].checked)
      BY <1>4, <1>5, <2>1, NoteConstants DEF InsertSound, EmitState
  <2> QED
      BY <1>1, <2>1, <2>2 DEF FanOutSound, InsertSound
<1> QED
    BY <1>1, <1>4, <1>6, <1>7 DEF NotesInv

LEMMA NotesStep == ASSUME NotesInv, [NoteNext]_noteVars PROVE NotesInv'
<1>1. CASE UNCHANGED noteVars
    BY <1>1 DEF noteVars, NotesInv, FanOutSound, InsertSound, WindowClear
<1>2. CASE NoteTick
  <2>1. noteClock' \in 0..NoteClockBound /\ UNCHANGED <<notes, pref, emits>>
      BY <1>2, NoteConstants DEF NoteTick, NotesInv
  <2> QED
      BY <2>1 DEF NotesInv, FanOutSound, InsertSound, WindowClear
<1>3. ASSUME NEW j \in EmitCall, EmitFails(j) PROVE NotesInv'
  <2>1. PICK g \in EmitState : emits' = [emits EXCEPT ![j] = g] /\ FanOutSound(g) /\ g.at = "emit"
      BY <1>3, NextRecipient DEF EmitFails
  <2>2. InsertSound(g) /\ UNCHANGED <<notes, pref, noteClock>>
      BY <1>3, <2>1 DEF InsertSound, EmitFails
  <2> QED
      BY <2>1, <2>2, EmitMoves
<1>4. ASSUME NEW j \in EmitCall, FinishFanOut(j) PROVE NotesInv'
  <2>1. FanOutSound(IdleEmit) /\ InsertSound(IdleEmit)
      BY IdleEmitState DEF FanOutSound, InsertSound
  <2> QED
      BY <1>4, <2>1, IdleEmitState, EmitMoves DEF FinishFanOut
<1> QED
    BY <1>1, <1>2, <1>3, <1>4, PreferenceStep, StartStep, ReadWithoutRowStep, CheckDuplicateStep,
       InsertNoteStep, MarkReadStep DEF NoteNext

\* For any number of operators, fan-outs and rows: a fan-out by preference reaches the
\* operators who have the toggle on and nobody else, and a row that passed the
\* de-duplication has a duplicate in its window only by the race of check and insert.
THEOREM FanOutsReachAndDedupe == NoteSpec => [](FanOutReachesOptedIn /\ DuplicatesOnlyByRace)
<1>1. NoteInit => NotesInv
    BY NoteInitInv
<1>2. NotesInv /\ [NoteNext]_noteVars => NotesInv'
    BY NotesStep
<1>3. NotesInv => FanOutReachesOptedIn /\ DuplicatesOnlyByRace
  <2> SUFFICES ASSUME NotesInv PROVE FanOutReachesOptedIn /\ DuplicatesOnlyByRace
      OBVIOUS
  <2>1. ASSUME NEW j \in EmitCall, emits[j].at \in {"emit", "insert"}, emits[j].byPreference
        PROVE  emits[j].on \cap emits[j].settled
                 = {u \in emits[j].settled : pref[u] # "off"} \ emits[j].actor
      BY <2>1 DEF NotesInv, FanOutSound
  <2>2. DOMAIN notes = 1..Len(notes)
      BY DEF NotesInv
  <2>3. DuplicatesOnlyByRace
      BY <2>2 DEF NotesInv, WindowClear, DuplicatesOnlyByRace
  <2> QED
      BY <2>1, <2>3 DEF FanOutReachesOptedIn
<1> QED
    BY <1>1, <1>2, <1>3, PTL DEF NoteSpec

\* Only operators are told, and no more rows are written than there is room for.
THEOREM NoteTypeCorrect == NoteSpec => []NoteTypeOK
<1>1. NotesInv => NoteTypeOK
    BY DEF NotesInv, EmitState, NoteTypeOK
<1>2. NoteInit => NotesInv
    BY NoteInitInv
<1>3. NotesInv /\ [NoteNext]_noteVars => NotesInv'
    BY NotesStep
<1> QED
    BY <1>1, <1>2, <1>3, PTL DEF NoteSpec

-----------------------------------------------------------------------------
(* The page of notifications *)

\* The rows a window has, and which they are.
WindowSize(s, skip, take) ==
    IF skip >= Len(s) THEN 0 ELSE IF skip + take <= Len(s) THEN take ELSE Len(s) - skip

LEMMA WindowPlaces ==
    ASSUME NEW T, NEW s \in Seq(T), NEW skip \in Nat, NEW take \in Nat
    PROVE  Window(s, skip, take) = [i \in 1..WindowSize(s, skip, take) |-> s[skip + i]]
<1>1. PICK last : last = IF skip + take < Len(s) THEN skip + take ELSE Len(s)
    OBVIOUS
<1>2. PICK n : n = WindowSize(s, skip, take)
    OBVIOUS
<1>3. /\ Len(s) \in Nat /\ last \in Nat /\ n \in Nat
      /\ n = 0 => last < skip + 1
      /\ n # 0 => last = skip + n
    BY <1>1, <1>2 DEF WindowSize
<1>4. Window(s, skip, take) = SubSeq(s, skip + 1, last)
    BY <1>1 DEF Window
<1>5. SubSeq(s, skip + 1, last) = [i \in 1..n |-> s[skip + i]]
  <2>1. CASE n = 0
    <3>1. SubSeq(s, skip + 1, last) = << >>
        BY <1>3, <2>1, SubSeqEmpty
    <3> QED
        BY <2>1, <3>1
  <2>2. CASE n # 0
      BY <1>3, <2>2
  <2> QED
      BY <2>1, <2>2
<1> QED
    BY <1>2, <1>4, <1>5

LEMMA WindowInUnread ==
    ASSUME NEW T, NEW a \in Seq(T), NEW b \in Seq(T), NEW skip \in Nat, NEW take \in Nat,
           skip + take <= Len(a)
    PROVE  Window(a, skip, take) = Window(a \o b, skip, take)
<1>1. PICK c : c = a \o b
    OBVIOUS
<1>2. Len(a) \in Nat /\ Len(b) \in Nat /\ c \in Seq(T) /\ Len(c) = Len(a) + Len(b)
    BY <1>1
<1>3. \A i \in 1..take : c[skip + i] = a[skip + i]
    BY <1>1, <1>2
<1>4. WindowSize(a, skip, take) = take /\ WindowSize(c, skip, take) = take
    BY <1>2 DEF WindowSize
<1>5. Window(a, skip, take) = [i \in 1..take |-> a[skip + i]]
    BY <1>4, WindowPlaces
<1>6. Window(c, skip, take) = [i \in 1..take |-> c[skip + i]]
  <2>1. Window(c, skip, take) = [i \in 1..WindowSize(c, skip, take) |-> c[skip + i]]
    <3>1. c \in Seq(T)
        BY <1>2
    <3> QED
        BY <3>1, WindowPlaces
  <2> QED
      BY <1>4, <2>1
<1> QED
    BY <1>1, <1>3, <1>5, <1>6

LEMMA WindowInRead ==
    ASSUME NEW T, NEW a \in Seq(T), NEW b \in Seq(T), NEW skip \in Nat, NEW take \in Nat,
           skip >= Len(a)
    PROVE  Window(b, skip - Len(a), take) = Window(a \o b, skip, take)
<1>1. PICK c : c = a \o b
    OBVIOUS
<1>2. Len(a) \in Nat /\ Len(b) \in Nat /\ c \in Seq(T) /\ Len(c) = Len(a) + Len(b)
    BY <1>1
<1>3. PICK o : o = skip - Len(a)
    OBVIOUS
<1>4. PICK n : n = WindowSize(b, o, take)
    OBVIOUS
<1>5. /\ o \in Nat /\ n \in Nat /\ n = WindowSize(c, skip, take)
      /\ n = 0 \/ o + n <= Len(b)
    BY <1>2, <1>3, <1>4 DEF WindowSize
<1>6. Window(b, o, take) = [i \in 1..n |-> b[o + i]]
  <2>1. Window(b, o, take) = [i \in 1..WindowSize(b, o, take) |-> b[o + i]]
      BY <1>5, WindowPlaces
  <2> QED
      BY <1>4, <2>1
<1>7. Window(c, skip, take) = [i \in 1..n |-> c[skip + i]]
  <2>1. Window(c, skip, take) = [i \in 1..WindowSize(c, skip, take) |-> c[skip + i]]
    <3>1. c \in Seq(T)
        BY <1>2
    <3> QED
        BY <3>1, WindowPlaces
  <2> QED
      BY <1>5, <2>1
<1>8. \A i \in 1..n : c[skip + i] = b[o + i]
    BY <1>1, <1>2, <1>3, <1>5
<1> QED
    BY <1>1, <1>3, <1>6, <1>7, <1>8

LEMMA WindowAcross ==
    ASSUME NEW T, NEW a \in Seq(T), NEW b \in Seq(T), NEW skip \in Nat, NEW take \in Nat,
           skip < Len(a), Len(a) < skip + take
    PROVE  Window(a, skip, Len(a) - skip) \o Window(b, 0, take - (Len(a) - skip))
             = Window(a \o b, skip, take)
<1>1. PICK c : c = a \o b
    OBVIOUS
<1>2. Len(a) \in Nat /\ Len(b) \in Nat /\ c \in Seq(T) /\ Len(c) = Len(a) + Len(b)
    BY <1>1
<1>3. PICK h, r : h = Len(a) - skip /\ r = take - (Len(a) - skip)
    OBVIOUS
<1>4. PICK n : n = IF r < Len(b) THEN r ELSE Len(b)
    OBVIOUS
<1>5. h \in Nat /\ r \in Nat /\ n \in Nat /\ n <= r /\ n <= Len(b) /\ (n = r \/ n >= Len(b))
    BY <1>2, <1>3, <1>4
<1>6. Window(a, skip, h) = [i \in 1..h |-> a[skip + i]]
  <2>1. WindowSize(a, skip, h) = h
      BY <1>2, <1>3 DEF WindowSize
  <2> QED
      BY <1>5, <2>1, WindowPlaces
<1>7. Window(b, 0, r) = [i \in 1..n |-> b[i]]
  <2>1. WindowSize(b, 0, r) = n
      BY <1>2, <1>4, <1>5 DEF WindowSize
  <2>2. Window(b, 0, r) = [i \in 1..n |-> b[0 + i]]
      BY <1>5, <2>1, WindowPlaces
  <2> QED
      BY <1>5, <2>2
<1>8. Window(c, skip, take) = [i \in 1..(h + n) |-> c[skip + i]]
  <2>1. WindowSize(c, skip, take) = h + n
      BY <1>2, <1>3, <1>4, <1>5 DEF WindowSize
  <2> QED
    <3>1. Window(c, skip, take) = [i \in 1..WindowSize(c, skip, take) |-> c[skip + i]]
      <4>1. c \in Seq(T)
          BY <1>2
      <4> QED
          BY <4>1, WindowPlaces
    <3> QED
        BY <2>1, <3>1
<1>9. PICK x, y : x = [i \in 1..h |-> a[skip + i]] /\ y = [i \in 1..n |-> b[i]]
    OBVIOUS
<1>10. x \in Seq(T) /\ Len(x) = h /\ y \in Seq(T) /\ Len(y) = n
  <2>1. (\A i \in 1..h : skip + i \in 1..Len(a)) /\ (\A i \in 1..n : i \in 1..Len(b))
      BY <1>2, <1>3, <1>5
  <2>2. x \in [1..h -> T] /\ y \in [1..n -> T]
      BY <1>9, <2>1
  <2> QED
      BY <1>5, <2>2
<1>11. PICK z : z = [i \in 1..(h + n) |-> c[skip + i]]
    OBVIOUS
<1>12. z \in Seq(T) /\ Len(z) = h + n
  <2>1. \A i \in 1..(h + n) : skip + i \in 1..Len(c)
      BY <1>2, <1>3, <1>5
  <2>2. z \in [1..(h + n) -> T]
      BY <1>2, <1>11, <2>1
  <2> QED
      BY <1>5, <2>2
<1>13. ASSUME NEW i \in 1..(h + n) PROVE (x \o y)[i] = z[i]
  <2>1. z[i] = (IF skip + i <= Len(a) THEN a[skip + i] ELSE b[skip + i - Len(a)])
      BY <1>1, <1>2, <1>3, <1>5, <1>11
  <2>2. (x \o y)[i] = IF i <= h THEN x[i] ELSE y[i - h]
    <3>1. i \in 1..(Len(x) + Len(y))
        BY <1>10
    <3> QED
        BY <1>10, <3>1, ConcatProperties
  <2>3. CASE i <= h
      BY <1>2, <1>3, <1>5, <1>9, <2>1, <2>2, <2>3
  <2>4. CASE ~(i <= h)
    <3>1. i - h \in 1..n /\ skip + i - Len(a) = i - h /\ ~(skip + i <= Len(a))
        BY <1>2, <1>3, <1>5, <2>4
    <3> QED
        BY <1>9, <2>1, <2>2, <2>4, <3>1
  <2> QED
      BY <2>3, <2>4
<1>14. x \o y \in Seq(T) /\ Len(x \o y) = h + n
    BY <1>10, ConcatProperties
<1>15. x \o y = z
    BY <1>12, <1>13, <1>14, SeqEqual
<1> QED
    BY <1>1, <1>3, <1>6, <1>7, <1>8, <1>9, <1>11, <1>15

\* Between its statements a listing knows where the boundary falls and, while no row
\* changes, what it has read.
ListingSound(l) ==
    /\ l.at = "head" => l.skip < l.unread /\ l.unread < l.skip + PageSize
    /\ l.same =>
         /\ l.at \in {"page", "head"} => l.unread = Cardinality(UnreadRows)
         /\ l.at = "head" => l.rows = Window(NewestFirst(UnreadRows), l.skip, l.unread - l.skip)
         /\ l.at = "done" =>
              l.rows = Window(NewestFirst(UnreadRows) \o NewestFirst(ReadRows), l.skip, PageSize)

Listing ==
    [at : {"idle", "page", "head", "done"}, skip : Nat, unread : Nat, rows : Seq(Nat),
     same : BOOLEAN]

PageInv ==
    /\ inbox \in Seq(BOOLEAN)
    /\ listing \in Listing
    /\ ListingSound(listing)

LEMMA BothListings ==
    ASSUME PageInv
    PROVE  /\ NewestFirst(UnreadRows) \in Seq(Nat) /\ NewestFirst(ReadRows) \in Seq(Nat)
           /\ Len(NewestFirst(UnreadRows)) = Cardinality(UnreadRows)
           /\ Cardinality(UnreadRows) \in Nat
<1>1. DOMAIN inbox = 1..Len(inbox) /\ Len(inbox) \in Nat
    BY DEF PageInv
<1>2. IsFiniteSet(DOMAIN inbox)
    BY <1>1, FS_Interval
<1>3. UnreadRows \in SUBSET DOMAIN inbox /\ ReadRows \in SUBSET DOMAIN inbox
    BY DEF UnreadRows, ReadRows
<1>4. IsFiniteSet(UnreadRows) /\ IsFiniteSet(ReadRows)
    BY <1>2, <1>3, FS_Subset
<1>5. UnreadRows \subseteq Nat /\ ReadRows \subseteq Nat
    BY <1>1, <1>3
<1>6. NewestFirst(UnreadRows) \in Seq(UnreadRows) /\ NewestFirst(ReadRows) \in Seq(ReadRows)
    BY <1>4, <1>5, NewestFirstListing
<1> QED
    BY <1>4, <1>5, <1>6, NewestFirstListing, SeqMonotonic

\* A window of a listing has rows of it.
LEMMA WindowType ==
    ASSUME NEW T, NEW s \in Seq(T), NEW skip \in Nat, NEW take \in Nat
    PROVE  Window(s, skip, take) \in Seq(T)
<1>1. PICK n : n = WindowSize(s, skip, take)
    OBVIOUS
<1>2. n \in Nat /\ (n = 0 \/ skip + n <= Len(s)) /\ Len(s) \in Nat
    BY <1>1 DEF WindowSize
<1>3. Window(s, skip, take) = [i \in 1..n |-> s[skip + i]]
    BY <1>1, WindowPlaces
<1>4. \A i \in 1..n : skip + i \in 1..Len(s)
    BY <1>2
<1>5. [i \in 1..n |-> s[skip + i]] \in [1..n -> T]
    BY <1>4
<1> QED
    BY <1>2, <1>3, <1>5

\* A row that arrives or is read spoils a listing under way.
LEMMA RowsChangeStep ==
    ASSUME PageInv, RowsChange, inbox' \in Seq(BOOLEAN)
    PROVE  PageInv'
<1>1. PICK b : b = (listing.at = "idle")
    OBVIOUS
<1>2. b \in BOOLEAN
    BY <1>1, Zenon
<1>3. listing' = [listing EXCEPT !.same = b]
    BY <1>1 DEF RowsChange
<1>4. /\ listing' \in Listing /\ listing'.at = listing.at /\ listing'.same = b
      /\ listing'.skip = listing.skip /\ listing'.unread = listing.unread
    BY <1>2, <1>3 DEF PageInv, Listing
<1>5. listing'.same => listing'.at = "idle"
    BY <1>1, <1>4, Zenon
<1>6. ListingSound(listing)'
    BY <1>4, <1>5 DEF PageInv, ListingSound
<1> QED
    BY <1>4, <1>6 DEF PageInv

LEMMA StartListStep ==
    ASSUME PageInv, NEW nth \in Nat \ {0}, StartList(nth)
    PROVE  PageInv'
<1>1. PICK k : k = (nth - 1) * PageSize
    OBVIOUS
<1>2. k \in Nat
  <2>1. nth - 1 \in Nat /\ PageSize \in Nat
      BY PageAssumption
  <2> QED
      BY <1>1, <2>1
<1>3. PICK u \in Nat : u = Cardinality(UnreadRows)
    BY BothListings
<1>4. listing' = [at |-> "page", skip |-> k, unread |-> u, rows |-> <<>>, same |-> TRUE]
      /\ inbox' = inbox
    BY <1>1, <1>3 DEF StartList
<1>5. listing' \in Listing /\ listing'.at = "page" /\ listing'.unread = u
    BY <1>2, <1>4 DEF Listing
<1>6. UnreadRows' = UnreadRows
    BY <1>4 DEF UnreadRows
<1>7. ListingSound(listing)'
    BY <1>3, <1>5, <1>6 DEF ListingSound
<1> QED
    BY <1>4, <1>5, <1>7 DEF PageInv

\* A listing is through.
LEMMA ListingDone ==
    ASSUME PageInv, NEW r \in Seq(Nat), NEW a, a \in {"head", "done"},
           listing' = [listing EXCEPT !.at = a, !.rows = r], inbox' = inbox,
           a = "head" => /\ listing.skip < listing.unread
                         /\ listing.unread < listing.skip + PageSize,
           listing.same /\ a = "head" =>
               /\ listing.unread = Cardinality(UnreadRows)
               /\ r = Window(NewestFirst(UnreadRows), listing.skip, listing.unread - listing.skip),
           listing.same /\ a = "done" =>
               r = Window(NewestFirst(UnreadRows) \o NewestFirst(ReadRows), listing.skip, PageSize)
    PROVE  PageInv'
<1>1. /\ listing' \in Listing /\ listing'.at = a /\ listing'.rows = r
      /\ listing'.skip = listing.skip /\ listing'.unread = listing.unread
      /\ listing'.same = listing.same
    BY DEF PageInv, Listing
<1>2. UnreadRows' = UnreadRows /\ ReadRows' = ReadRows
    BY DEF UnreadRows, ReadRows
<1>3. ListingSound(listing)'
    BY <1>1, <1>2 DEF ListingSound
<1> QED
    BY <1>1, <1>3 DEF PageInv

LEMMA ReadPageStep == ASSUME PageInv, ReadPage PROVE PageInv'
<1>1. PICK A, B : A = NewestFirst(UnreadRows) /\ B = NewestFirst(ReadRows)
    OBVIOUS
<1>2. A \in Seq(Nat) /\ B \in Seq(Nat) /\ Len(A) = Cardinality(UnreadRows) /\ Len(A) \in Nat
    BY <1>1, BothListings
<1>3. PICK k, u : k = listing.skip /\ u = listing.unread
    OBVIOUS
<1>4. /\ k \in Nat /\ u \in Nat /\ PageSize \in Nat /\ inbox' = inbox
      /\ listing.same => u = Len(A)
    BY <1>2, <1>3, PageAssumption DEF PageInv, Listing, ListingSound, ReadPage
<1>5. CASE k + PageSize <= u /\
           listing' = [listing EXCEPT !.at = "done", !.rows = Window(A, k, PageSize)]
  <2>1. Window(A, k, PageSize) \in Seq(Nat)
      BY <1>2, <1>4, WindowType
  <2>2. listing.same => Window(A, k, PageSize) = Window(A \o B, k, PageSize)
      BY <1>2, <1>4, <1>5, WindowInUnread
  <2> QED
      BY <1>1, <1>3, <1>4, <1>5, <2>1, <2>2, ListingDone
<1>6. CASE k >= u /\
           listing' = [listing EXCEPT !.at = "done", !.rows = Window(B, k - u, PageSize)]
  <2>1. k - u \in Nat
      BY <1>4, <1>6
  <2>2. Window(B, k - u, PageSize) \in Seq(Nat)
      BY <1>2, <1>4, <2>1, WindowType
  <2>3. listing.same => Window(B, k - u, PageSize) = Window(A \o B, k, PageSize)
      BY <1>2, <1>4, <1>6, WindowInRead
  <2> QED
      BY <1>1, <1>3, <1>4, <1>6, <2>2, <2>3, ListingDone
<1>7. CASE k < u /\ u < k + PageSize /\
           listing' = [listing EXCEPT !.at = "head", !.rows = Window(A, k, u - k)]
  <2>1. u - k \in Nat
      BY <1>4, <1>7
  <2>2. Window(A, k, u - k) \in Seq(Nat)
      BY <1>2, <1>4, <2>1, WindowType
  <2> QED
      BY <1>1, <1>2, <1>3, <1>4, <1>7, <2>2, ListingDone
<1> QED
    BY <1>1, <1>3, <1>5, <1>6, <1>7 DEF ReadPage, ReadOffset

LEMMA ReadHeadStep == ASSUME PageInv, ReadHead PROVE PageInv'
<1>1. PICK A, B : A = NewestFirst(UnreadRows) /\ B = NewestFirst(ReadRows)
    OBVIOUS
<1>2. A \in Seq(Nat) /\ B \in Seq(Nat) /\ Len(A) = Cardinality(UnreadRows) /\ Len(A) \in Nat
    BY <1>1, BothListings
<1>3. PICK k, u, r : k = listing.skip /\ u = listing.unread /\ r = listing.rows
    OBVIOUS
<1>4. /\ k \in Nat /\ u \in Nat /\ PageSize \in Nat /\ r \in Seq(Nat) /\ inbox' = inbox
      /\ k < u /\ u < k + PageSize
      /\ listing.same => u = Len(A) /\ r = Window(A, k, u - k)
    BY <1>1, <1>2, <1>3, PageAssumption DEF PageInv, Listing, ListingSound, ReadHead
<1>5. PICK w : w = Window(B, 0, PageSize - (u - k))
    OBVIOUS
<1>6. listing' = [listing EXCEPT !.at = "done", !.rows = r \o w]
    BY <1>1, <1>3, <1>5 DEF ReadHead
<1>7. w \in Seq(Nat)
  <2>1. PageSize - (u - k) \in Nat /\ 0 \in Nat
      BY <1>4
  <2> QED
      BY <1>2, <1>5, <2>1, WindowType
<1>8. r \o w \in Seq(Nat)
    BY <1>4, <1>7
<1>9. ASSUME listing.same PROVE r \o w = Window(A \o B, k, PageSize)
  <2>1. k < Len(A) /\ Len(A) < k + PageSize
      BY <1>4, <1>9
  <2>2. Window(A, k, Len(A) - k) \o Window(B, 0, PageSize - (Len(A) - k))
          = Window(A \o B, k, PageSize)
    <3>1. A \in Seq(Nat) /\ B \in Seq(Nat) /\ k \in Nat /\ PageSize \in Nat
        BY <1>2, <1>4
    <3> QED
        BY <2>1, <3>1, WindowAcross
  <2> QED
      BY <1>4, <1>5, <1>9, <2>2
<1> QED
    BY <1>1, <1>3, <1>4, <1>6, <1>8, <1>9, ListingDone

LEMMA PageStep == ASSUME PageInv, [PageNext]_inboxVars PROVE PageInv'
<1>1. CASE NewNote
  <2>1. inbox' \in Seq(BOOLEAN)
    <3>1. inbox \in Seq(BOOLEAN) /\ FALSE \in BOOLEAN /\ inbox' = Append(inbox, FALSE)
        BY <1>1 DEF NewNote, PageInv
    <3> QED
        BY <3>1
  <2> QED
      BY <1>1, <2>1, RowsChangeStep DEF NewNote
<1>2. ASSUME NEW S, NotesRead(S) PROVE PageInv'
  <2>1. inbox' = [i \in DOMAIN inbox |-> inbox[i] \/ i \in S]
      BY <1>2 DEF NotesRead
  <2>2. PICK n \in Nat : DOMAIN inbox = 1..n
      BY DEF PageInv
  <2>3. \A i \in 1..n : (inbox[i] \/ i \in S) \in BOOLEAN
      BY Zenon
  <2>4. inbox' \in [1..n -> BOOLEAN]
      BY <2>1, <2>2, <2>3, Zenon
  <2>5. inbox' \in Seq(BOOLEAN)
      BY <2>2, <2>4
  <2> QED
      BY <1>2, <2>5, RowsChangeStep DEF NotesRead
<1>3. ASSUME NEW nth \in 1..(InboxBound \div PageSize + 1), StartList(nth) PROVE PageInv'
  <2>1. nth \in Nat \ {0}
      BY PageAssumption
  <2> QED
      BY <1>3, <2>1, StartListStep
<1>4. CASE UNCHANGED inboxVars
    BY <1>4 DEF inboxVars, PageInv, ListingSound, UnreadRows, ReadRows
<1> QED
    BY <1>1, <1>2, <1>3, <1>4, ReadPageStep, ReadHeadStep DEF PageNext

\* A page of the notification list that is read while no row changes is the window of
\* the whole list, wherever the boundary between unread and read rows falls
\* (NotificationService.list stitches it from up to three statements), for any page
\* size and number of rows.
THEOREM PagesAreWindows == PageSpec => []PageIsWindow
<1>1. ASSUME PageInit PROVE PageInv
  <2>1. inbox = << >> /\ listing = IdleListing
      BY <1>1 DEF PageInit
  <2>2. inbox \in Seq(BOOLEAN) /\ listing \in Listing /\ listing.at = "idle"
      BY <2>1 DEF IdleListing, Listing
  <2> QED
      BY <2>2 DEF PageInv, ListingSound
<1>2. PageInv => PageIsWindow
    BY DEF PageInv, ListingSound, PageIsWindow
<1> QED
    BY <1>1, <1>2, PageStep, PTL DEF PageSpec

\* The rows a listing has, though others arrive and are read meanwhile.
ListingRows ==
    /\ Len(inbox) <= InboxBound
    /\ listing.unread <= InboxBound
    /\ listing.rows \in Seq(DOMAIN inbox) /\ Len(listing.rows) <= PageSize
    /\ listing.at = "head" => Len(listing.rows) <= listing.unread - listing.skip

LEMMA BothInInbox ==
    ASSUME PageInv
    PROVE  /\ NewestFirst(UnreadRows) \in Seq(DOMAIN inbox)
           /\ NewestFirst(ReadRows) \in Seq(DOMAIN inbox)
           /\ Cardinality(UnreadRows) <= Len(inbox)
<1>1. DOMAIN inbox = 1..Len(inbox) /\ Len(inbox) \in Nat
    BY DEF PageInv
<1>2. IsFiniteSet(DOMAIN inbox) /\ Cardinality(DOMAIN inbox) = Len(inbox)
  <2>1. PICK n \in Nat : n = Len(inbox)
      BY <1>1
  <2>2. IsFiniteSet(1..n) /\ Cardinality(1..n) = n
      BY FS_Interval
  <2> QED
      BY <1>1, <2>1, <2>2
<1>3. UnreadRows \in SUBSET DOMAIN inbox /\ ReadRows \in SUBSET DOMAIN inbox
    BY DEF UnreadRows, ReadRows
<1>4. /\ IsFiniteSet(UnreadRows) /\ IsFiniteSet(ReadRows)
      /\ Cardinality(UnreadRows) <= Cardinality(DOMAIN inbox)
    BY <1>2, <1>3, FS_Subset
<1>5. UnreadRows \subseteq Nat /\ ReadRows \subseteq Nat
    BY <1>1, <1>3
<1>6. NewestFirst(UnreadRows) \in Seq(UnreadRows) /\ NewestFirst(ReadRows) \in Seq(ReadRows)
    BY <1>4, <1>5, NewestFirstListing
<1> QED
    BY <1>2, <1>3, <1>4, <1>6, SeqMonotonic

LEMMA WindowLength ==
    ASSUME NEW T, NEW s \in Seq(T), NEW skip \in Nat, NEW take \in Nat
    PROVE  Len(Window(s, skip, take)) <= take
<1>1. PICK n : n = WindowSize(s, skip, take)
    OBVIOUS
<1>2. n \in Nat /\ n <= take
    BY <1>1 DEF WindowSize
<1>3. Window(s, skip, take) = [i \in 1..n |-> s[skip + i]]
    BY <1>1, WindowPlaces
<1>4. Len([i \in 1..n |-> s[skip + i]]) = n
    BY <1>2
<1> QED
    BY <1>2, <1>3, <1>4

LEMMA ReadPageRows == ASSUME PageInv, ListingRows, ReadPage PROVE ListingRows'
<1>1. PICK A, B : A = NewestFirst(UnreadRows) /\ B = NewestFirst(ReadRows)
    OBVIOUS
<1>2. A \in Seq(DOMAIN inbox) /\ B \in Seq(DOMAIN inbox)
    BY <1>1, BothInInbox
<1>3. PICK k, u : k = listing.skip /\ u = listing.unread
    OBVIOUS
<1>4. k \in Nat /\ u \in Nat /\ PageSize \in Nat /\ inbox' = inbox
    BY <1>3, PageAssumption DEF PageInv, Listing, ReadPage
<1>5. ASSUME NEW r \in Seq(DOMAIN inbox), NEW a \in {"head", "done"}, Len(r) <= PageSize,
             a = "head" => Len(r) <= u - k,
             listing' = [listing EXCEPT !.at = a, !.rows = r]
      PROVE  ListingRows'
  <2>1. /\ listing'.at = a /\ listing'.rows = r
        /\ listing'.skip = k /\ listing'.unread = u
      BY <1>3, <1>5 DEF PageInv, Listing
  <2> QED
      BY <1>3, <1>4, <1>5, <2>1 DEF ListingRows
<1>6. CASE k + PageSize <= u /\
           listing' = [listing EXCEPT !.at = "done", !.rows = Window(A, k, PageSize)]
  <2>1. Window(A, k, PageSize) \in Seq(DOMAIN inbox) /\ Len(Window(A, k, PageSize)) <= PageSize
      BY <1>2, <1>4, WindowType, WindowLength
  <2> QED
      BY <1>5, <1>6, <2>1
<1>7. CASE k >= u /\
           listing' = [listing EXCEPT !.at = "done", !.rows = Window(B, k - u, PageSize)]
  <2>1. k - u \in Nat
      BY <1>4, <1>7
  <2>2. /\ Window(B, k - u, PageSize) \in Seq(DOMAIN inbox)
        /\ Len(Window(B, k - u, PageSize)) <= PageSize
      BY <1>2, <1>4, <2>1, WindowType, WindowLength
  <2> QED
      BY <1>5, <1>7, <2>2
<1>8. CASE k < u /\ u < k + PageSize /\
           listing' = [listing EXCEPT !.at = "head", !.rows = Window(A, k, u - k)]
  <2>1. u - k \in Nat
      BY <1>4, <1>8
  <2>2. Window(A, k, u - k) \in Seq(DOMAIN inbox) /\ Len(Window(A, k, u - k)) <= u - k
      BY <1>2, <1>4, <2>1, WindowType, WindowLength
  <2>3. Len(Window(A, k, u - k)) <= PageSize
      BY <1>4, <1>8, <2>1, <2>2
  <2> QED
      BY <1>5, <1>8, <2>2, <2>3
<1> QED
    BY <1>1, <1>3, <1>6, <1>7, <1>8 DEF ReadPage, ReadOffset

LEMMA ReadHeadRows == ASSUME PageInv, ListingRows, ReadHead PROVE ListingRows'
<1>1. PICK B, k, u, r : /\ B = NewestFirst(ReadRows) /\ k = listing.skip /\ u = listing.unread
                        /\ r = listing.rows
    OBVIOUS
<1>2. /\ k \in Nat /\ u \in Nat /\ PageSize \in Nat /\ inbox' = inbox
      /\ k < u /\ u < k + PageSize
    BY <1>1, PageAssumption DEF PageInv, Listing, ListingSound, ReadHead
<1>3. B \in Seq(DOMAIN inbox)
    BY <1>1, BothInInbox
<1>4. r \in Seq(DOMAIN inbox) /\ Len(r) <= u - k
    BY <1>1 DEF ListingRows, ReadHead
<1>5. PICK w, n : w = Window(B, 0, n) /\ n = PageSize - (u - k)
    OBVIOUS
<1>6. n \in Nat /\ 0 \in Nat
    BY <1>2, <1>5
<1>7. w \in Seq(DOMAIN inbox) /\ Len(w) <= n
    BY <1>3, <1>5, <1>6, WindowType, WindowLength
<1>8. r \o w \in Seq(DOMAIN inbox) /\ Len(r \o w) = Len(r) + Len(w)
    BY <1>4, <1>7
<1>9. Len(r \o w) <= PageSize
    BY <1>2, <1>4, <1>5, <1>7, <1>8
<1>10. listing' = [listing EXCEPT !.at = "done", !.rows = r \o w]
    BY <1>1, <1>5 DEF ReadHead
<1>11. /\ listing'.at = "done" /\ listing'.rows = r \o w /\ listing'.unread = u
    BY <1>1, <1>10 DEF PageInv, Listing
<1> QED
    BY <1>1, <1>2, <1>8, <1>9, <1>11 DEF ListingRows

LEMMA ListingRowsStep == ASSUME PageInv, ListingRows, [PageNext]_inboxVars PROVE ListingRows'
<1>1. ASSUME RowsChange, Len(inbox') <= InboxBound, DOMAIN inbox \subseteq DOMAIN inbox'
      PROVE  ListingRows'
  <2>1. PICK b : b = (listing.at = "idle")
      OBVIOUS
  <2>2. listing' = [listing EXCEPT !.same = b]
      BY <1>1, <2>1 DEF RowsChange
  <2>3. /\ listing'.at = listing.at /\ listing'.rows = listing.rows
        /\ listing'.skip = listing.skip /\ listing'.unread = listing.unread
      BY <2>2 DEF PageInv, Listing
  <2>4. listing.rows \in Seq(DOMAIN inbox')
    <3>1. listing.rows \in Seq(DOMAIN inbox)
        BY DEF ListingRows
    <3> QED
        BY <1>1, <3>1, SeqMonotonic
  <2> QED
      BY <1>1, <2>3, <2>4 DEF ListingRows
<1>2. inbox \in Seq(BOOLEAN) /\ Len(inbox) \in Nat /\ DOMAIN inbox = 1..Len(inbox)
    BY DEF PageInv
<1>3. CASE NewNote
  <2>1. inbox' = Append(inbox, FALSE) /\ Len(inbox) < InboxBound /\ RowsChange
      BY <1>3 DEF NewNote
  <2>2. Len(inbox') = Len(inbox) + 1 /\ DOMAIN inbox' = 1..(Len(inbox) + 1)
      BY <1>2, <2>1
  <2>3. Len(inbox') <= InboxBound /\ DOMAIN inbox \subseteq DOMAIN inbox'
      BY <1>2, <2>1, <2>2, PageAssumption
  <2> QED
      BY <1>1, <2>1, <2>3
<1>4. ASSUME NEW S, NotesRead(S) PROVE ListingRows'
  <2>1. inbox' = [i \in DOMAIN inbox |-> inbox[i] \/ i \in S] /\ RowsChange
      BY <1>4 DEF NotesRead
  <2>2. PICK n \in Nat : DOMAIN inbox = 1..n /\ Len(inbox) = n
      BY <1>2
  <2>3. DOMAIN inbox' = 1..n
      BY <2>1, <2>2
  <2>4. Len(inbox') = n
      BY <2>1, <2>2, <2>3
  <2> QED
      BY <1>1, <2>1, <2>2, <2>3, <2>4 DEF ListingRows
<1>5. ASSUME NEW nth, StartList(nth) PROVE ListingRows'
  <2>1. PICK k, u : k = (nth - 1) * PageSize /\ u = Cardinality(UnreadRows)
      OBVIOUS
  <2>2. u \in Nat /\ u <= Len(inbox)
      BY <2>1, BothListings, BothInInbox
  <2>3. /\ listing' = [at |-> "page", skip |-> k, unread |-> u, rows |-> <<>>, same |-> TRUE]
        /\ inbox' = inbox
      BY <1>5, <2>1 DEF StartList
  <2>4. /\ listing'.at = "page" /\ listing'.rows = << >> /\ listing'.unread = u
      BY <2>3
  <2>5. << >> \in Seq(DOMAIN inbox) /\ Len(<< >>) <= PageSize
      BY PageAssumption
  <2>6. u <= InboxBound
      BY <1>2, <2>2, PageAssumption DEF ListingRows
  <2> QED
      BY <2>3, <2>4, <2>5, <2>6 DEF ListingRows
<1>6. CASE UNCHANGED inboxVars
    BY <1>6 DEF inboxVars, ListingRows
<1> QED
    BY <1>3, <1>4, <1>5, <1>6, ReadPageRows, ReadHeadRows DEF PageNext

\* A page never has more rows than its size nor a row that is not in the inbox, also
\* when rows arrive or are read between the statements it is stitched from.
THEOREM PageTypeCorrect == PageSpec => []PageTypeOK
<1>1. ASSUME PageInit PROVE PageInv /\ ListingRows
  <2>1. inbox = << >> /\ listing = IdleListing
      BY <1>1 DEF PageInit
  <2>2. inbox \in Seq(BOOLEAN) /\ listing \in Listing /\ listing.at = "idle"
      BY <2>1 DEF IdleListing, Listing
  <2>3. ListingRows
      BY <2>1, PageAssumption DEF IdleListing, ListingRows
  <2> QED
      BY <2>2, <2>3 DEF PageInv, ListingSound
<1>2. PageInv /\ ListingRows /\ [PageNext]_inboxVars => (PageInv /\ ListingRows)'
    BY PageStep, ListingRowsStep
<1>3. PageInv /\ ListingRows => PageTypeOK
    BY PageAssumption DEF PageInv, Listing, ListingRows, PageTypeOK
<1> QED
    BY <1>1, <1>2, <1>3, PTL DEF PageSpec

-----------------------------------------------------------------------------
(* Retention *)

\* The rows of the first c ranks: there are c of them if there are that many at all.
LEMMA TopRanks ==
    ASSUME NEW S, S \subseteq Nat, IsFiniteSet(S), NEW c \in Nat, c <= Cardinality(S)
    PROVE  /\ IsFiniteSet({k \in S : Cardinality(Newer(S, k)) < c})
           /\ Cardinality({k \in S : Cardinality(Newer(S, k)) < c}) = c
<1> DEFINE top == {k \in S : Cardinality(Newer(S, k)) < c}
<1>1. Cardinality(S) \in Nat
    BY FS_CardinalityType
<1>2. PICK f : f = [k \in top |-> Cardinality(Newer(S, k))]
    OBVIOUS
<1>3. PICK T : T = 0..(c - 1)
    OBVIOUS
<1>4. IsFiniteSet(T) /\ Cardinality(T) = c
    BY <1>3, FS_Interval
<1>5. \A k \in top : k \in S /\ k \in Nat /\ f[k] = Cardinality(Newer(S, k)) /\ f[k] \in T
  <2>1. ASSUME NEW k \in top
        PROVE  k \in S /\ k \in Nat /\ f[k] = Cardinality(Newer(S, k)) /\ f[k] \in T
    <3>1. k \in S /\ Cardinality(Newer(S, k)) < c /\ f[k] = Cardinality(Newer(S, k))
        BY <1>2
    <3>2. Cardinality(Newer(S, k)) \in 0..(Cardinality(S) - 1)
        BY <3>1, RankBound
    <3> QED
        BY <1>1, <1>3, <3>1, <3>2
  <2> QED
      BY <2>1
<1>6. f \in [top -> T]
    BY <1>2, <1>5
<1>7. ASSUME NEW m \in top, NEW n \in top, f[m] = f[n] PROVE m = n
  <2>1. m \in S /\ n \in S /\ m \in Nat /\ n \in Nat /\ f[m] \in Nat
      BY <1>3, <1>5
  <2>2. ~(m < n)
    <3>1. ASSUME m < n PROVE Cardinality(Newer(S, n)) < Cardinality(Newer(S, m))
        BY <2>1, <3>1, RankDrops
    <3> QED
        BY <1>5, <1>7, <2>1, <3>1
  <2>3. ~(n < m)
    <3>1. ASSUME n < m PROVE Cardinality(Newer(S, m)) < Cardinality(Newer(S, n))
        BY <2>1, <3>1, RankDrops
    <3> QED
        BY <1>5, <1>7, <2>1, <3>1
  <2> QED
      BY <2>1, <2>2, <2>3
<1>8. \A t \in T : \E k \in top : f[k] = t
  <2>1. ASSUME NEW t \in T PROVE \E k \in top : f[k] = t
    <3>1. t \in 0..(Cardinality(S) - 1) /\ t < c
        BY <1>1, <1>3
    <3>2. PICK k \in S : Cardinality(Newer(S, k)) = t
        BY <3>1, RankTaken
    <3>3. k \in top
        BY <3>1, <3>2
    <3> QED
        BY <1>5, <3>2, <3>3
  <2> QED
      BY <2>1
<1>9. f \in Injection(top, T) /\ f \in Surjection(top, T)
    BY <1>6, <1>7, <1>8 DEF Injection, IsInjective, Surjection
<1> QED
    BY <1>4, <1>9, FS_Injection

\* The live rows of the same recipient that are newer, and the rows a prune may delete.
NewerLive(rows, i) ==
    {k \in DOMAIN rows : k > i /\ rows[k].live /\ rows[k].to = rows[i].to}
PastAge(i) == kept[i].born < night - RetentionTicks
Deletable(i) == PastAge(i) \/ Cardinality(NewerLive(kept, i)) >= NoteCap

\* What a run may rely on: unless its lock is lost its instance holds it, and every row
\* it is about to delete is one that may be deleted, whoever else deletes.
PruneSound(p) ==
    /\ prunes[p].at # "idle" /\ p \notin lost =>
         pruneLock # <<>> /\ pruneLock[1] \in Connection[p]
    /\ prunes[p].over # {} => prunes[p].at = "cap"
    /\ \A i \in prunes[p].over : i \in DOMAIN kept /\ Deletable(i)

\* Rows are numbered in the order of their creation.
BornInOrder ==
    /\ \A i, k \in DOMAIN kept : i < k => kept[i].born <= kept[k].born
    /\ \A i \in DOMAIN kept : kept[i].born <= night

RetentionInv ==
    /\ RetentionTypeOK
    /\ BornInOrder
    /\ \A i, k \in DOMAIN pruneLock : pruneLock[i] = pruneLock[k]
    /\ \A p \in PruneCall : PruneSound(p)

LEMMA RetentionConstants ==
    /\ RetentionTicks \in Nat /\ KeptBound \in Nat /\ NightBound \in Nat
    /\ NoteCap \in Nat \ {0}
    /\ \A p \in PruneCall : \A c \in Connection[p] : c \in Conn
    /\ \A p, q \in PruneCall : p # q => Connection[p] \cap Connection[q] = {}
BY RetentionAssumption DEF Conn

\* Only one instance prunes at a time, unless another has lost its lock.
LEMMA InvOnePruner == ASSUME RetentionInv PROVE OnePruner
<1>1. ASSUME NEW p \in PruneCall, NEW q \in PruneCall, prunes[p].at # "idle",
             prunes[q].at # "idle", p \notin lost, q \notin lost
      PROVE  p = q
    BY <1>1, RetentionConstants DEF RetentionInv, PruneSound
<1> QED
    BY <1>1 DEF OnePruner

LEMMA NewerLiveFinite ==
    ASSUME NEW rows, DOMAIN rows \subseteq 1..KeptBound, NEW i
    PROVE  /\ IsFiniteSet(NewerLive(rows, i)) /\ Cardinality(NewerLive(rows, i)) \in Nat
           /\ NewerLive(rows, i) \subseteq Nat
<1>1. IsFiniteSet(1..KeptBound)
    BY RetentionConstants, FS_Interval
<1>2. NewerLive(rows, i) \in SUBSET (1..KeptBound)
    BY DEF NewerLive
<1>3. NewerLive(rows, i) \subseteq Nat
    BY <1>2
<1>4. IsFiniteSet(NewerLive(rows, i))
    BY <1>1, <1>2, FS_Subset
<1> QED
    BY <1>3, <1>4, FS_CardinalityType

\* Rows and numbers of rows are what the type says.
LEMMA KeptRows ==
    ASSUME RetentionTypeOK
    PROVE  /\ kept \in Seq(KeptRow) /\ DOMAIN kept = 1..Len(kept) /\ Len(kept) \in Nat
           /\ DOMAIN kept \subseteq 1..KeptBound /\ night \in Nat
           /\ \A i \in DOMAIN kept : kept[i] \in KeptRow /\ kept[i].born \in Nat
<1>1. kept \in Seq(KeptRow) /\ Len(kept) <= KeptBound /\ night \in 0..NightBound
    BY DEF RetentionTypeOK
<1>2. DOMAIN kept = 1..Len(kept) /\ Len(kept) \in Nat
    BY <1>1
<1>3. \A i \in DOMAIN kept : kept[i] \in KeptRow
    BY <1>1, <1>2
<1>4. \A i \in DOMAIN kept : kept[i].born \in Nat
    BY <1>3, RetentionConstants DEF KeptRow
<1> QED
    BY <1>1, <1>2, <1>3, <1>4, RetentionConstants

\* What may be deleted still may when more newer rows are live or time has passed.
LEMMA DeletableGrows ==
    ASSUME RetentionTypeOK, NEW i \in DOMAIN kept, Deletable(i),
           DOMAIN kept' \subseteq 1..KeptBound,
           NewerLive(kept, i) \subseteq NewerLive(kept', i),
           kept'[i].born = kept[i].born, night' \in Nat, night <= night'
    PROVE  Deletable(i)'
<1>1. IsFiniteSet(NewerLive(kept', i)) /\ Cardinality(NewerLive(kept', i)) \in Nat
    BY NewerLiveFinite
<1>2. Cardinality(NewerLive(kept, i)) \in Nat
    BY NewerLiveFinite, KeptRows
<1>3. Cardinality(NewerLive(kept, i)) <= Cardinality(NewerLive(kept', i))
    BY <1>1, FS_Subset
<1>4. PastAge(i) => PastAge(i)'
    BY KeptRows, RetentionConstants DEF PastAge
<1> QED
    BY <1>1, <1>2, <1>3, <1>4, RetentionConstants DEF Deletable

LEMMA ArriveStep ==
    ASSUME RetentionInv, NEW u \in Recipient, Arrive(u) PROVE RetentionInv'
<1>1. PICK r : r = [to |-> u, born |-> night, live |-> TRUE]
    OBVIOUS
<1>2. /\ kept \in Seq(KeptRow) /\ Len(kept) < KeptBound /\ kept' = Append(kept, r)
      /\ UNCHANGED <<night, prunes, pruneLock, lost>>
    BY <1>1 DEF Arrive, RetentionInv, RetentionTypeOK
<1>3. r \in KeptRow /\ r.born = night
    BY <1>1 DEF RetentionInv, RetentionTypeOK, KeptRow
<1>4. /\ kept' \in Seq(KeptRow) /\ Len(kept') <= KeptBound
      /\ DOMAIN kept \subseteq DOMAIN kept' /\ DOMAIN kept' \subseteq 1..KeptBound
      /\ \A k \in DOMAIN kept : kept'[k] = kept[k]
    BY <1>2, <1>3, RetentionConstants
<1>7. ASSUME NEW k \in DOMAIN kept', k \notin DOMAIN kept PROVE kept'[k] = r
  <2>1. k = Len(kept) + 1
      BY <1>2, <1>3, <1>7
  <2> QED
      BY <1>2, <1>3, <2>1
<1>5. ASSUME NEW p \in PruneCall PROVE PruneSound(p)'
  <2>1. PruneSound(p)
      BY DEF RetentionInv
  <2>2. ASSUME NEW i \in prunes[p].over PROVE i \in DOMAIN kept' /\ Deletable(i)'
    <3>1. i \in DOMAIN kept /\ Deletable(i)
        BY <2>1 DEF PruneSound
    <3>2. NewerLive(kept, i) \subseteq NewerLive(kept', i)
        BY <1>4, <3>1 DEF NewerLive
    <3>3. night' = night /\ night \in Nat /\ RetentionTypeOK
        BY <1>2, KeptRows DEF RetentionInv
    <3> QED
        BY <1>4, <3>1, <3>2, <3>3, DeletableGrows
  <2> QED
      BY <1>2, <2>1, <2>2 DEF PruneSound
<1>6. BornInOrder'
  <2>1. RetentionTypeOK /\ BornInOrder
      BY DEF RetentionInv
  <2>2. \A k \in DOMAIN kept' : kept'[k].born \in Nat /\ kept'[k].born <= night
      BY <1>3, <1>4, <1>7, <2>1, KeptRows DEF BornInOrder
  <2>3. ASSUME NEW i \in DOMAIN kept', NEW k \in DOMAIN kept', i < k
        PROVE  kept'[i].born <= kept'[k].born
    <3>1. CASE k \in DOMAIN kept
      <4>1. i \in DOMAIN kept
        <5>1. k \in 1..Len(kept) /\ i \in 1..Len(kept') /\ Len(kept) \in Nat
            BY <1>4, <2>1, <3>1, KeptRows
        <5>2. i \in 1..Len(kept)
            BY <2>3, <5>1
        <5> QED
            BY <2>1, <5>2, KeptRows
      <4> QED
          BY <1>4, <2>1, <2>3, <3>1, <4>1 DEF BornInOrder
    <3>2. CASE k \notin DOMAIN kept
      <4>1. kept'[k].born = night
          BY <1>3, <1>7, <3>2
      <4> QED
          BY <2>2, <4>1
    <3> QED
        BY <3>1, <3>2
  <2> QED
      BY <1>2, <2>2, <2>3 DEF BornInOrder
<1> QED
    BY <1>2, <1>4, <1>5, <1>6 DEF RetentionInv, RetentionTypeOK

\* A step of one run that deletes nothing.
LEMMA PruneMoves ==
    ASSUME RetentionInv, NEW p \in PruneCall, NEW g \in PruneState,
           prunes' = [prunes EXCEPT ![p] = g], UNCHANGED <<kept, night, pruneLock, lost>>,
           prunes[p].at # "idle",
           g.over # {} => g.at = "cap",
           \A i \in g.over : i \in DOMAIN kept /\ Deletable(i)
    PROVE  RetentionInv'
<1>1. prunes' \in [PruneCall -> PruneState] /\ prunes'[p] = g
    BY DEF RetentionInv, RetentionTypeOK
<1>2. \A i : Deletable(i)' <=> Deletable(i)
    BY DEF Deletable, PastAge, NewerLive
<1>3. ASSUME NEW q \in PruneCall PROVE PruneSound(q)'
  <2>1. CASE q = p
      BY <1>1, <1>2, <2>1 DEF PruneSound, RetentionInv
  <2>2. CASE q # p
    <3>1. prunes'[q] = prunes[q] /\ PruneSound(q)
        BY <2>2 DEF RetentionInv, RetentionTypeOK
    <3> QED
        BY <1>2, <3>1 DEF PruneSound
  <2> QED
      BY <2>1, <2>2
<1> QED
    BY <1>1, <1>3 DEF RetentionInv, RetentionTypeOK, BornInOrder

LEMMA StartPruneStep ==
    ASSUME RetentionInv, NEW p \in PruneCall, NEW c \in Connection[p], StartPrune(p, c)
    PROVE  RetentionInv'
<1>1. PICK g : g = [prunes[p] EXCEPT !.at = "locked", !.ran = night]
    OBVIOUS
<1>2. /\ prunes[p] \in PruneState /\ prunes[p].at = "idle" /\ prunes[p].over = {}
      /\ night \in 0..NightBound /\ pruneLock \in Seq(Conn) /\ c \in Conn
    BY RetentionConstants DEF RetentionInv, RetentionTypeOK, PruneSound, StartPrune
<1>3. g \in PruneState /\ g.at = "locked" /\ g.over = {}
    BY <1>1, <1>2 DEF PruneState
<1>4. prunes' = [prunes EXCEPT ![p] = g] /\ UNCHANGED <<kept, night, lost>>
    BY <1>1 DEF StartPrune, RetentionInv, RetentionTypeOK
<1>5. pruneLock' = Append(pruneLock, c) /\ \A i \in DOMAIN pruneLock : pruneLock[i] = c
    BY DEF StartPrune, LockAvailable
<1>6. /\ pruneLock' \in Seq(Conn) /\ pruneLock' # <<>> /\ 1 \in DOMAIN pruneLock'
      /\ \A i \in DOMAIN pruneLock' : pruneLock'[i] = c
    BY <1>2, <1>5
<1>7. ASSUME NEW q \in PruneCall PROVE PruneSound(q)'
  <2>1. CASE q = p
    <3>1. prunes'[q] = g
        BY <1>4, <2>1 DEF RetentionInv, RetentionTypeOK
    <3> QED
        BY <1>3, <1>6, <2>1, <3>1 DEF PruneSound
  <2>2. CASE q # p
    <3>1. prunes'[q] = prunes[q] /\ PruneSound(q)
        BY <1>4, <2>2 DEF RetentionInv, RetentionTypeOK
    <3>2. ASSUME prunes[q].at # "idle", q \notin lost PROVE FALSE
      <4>1. 1 \in DOMAIN pruneLock /\ pruneLock[1] \in Connection[q]
          BY <1>2, <3>1, <3>2 DEF PruneSound
      <4> QED
          BY <1>5, <2>2, <4>1, RetentionConstants
    <3>3. \A i : Deletable(i)' <=> Deletable(i)
        BY <1>4 DEF Deletable, PastAge, NewerLive
    <3> QED
        BY <1>4, <3>1, <3>2, <3>3 DEF PruneSound
  <2> QED
      BY <2>1, <2>2
<1>8. prunes' \in [PruneCall -> PruneState]
    BY <1>3, <1>4 DEF RetentionInv, RetentionTypeOK
<1> QED
    BY <1>4, <1>6, <1>7, <1>8 DEF RetentionInv, RetentionTypeOK, BornInOrder

\* What a deletion leaves.
LEMMA DeletedRows ==
    ASSUME RetentionInv, NEW S, Delete(S)
    PROVE  /\ kept' \in Seq(KeptRow) /\ Len(kept') = Len(kept) /\ DOMAIN kept' = DOMAIN kept
           /\ \A i \in DOMAIN kept : /\ kept'[i].to = kept[i].to
                                     /\ kept'[i].born = kept[i].born
                                     /\ kept'[i].live <=> kept[i].live /\ i \notin S
<1>1. kept' = [i \in DOMAIN kept |-> [kept[i] EXCEPT !.live = @ /\ i \notin S]]
    BY DEF Delete
<1>2. kept \in Seq(KeptRow) /\ DOMAIN kept = 1..Len(kept) /\ Len(kept) \in Nat
    BY DEF RetentionInv, RetentionTypeOK
<1>3. ASSUME NEW i \in 1..Len(kept)
      PROVE  /\ kept'[i] \in KeptRow /\ kept'[i].to = kept[i].to
             /\ kept'[i].born = kept[i].born
             /\ kept'[i].live <=> kept[i].live /\ i \notin S
  <2>1. PICK b : b = (kept[i].live /\ i \notin S)
      OBVIOUS
  <2>2. b \in BOOLEAN
      BY <2>1, Zenon
  <2>3. kept'[i] = [kept[i] EXCEPT !.live = b]
      BY <1>1, <1>2, <2>1
  <2>4. kept[i] \in KeptRow
      BY <1>2
  <2>5. /\ kept'[i] \in KeptRow /\ kept'[i].to = kept[i].to /\ kept'[i].live = b
        /\ kept'[i].born = kept[i].born
      BY <2>2, <2>3, <2>4 DEF KeptRow
  <2> QED
      BY <2>1, <2>5, Zenon
<1>4. DOMAIN kept' = 1..Len(kept)
    BY <1>1, <1>2
<1>5. kept' \in [1..Len(kept) -> KeptRow]
    BY <1>1, <1>2, <1>3
<1>6. kept' \in Seq(KeptRow) /\ Len(kept') = Len(kept)
    BY <1>2, <1>5
<1> QED
    BY <1>2, <1>3, <1>4, <1>6

\* Deleting rows that may be deleted leaves the newest NoteCap ones: what may be deleted
\* before may be deleted after, also by another run that has found it.
LEMMA NewestStay ==
    ASSUME RetentionInv, NEW S, Delete(S), night' = night,
           \A k \in S : k \in DOMAIN kept /\ kept[k].live => Deletable(k),
           NEW i \in DOMAIN kept, Deletable(i)
    PROVE  (PastAge(i) /\ PastAge(i)') \/ Cardinality(NewerLive(kept', i)) >= NoteCap
<1>1. RetentionTypeOK /\ BornInOrder
    BY DEF RetentionInv
<1>2. CASE PastAge(i)
    BY <1>2, DeletedRows DEF PastAge
<1>3. CASE ~PastAge(i)
  <2>1. PICK K : K = NewerLive(kept, i)
      OBVIOUS
  <2>2. IsFiniteSet(K) /\ K \subseteq Nat /\ Cardinality(K) \in Nat
      BY <1>1, <2>1, KeptRows, NewerLiveFinite
  <2>3. NoteCap \in Nat /\ NoteCap <= Cardinality(K)
      BY <1>3, <2>1, <2>2, RetentionConstants DEF Deletable
  <2>4. PICK top : top = {k \in K : Cardinality(Newer(K, k)) < NoteCap}
      OBVIOUS
  <2>5. IsFiniteSet(top) /\ Cardinality(top) = NoteCap
      BY <2>2, <2>3, <2>4, TopRanks
  <2>6. ASSUME NEW k \in top PROVE k \in NewerLive(kept', i)
    <3>1. /\ k \in K /\ k \in DOMAIN kept /\ k > i /\ kept[k].live /\ kept[k].to = kept[i].to
          /\ k \in Nat /\ i \in Nat
        BY <1>1, <2>1, <2>4, KeptRows DEF NewerLive
    <3>2. ~PastAge(k)
        BY <1>1, <1>3, <3>1, KeptRows, RetentionConstants DEF BornInOrder, PastAge
    <3>3. NewerLive(kept, k) = Newer(K, k)
      <4>1. \A m \in DOMAIN kept : m \in Nat
          BY <1>1, KeptRows
      <4>2. \A m \in DOMAIN kept : m > k => m > i
          BY <3>1, <4>1
      <4> QED
          BY <2>1, <3>1, <4>2 DEF NewerLive, Newer
    <3>4. ~(Cardinality(NewerLive(kept, k)) >= NoteCap)
      <4>1. Cardinality(NewerLive(kept, k)) \in Nat
          BY <1>1, KeptRows, NewerLiveFinite
      <4> QED
          BY <2>3, <2>4, <3>3, <4>1
    <3>5. k \notin S
        BY <3>1, <3>2, <3>4 DEF Deletable
    <3> QED
        BY <3>1, <3>5, DeletedRows DEF NewerLive
  <2>7. IsFiniteSet(NewerLive(kept', i)) /\ Cardinality(NewerLive(kept', i)) \in Nat
      BY <1>1, KeptRows, DeletedRows, NewerLiveFinite
  <2>8. Cardinality(top) <= Cardinality(NewerLive(kept', i))
      BY <2>6, <2>7, FS_Subset
  <2> QED
      BY <2>3, <2>5, <2>7, <2>8
<1> QED
    BY <1>2, <1>3

\* A run deletes rows that may be deleted, and keeps nothing it has found.
LEMMA DeletionStep ==
    ASSUME RetentionInv, NEW p \in PruneCall, NEW g \in PruneState, NEW S, Delete(S),
           \A k \in S : k \in DOMAIN kept /\ kept[k].live => Deletable(k),
           prunes' = [prunes EXCEPT ![p] = g], UNCHANGED <<night, pruneLock, lost>>,
           prunes[p].at # "idle", g.over = {}
    PROVE  RetentionInv'
<1>1. prunes' \in [PruneCall -> PruneState] /\ prunes'[p] = g
    BY DEF RetentionInv, RetentionTypeOK
<1>2. ASSUME NEW q \in PruneCall PROVE PruneSound(q)'
  <2>1. CASE q = p
      BY <1>1, <2>1 DEF PruneSound, RetentionInv
  <2>2. CASE q # p
    <3>1. prunes'[q] = prunes[q] /\ PruneSound(q)
        BY <2>2 DEF RetentionInv, RetentionTypeOK
    <3>2. ASSUME NEW i \in prunes[q].over PROVE i \in DOMAIN kept' /\ Deletable(i)'
      <4>1. i \in DOMAIN kept /\ Deletable(i)
          BY <3>1 DEF PruneSound
      <4>2. PastAge(i)' \/ Cardinality(NewerLive(kept', i)) >= NoteCap
          BY <4>1, NewestStay
      <4> QED
          BY <4>1, <4>2, DeletedRows DEF Deletable
    <3> QED
        BY <3>1, <3>2 DEF PruneSound
  <2> QED
      BY <2>1, <2>2
<1>3. BornInOrder'
    BY DeletedRows DEF RetentionInv, BornInOrder
<1> QED
    BY <1>1, <1>2, <1>3, DeletedRows DEF RetentionInv, RetentionTypeOK

LEMMA PruneByAgeStep == ASSUME RetentionInv, NEW p \in PruneCall, PruneByAge(p) PROVE RetentionInv'
<1>1. PICK g : g = [prunes[p] EXCEPT !.at = "aged"]
    OBVIOUS
<1>2. prunes[p] \in PruneState /\ prunes[p].at = "locked" /\ prunes[p].over = {}
    BY DEF RetentionInv, RetentionTypeOK, PruneSound, PruneByAge
<1>3. g \in PruneState /\ g.over = {}
    BY <1>1, <1>2 DEF PruneState
<1>4. prunes' = [prunes EXCEPT ![p] = g] /\ UNCHANGED <<night, pruneLock, lost>>
    BY <1>1 DEF PruneByAge, RetentionInv, RetentionTypeOK
<1>5. PICK S : S = {i \in DOMAIN kept : kept[i].born < night - RetentionTicks}
    OBVIOUS
<1>6. Delete(S) /\ \A k \in S : Deletable(k)
    BY <1>5 DEF PruneByAge, Deletable, PastAge
<1> QED
    BY <1>2, <1>3, <1>4, <1>6, DeletionStep

LEMMA DeleteOverflowStep ==
    ASSUME RetentionInv, NEW p \in PruneCall, DeleteOverflow(p) PROVE RetentionInv'
<1>1. PICK g : g = [prunes[p] EXCEPT !.over = {}]
    OBVIOUS
<1>2. prunes[p] \in PruneState /\ prunes[p].at = "cap"
    BY DEF RetentionInv, RetentionTypeOK, PruneSound, DeleteOverflow
<1>3. g \in PruneState /\ g.over = {}
    BY <1>1, <1>2 DEF PruneState
<1>4. prunes' = [prunes EXCEPT ![p] = g] /\ UNCHANGED <<night, pruneLock, lost>>
    BY <1>1 DEF DeleteOverflow, RetentionInv, RetentionTypeOK
<1>5. Delete(prunes[p].over) /\ \A k \in prunes[p].over : Deletable(k)
    BY DEF DeleteOverflow, RetentionInv, PruneSound
<1> QED
    BY <1>2, <1>3, <1>4, <1>5, DeletionStep

LEMMA FindOverCapStep == ASSUME RetentionInv, NEW p \in PruneCall, FindOverCap(p) PROVE RetentionInv'
<1>1. PICK T : T = {u \in Recipient : Cardinality(KeptOf(u)) > NoteCap}
    OBVIOUS
<1>2. PICK g : g = [prunes[p] EXCEPT !.at = "cap", !.todo = T]
    OBVIOUS
<1>3. prunes[p] \in PruneState /\ prunes[p].at = "aged" /\ prunes[p].over = {}
    BY DEF RetentionInv, RetentionTypeOK, PruneSound, FindOverCap
<1>4. g \in PruneState /\ g.over = {}
    BY <1>1, <1>2, <1>3 DEF PruneState
<1>5. prunes' = [prunes EXCEPT ![p] = g] /\ UNCHANGED <<kept, night, pruneLock, lost>>
    BY <1>1, <1>2 DEF FindOverCap, RetentionInv, RetentionTypeOK
<1> QED
    BY <1>3, <1>4, <1>5, PruneMoves

LEMMA EndPruneStep == ASSUME RetentionInv, NEW p \in PruneCall, EndPrune(p) PROVE RetentionInv'
<1>1. PICK g : g = [prunes[p] EXCEPT !.at = "unlock", !.todo = {}, !.over = {}]
    OBVIOUS
<1>2. prunes[p] \in PruneState /\ prunes[p].at # "idle"
    BY DEF RetentionInv, RetentionTypeOK, EndPrune
<1>3. g \in PruneState /\ g.over = {}
    BY <1>1, <1>2 DEF PruneState
<1>4. prunes' = [prunes EXCEPT ![p] = g] /\ UNCHANGED <<kept, night, pruneLock, lost>>
    BY <1>1 DEF EndPrune, RetentionInv, RetentionTypeOK
<1> QED
    BY <1>2, <1>3, <1>4, PruneMoves

LEMMA FindOverflowStep ==
    ASSUME RetentionInv, NEW p \in PruneCall, NEW u \in Recipient, FindOverflow(p, u)
    PROVE  RetentionInv'
<1>1. PICK K, O, T : K = KeptOf(u) /\ O = Overflow(u) /\ T = prunes[p].todo \ {u}
    OBVIOUS
<1>2. PICK g : g = [prunes[p] EXCEPT !.todo = T, !.over = O]
    OBVIOUS
<1>3. prunes[p] \in PruneState /\ prunes[p].at = "cap"
    BY DEF RetentionInv, RetentionTypeOK, FindOverflow
<1>4. /\ K \in SUBSET DOMAIN kept /\ DOMAIN kept \subseteq 1..KeptBound
      /\ \A k \in DOMAIN kept : k \in K <=> kept[k].live /\ kept[k].to = u
    BY <1>1, RetentionConstants DEF KeptOf, RetentionInv, RetentionTypeOK
<1>5. O = {i \in K : Cardinality(Newer(K, i)) >= NoteCap}
    BY <1>1 DEF Overflow
<1>7. O \in SUBSET (1..KeptBound) /\ T \in SUBSET Recipient
    BY <1>1, <1>3, <1>4, <1>5 DEF PruneState
<1>8. g \in PruneState /\ g.at = "cap" /\ g.over = O
    BY <1>2, <1>3, <1>7 DEF PruneState
<1>9. ASSUME NEW i \in O PROVE i \in DOMAIN kept /\ Deletable(i)
  <2>1. i \in K /\ i \in DOMAIN kept /\ Cardinality(Newer(K, i)) >= NoteCap
      BY <1>4, <1>5
  <2>2. NewerLive(kept, i) = Newer(K, i)
      BY <1>4, <2>1 DEF NewerLive, Newer
  <2> QED
      BY <2>1, <2>2 DEF Deletable
<1>10. prunes' = [prunes EXCEPT ![p] = g] /\ UNCHANGED <<kept, night, pruneLock, lost>>
    BY <1>1, <1>2 DEF FindOverflow, RetentionInv, RetentionTypeOK
<1> QED
    BY <1>3, <1>8, <1>9, <1>10, PruneMoves

LEMMA UnlockPruneStep ==
    ASSUME RetentionInv, NEW p \in PruneCall, NEW c \in Connection[p], UnlockPrune(p, c)
    PROVE  RetentionInv'
<1>1. PICK g : g = [prunes[p] EXCEPT !.at = "idle"]
    OBVIOUS
<1>2. prunes[p] \in PruneState /\ prunes[p].at = "unlock" /\ prunes[p].over = {}
    BY DEF RetentionInv, RetentionTypeOK, PruneSound, UnlockPrune
<1>3. g \in PruneState /\ g.at = "idle" /\ g.over = {}
    BY <1>1, <1>2 DEF PruneState
<1>4. prunes' = [prunes EXCEPT ![p] = g] /\ lost' = lost \ {p} /\ UNCHANGED <<kept, night>>
    BY <1>1 DEF UnlockPrune, RetentionInv, RetentionTypeOK
<1>5. /\ pruneLock' \in Seq(Conn)
      /\ \A i, k \in DOMAIN pruneLock' : pruneLock'[i] = pruneLock'[k]
  <2>1. pruneLock \in Seq(Conn) /\ \A i, k \in DOMAIN pruneLock : pruneLock[i] = pruneLock[k]
      BY DEF RetentionInv, RetentionTypeOK
  <2>2. CASE pruneLock' = pruneLock
      BY <2>1, <2>2
  <2>3. CASE pruneLock # <<>> /\ pruneLock' = Tail(pruneLock)
    <3>1. pruneLock' \in Seq(Conn) /\ Len(pruneLock') = Len(pruneLock) - 1
        BY <2>1, <2>3
    <3>2. \A i \in DOMAIN pruneLock' : i + 1 \in DOMAIN pruneLock /\ pruneLock'[i] = pruneLock[i + 1]
        BY <2>1, <2>3, <3>1
    <3> QED
        BY <2>1, <3>1, <3>2
  <2> QED
      BY <2>1, <2>2, <2>3 DEF UnlockPrune
<1>6. ASSUME NEW q \in PruneCall PROVE PruneSound(q)'
  <2>1. CASE q = p
    <3>1. prunes'[q] = g
        BY <1>4, <2>1 DEF RetentionInv, RetentionTypeOK
    <3> QED
        BY <1>3, <3>1 DEF PruneSound
  <2>2. CASE q # p
    <3>1. prunes'[q] = prunes[q] /\ PruneSound(q)
        BY <1>4, <2>2 DEF RetentionInv, RetentionTypeOK
    <3>2. ASSUME prunes[q].at # "idle", q \notin lost PROVE pruneLock' = pruneLock
      <4>1. pruneLock # <<>> /\ pruneLock[1] \in Connection[q] /\ pruneLock \in Seq(Conn)
          BY <3>1, <3>2 DEF PruneSound, RetentionInv, RetentionTypeOK
      <4>2. 1 \in DOMAIN pruneLock /\ \A i \in DOMAIN pruneLock : pruneLock[i] = pruneLock[1]
          BY <4>1 DEF RetentionInv
      <4>3. pruneLock[1] # c
          BY <2>2, <4>1, RetentionConstants
      <4> QED
          BY <4>2, <4>3 DEF UnlockPrune
    <3>3. \A i : Deletable(i)' <=> Deletable(i)
        BY <1>4 DEF Deletable, PastAge, NewerLive
    <3> QED
        BY <1>4, <2>2, <3>1, <3>2, <3>3 DEF PruneSound
  <2> QED
      BY <2>1, <2>2
<1>7. prunes' \in [PruneCall -> PruneState] /\ lost' \subseteq PruneCall
    BY <1>3, <1>4 DEF RetentionInv, RetentionTypeOK
<1> QED
    BY <1>4, <1>5, <1>6, <1>7 DEF RetentionInv, RetentionTypeOK, BornInOrder

\* The lock goes with its connection: the instance whose it was has lost it.
LEMMA DropConnectionStep ==
    ASSUME RetentionInv, NEW c \in Conn, DropConnection(c) PROVE RetentionInv'
<1>1. /\ pruneLock' = <<>> /\ UNCHANGED <<kept, night, prunes>>
      /\ lost' = lost \cup {p \in PruneCall : c \in Connection[p] /\ prunes[p].at # "idle"}
      /\ \A i \in DOMAIN pruneLock : pruneLock[i] = c
    BY DEF DropConnection, RetentionInv
<1>2. ASSUME NEW q \in PruneCall PROVE PruneSound(q)'
  <2>1. PruneSound(q)
      BY DEF RetentionInv
  <2>2. ASSUME prunes[q].at # "idle" PROVE q \in lost'
    <3>1. ASSUME q \notin lost PROVE c \in Connection[q]
      <4>1. pruneLock # <<>> /\ pruneLock[1] \in Connection[q] /\ pruneLock \in Seq(Conn)
          BY <2>1, <2>2, <3>1 DEF PruneSound, RetentionInv, RetentionTypeOK
      <4> QED
          BY <1>1, <4>1
    <3> QED
        BY <1>1, <2>2, <3>1
  <2>3. \A i : Deletable(i)' <=> Deletable(i)
      BY <1>1 DEF Deletable, PastAge, NewerLive
  <2> QED
      BY <1>1, <2>1, <2>2, <2>3 DEF PruneSound
<1>3. pruneLock' \in Seq(Conn) /\ lost' \subseteq PruneCall /\ DOMAIN pruneLock' = {}
    BY <1>1 DEF RetentionInv, RetentionTypeOK
<1> QED
    BY <1>1, <1>2, <1>3 DEF RetentionInv, RetentionTypeOK, BornInOrder

LEMMA RetentionStep == ASSUME RetentionInv, [RetentionNext]_keptVars PROVE RetentionInv'
<1>1. CASE NightFalls
  <2>1. /\ night' \in 0..NightBound /\ night' = night + 1 /\ UNCHANGED <<kept, prunes, pruneLock, lost>>
        /\ night \in Nat /\ RetentionTypeOK /\ DOMAIN kept \subseteq 1..KeptBound
      BY <1>1, KeptRows, RetentionConstants DEF NightFalls, RetentionInv, RetentionTypeOK
  <2>2. \A i \in DOMAIN kept : Deletable(i) => Deletable(i)'
      BY <2>1, DeletableGrows DEF NewerLive
  <2>3. BornInOrder'
      BY <2>1, KeptRows DEF RetentionInv, BornInOrder
  <2>4. \A p \in PruneCall : PruneSound(p)'
      BY <2>1, <2>2 DEF RetentionInv, PruneSound
  <2> QED
      BY <2>1, <2>3, <2>4 DEF RetentionInv, RetentionTypeOK
<1>2. CASE UNCHANGED keptVars
  <2>1. \A i : Deletable(i)' <=> Deletable(i)
      BY <1>2 DEF keptVars, Deletable, PastAge, NewerLive
  <2>2. \A p \in PruneCall : PruneSound(p)'
      BY <1>2, <2>1 DEF keptVars, RetentionInv, PruneSound
  <2> QED
      BY <1>2, <2>2 DEF keptVars, RetentionInv, RetentionTypeOK, BornInOrder
<1> QED
    BY <1>1, <1>2, ArriveStep, StartPruneStep, PruneByAgeStep, FindOverCapStep, FindOverflowStep,
       DeleteOverflowStep, EndPruneStep, UnlockPruneStep, DropConnectionStep DEF RetentionNext

LEMMA RetentionInitInv == ASSUME RetentionInit PROVE RetentionInv
<1>1. IdlePrune \in PruneState /\ IdlePrune.at = "idle" /\ IdlePrune.over = {}
    BY RetentionConstants DEF IdlePrune, PruneState
<1>2. RetentionTypeOK
    BY <1>1, RetentionConstants DEF RetentionInit, RetentionTypeOK
<1> QED
    BY <1>1, <1>2 DEF RetentionInit, RetentionInv, PruneSound, BornInOrder

\* Rows a step deletes are past the retention age or have NoteCap newer ones that stay.
LEMMA StepKeepsNewest ==
    ASSUME RetentionInv, RetentionNext, NEW i \in DOMAIN kept, kept[i].live, ~kept'[i].live
    PROVE  \/ kept[i].born < night - RetentionTicks
           \/ Cardinality({k \in DOMAIN kept' : /\ k > i
                                                 /\ kept'[k].live
                                                 /\ kept'[k].to = kept[i].to}) >= NoteCap
<1>1. ASSUME NEW p \in PruneCall, PruneByAge(p) PROVE kept[i].born < night - RetentionTicks
    BY <1>1, DeletedRows DEF PruneByAge
<1>2. ASSUME NEW p \in PruneCall, DeleteOverflow(p)
      PROVE  \/ kept[i].born < night - RetentionTicks
             \/ Cardinality({k \in DOMAIN kept' : /\ k > i
                                                   /\ kept'[k].live
                                                   /\ kept'[k].to = kept[i].to}) >= NoteCap
  <2>1. PICK O : O = prunes[p].over
      OBVIOUS
  <2>2. Delete(O) /\ night' = night
      BY <1>2, <2>1 DEF DeleteOverflow
  <2>3. i \in O /\ kept'[i].to = kept[i].to
      BY <2>2, DeletedRows
  <2>4. \A k \in O : k \in DOMAIN kept /\ Deletable(k)
      BY <2>1 DEF RetentionInv, PruneSound
  <2>5. PastAge(i) \/ Cardinality(NewerLive(kept', i)) >= NoteCap
      BY <2>2, <2>3, <2>4, NewestStay
  <2> QED
      BY <2>3, <2>5 DEF NewerLive, PastAge
<1>3. ASSUME kept' = kept PROVE FALSE
    BY <1>3
<1>4. ASSUME NEW u \in Recipient, Arrive(u) PROVE FALSE
  <2>1. kept \in Seq(KeptRow) /\ kept' = Append(kept, [to |-> u, born |-> night, live |-> TRUE])
      BY <1>4 DEF Arrive, RetentionInv, RetentionTypeOK
  <2>2. kept'[i] = kept[i]
      BY <2>1
  <2> QED
      BY <2>2
<1>5. ASSUME NEW p \in PruneCall,
             \/ \E c \in Connection[p] : StartPrune(p, c) \/ UnlockPrune(p, c)
             \/ FindOverCap(p) \/ EndPrune(p)
             \/ \E u \in Recipient : FindOverflow(p, u)
      PROVE  kept' = kept
    BY <1>5 DEF StartPrune, UnlockPrune, FindOverCap, EndPrune, FindOverflow
<1>6. ASSUME NightFalls \/ \E c \in Conn : DropConnection(c) PROVE kept' = kept
    BY <1>6 DEF NightFalls, DropConnection
<1> QED
    BY <1>1, <1>2, <1>3, <1>4, <1>5, <1>6 DEF RetentionNext

\* The advisory lock lets one instance prune at a time, whichever connections of the
\* pools acquire and release it, unless a run under way has lost the connection that
\* holds its lock (NotificationPruneScheduler); and the state is well typed.
THEOREM OnePrunerAtATime == RetentionSpec => [](RetentionTypeOK /\ OnePruner)
<1>1. RetentionInv => RetentionTypeOK /\ OnePruner
    BY InvOnePruner DEF RetentionInv
<1> QED
    BY <1>1, RetentionInitInv, RetentionStep, PTL DEF RetentionSpec

\* The prune deletes only rows past their age or beyond the newest NoteCap of their
\* recipient, though rows keep arriving between its statements and instances whose lock
\* is lost prune at the same time (NotificationService.prune).
THEOREM PruneKeepsTheNewest == RetentionSpec => PruneKeepsNewest
<1>1. RetentionInv /\ [RetentionNext]_keptVars =>
        [\A i \in DOMAIN kept :
          kept[i].live /\ ~kept'[i].live =>
            \/ kept[i].born < night - RetentionTicks
            \/ Cardinality({k \in DOMAIN kept' : /\ k > i
                                                  /\ kept'[k].live
                                                  /\ kept'[k].to = kept[i].to}) >= NoteCap]_keptVars
    BY StepKeepsNewest
<1> QED
    BY <1>1, RetentionInitInv, RetentionStep, PTL DEF RetentionSpec, PruneKeepsNewest

-----------------------------------------------------------------------------
(* The nightly rollup *)

\* Every nonempty set of naturals has a least element.
LEMMA LeastNat ==
  ASSUME NEW T, T \subseteq Nat, T # {}
  PROVE  \E m \in T : \A n \in T : m <= n
<1> DEFINE R == OpToRel(<, Nat)
<1>1. IsWellFoundedOn(R, Nat)
  BY NatLessThanWellFounded
<1>2. ASSUME NEW x \in Nat, NEW y \in Nat
      PROVE  <<y, x>> \in R <=> y < x
  BY DEF OpToRel
<1> HIDE DEF R
<1>3. PICK x \in T : \A y \in T : ~(<<y, x>> \in R)
  BY <1>1, WFMin
<1>4. ASSUME NEW y \in T
      PROVE  x <= y
  <2>1. x \in Nat /\ y \in Nat
    OBVIOUS
  <2>2. ~(y < x)
    BY <2>1, <1>2, <1>3
  <2> QED
    BY <2>1, <2>2
<1> QED
  BY <1>4


\* The recursion that adds up the amounts of a finite set: one of them, and the rest.
One(s) == CHOOSE x \in s : TRUE
Summed(a, f, s) == IF s = {} THEN 0 ELSE a[One(s)] + f[s \ {One(s)}]
SumsUpTo(S, a, n) ==
    \E f : f = [s \in {t \in SUBSET S : Cardinality(t) <= n} |-> Summed(a, f, s)]

LEMMA SumsExtend ==
    ASSUME NEW S, IsFiniteSet(S), NEW a, NEW n \in Nat, SumsUpTo(S, a, n)
    PROVE  SumsUpTo(S, a, n + 1)
<1>1. PICK D, E : /\ D = {t \in SUBSET S : Cardinality(t) <= n}
                  /\ E = {t \in SUBSET S : Cardinality(t) <= n + 1}
    OBVIOUS
<1>2. PICK f : f = [s \in D |-> Summed(a, f, s)]
    BY <1>1, Zenon DEF SumsUpTo
<1>3. PICK g : g = [s \in E |-> Summed(a, f, s)]
    OBVIOUS
<1>4. ASSUME NEW s \in E PROVE Summed(a, g, s) = Summed(a, f, s)
  <2>1. CASE s = {}
      BY <2>1 DEF Summed
  <2>2. CASE s # {}
    <3>1. PICK t : t = s \ {One(s)}
        OBVIOUS
    <3>2. One(s) \in s
        BY <2>2 DEF One
    <3>3. s \in SUBSET S /\ Cardinality(s) <= n + 1 /\ IsFiniteSet(s) /\ Cardinality(s) \in Nat
      <4>1. s \in SUBSET S /\ Cardinality(s) <= n + 1
          BY <1>1
      <4>2. IsFiniteSet(s)
          BY <4>1, FS_Subset
      <4> QED
          BY <4>1, <4>2, FS_CardinalityType
    <3>4. Cardinality(t) = Cardinality(s) - 1
      <4>1. Cardinality(s \ {One(s)})
              = IF One(s) \in s THEN Cardinality(s) - 1 ELSE Cardinality(s)
          BY <3>3, FS_RemoveElement
      <4> QED
          BY <3>1, <3>2, <4>1
    <3>5. t \in SUBSET S /\ Cardinality(t) <= n /\ Cardinality(t) <= n + 1
        BY <3>1, <3>3, <3>4
    <3>6. t \in D /\ t \in E
        BY <1>1, <3>5
    <3>7. f[t] = Summed(a, f, t) /\ g[t] = Summed(a, f, t)
        BY <1>2, <1>3, <3>6, Zenon
    <3> QED
        BY <2>2, <3>1, <3>7 DEF Summed
  <2> QED
      BY <2>1, <2>2
<1>5. g = [s \in E |-> Summed(a, g, s)]
    BY <1>3, <1>4, Zenon
<1> QED
    BY <1>1, <1>5, Zenon DEF SumsUpTo

LEMMA SumsExist ==
    ASSUME NEW S, IsFiniteSet(S), NEW a
    PROVE  \E f : f = [s \in SUBSET S |-> Summed(a, f, s)]
<1>1. PICK T : T = {n \in Nat : ~SumsUpTo(S, a, n)}
    OBVIOUS
<1>2. SumsUpTo(S, a, 0)
  <2>1. PICK D : D = {t \in SUBSET S : Cardinality(t) <= 0}
      OBVIOUS
  <2>2. PICK f : f = [s \in D |-> 0]
      OBVIOUS
  <2>3. ASSUME NEW s \in D PROVE Summed(a, f, s) = 0
    <3>1. IsFiniteSet(s) /\ Cardinality(s) <= 0
        BY <2>1, FS_Subset
    <3>2. s = {}
        BY <3>1, FS_CardinalityType, FS_EmptySet
    <3> QED
        BY <3>2 DEF Summed
  <2>4. f = [s \in D |-> Summed(a, f, s)]
      BY <2>2, <2>3, Zenon
  <2> QED
      BY <2>1, <2>4, Zenon DEF SumsUpTo
<1>3. T = {}
  <2> SUFFICES ASSUME T # {} PROVE FALSE
      OBVIOUS
  <2>1. PICK m \in T : \A n \in T : m <= n
      BY <1>1, LeastNat
  <2>2. m \in Nat /\ m # 0
      BY <1>1, <1>2, <2>1
  <2>3. m - 1 \in Nat /\ m - 1 \notin T /\ (m - 1) + 1 = m
      BY <2>1, <2>2
  <2>4. SumsUpTo(S, a, m - 1)
      BY <1>1, <2>3
  <2>5. SumsUpTo(S, a, (m - 1) + 1)
      BY <2>3, <2>4, SumsExtend
  <2> QED
      BY <1>1, <2>1, <2>3, <2>5
<1>4. Cardinality(S) \in Nat
    BY FS_CardinalityType
<1>5. SumsUpTo(S, a, Cardinality(S))
    BY <1>1, <1>3, <1>4
<1>6. {t \in SUBSET S : Cardinality(t) <= Cardinality(S)} = SUBSET S
    BY FS_Subset
<1> QED
    BY <1>5, <1>6, Zenon DEF SumsUpTo

\* What Total computes.
LEMMA TotalSums ==
    ASSUME NEW a, IsFiniteSet(DOMAIN a)
    PROVE  \E f : f = [s \in SUBSET DOMAIN a |-> Summed(a, f, s)] /\ Total(a) = f[DOMAIN a]
<1> DEFINE f == CHOOSE f : f = [s \in SUBSET DOMAIN a |-> Summed(a, f, s)]
<1>1. f = [s \in SUBSET DOMAIN a |-> Summed(a, f, s)]
  <2>1. \E g : g = [s \in SUBSET DOMAIN a |-> Summed(a, g, s)]
      BY SumsExist
  <2> QED
      BY <2>1, Zenon
<1>2. Total(a) = f[DOMAIN a]
    BY Zenon DEF Total, FoldFunction, FoldFunctionOnSet, MapThenFoldSet, Summed, One
<1> QED
    BY <1>1, <1>2

\* A total of numbers up to b is a number, at most b for each of them.
LEMMA TotalBound ==
    ASSUME NEW S, IsFiniteSet(S), NEW b \in Nat, NEW a \in [S -> 0..b]
    PROVE  Total(a) \in 0..(b * Cardinality(S))
<1>1. PICK f : f = [s \in SUBSET S |-> Summed(a, f, s)] /\ Total(a) = f[S]
  <2>1. DOMAIN a = S
      OBVIOUS
  <2> QED
      BY <2>1, TotalSums, Zenon
<1> DEFINE Bad(s) == f[s] \notin 0..(b * Cardinality(s))
<1>2. PICK T : T = {n \in Nat : \E s \in SUBSET S : Cardinality(s) = n /\ Bad(s)}
    OBVIOUS
<1>3. ASSUME NEW m \in T, \A n \in T : m <= n PROVE FALSE
  <2>1. PICK s \in SUBSET S : Cardinality(s) = m /\ Bad(s)
      BY <1>2
  <2>2. m \in Nat /\ IsFiniteSet(s)
      BY <1>2, FS_Subset
  <2>3. f[s] = Summed(a, f, s)
      BY <1>1, Zenon
  <2>4. CASE s = {}
    <3>1. f[s] = 0
        BY <2>3, <2>4 DEF Summed
    <3>2. Cardinality(s) = 0
        BY <2>4, FS_EmptySet
    <3>3. b * Cardinality(s) = 0
        BY <3>2
    <3> QED
        BY <2>1, <3>1, <3>3
  <2>5. CASE s # {}
    <3>1. PICK x, t : x = One(s) /\ t = s \ {x}
        OBVIOUS
    <3>2. x \in s /\ x \in S
        BY <2>5, <3>1 DEF One
    <3>3. Cardinality(t) = m - 1 /\ t \in SUBSET S
      <4>1. Cardinality(s \ {x}) = IF x \in s THEN Cardinality(s) - 1 ELSE Cardinality(s)
          BY <2>2, FS_RemoveElement
      <4> QED
          BY <2>1, <3>1, <3>2, <4>1
    <3>4. m - 1 \in Nat
      <4>1. IsFiniteSet(t)
          BY <2>2, <3>1, FS_Subset
      <4>2. Cardinality(t) \in Nat
          BY <4>1, FS_CardinalityType
      <4> QED
          BY <3>3, <4>2
    <3>5. m - 1 \notin T
        BY <1>3, <2>2, <3>4
    <3>6. ~Bad(t)
        BY <1>2, <3>3, <3>4, <3>5
    <3>7. f[t] \in 0..(b * (m - 1)) /\ a[x] \in 0..b
        BY <3>2, <3>3, <3>6
    <3>8. f[s] = a[x] + f[t]
        BY <2>3, <2>5, <3>1 DEF Summed
    <3>9. b * m = b + b * (m - 1) /\ b * (m - 1) \in Nat
        BY <2>2, <3>4
    <3>10. f[s] \in 0..(b * m)
        BY <3>7, <3>8, <3>9
    <3> QED
        BY <2>1, <3>10
  <2> QED
      BY <2>4, <2>5
<1>4. T = {}
    BY <1>2, <1>3, LeastNat
<1>5. S \in SUBSET S /\ Cardinality(S) \in Nat
    BY FS_CardinalityType
<1>6. ~Bad(S)
    BY <1>2, <1>4, <1>5
<1> QED
    BY <1>1, <1>6

Metric == {"new", "transactions"}

\* What an undisturbed run has counted and written so far.
RunSound(s) ==
    s.clean =>
        /\ s.at # "idle" => s.day = day
        /\ s.at \in {"volume", "write", "replace"} => s.row = CountedOf(day)
        /\ s.at = "volume" => s.next = 1
        /\ s.at \in {"write", "replace"} => s.vols = posted[day]
        /\ s.at = "write" /\ s.next = 2 => scalars[day]["new"] = s.row["new"]
        /\ s.at = "replace" => scalars[day] = s.row
        /\ s.at = "done" => /\ scalars[day] = CountedOf(day)
                            /\ ServedVolume(day) = Total(posted[day])

\* A run that is under way or ended undisturbed, and the runs that go with it: while there
\* is one, every run that still writes is undisturbed too, and so has counted the same.
Undisturbed(s) == s.clean /\ s.at # "idle"
Agreeing(q, r) == Undisturbed(rollups[q]) /\ Writing(r) => rollups[r].clean

RollupInv ==
    /\ day \in Day /\ posted \in [Day -> Volumes]
    /\ reversals \in [Day -> 0..MovementBound] /\ enrolled \in [Day -> 0..1]
    /\ scalars \in [Day -> [Metric -> Count \cup {NoRow}]]
    /\ volumes \in [Day -> [VolumeCurrency -> 0..MovementBound \cup {NoRow}]]
    /\ rollups \in [RollupRun -> RollupState]
    /\ rollupLock \in RollupRun \cup {NoRun}
    /\ \A r \in RollupRun : RunSound(rollups[r])
    /\ \A q, r \in RollupRun : Agreeing(q, r)

LEMMA CountedType == ASSUME RollupInv PROVE CountedOf(day) \in Counted
<1>1. posted[day] \in Volumes /\ reversals[day] \in 0..MovementBound /\ enrolled[day] \in 0..1
    BY DEF RollupInv
<1>2. PICK t, n : t = Total(posted[day]) /\ n = MovementBound * Cardinality(VolumeCurrency)
    OBVIOUS
<1>3. MovementBound \in Nat /\ IsFiniteSet(VolumeCurrency)
    BY RollupAssumption
<1>4. t \in 0..n
  <2>1. posted[day] \in [VolumeCurrency -> 0..MovementBound]
      BY <1>1 DEF Volumes
  <2> QED
      BY <1>2, <1>3, <2>1, TotalBound
<1>5. n \in Nat
  <2>1. Cardinality(VolumeCurrency) \in Nat
      BY <1>3, FS_CardinalityType
  <2> QED
      BY <1>2, <1>3, <2>1
<1>6. TransactionsOf(day) \in Count /\ enrolled[day] \in Count
  <2>1. TransactionsOf(day) = t + reversals[day] /\ Count = 0..(n + MovementBound + 1)
      BY <1>2 DEF TransactionsOf, Count
  <2> QED
      BY <1>1, <1>3, <1>4, <1>5, <2>1
<1> QED
    BY <1>6 DEF CountedOf, Counted

LEMMA IdleRollupType ==
    IdleRollup \in RollupState /\ IdleRollup.at = "idle" /\ ~IdleRollup.clean /\ IdleRollup.next = 1
<1>1. 0 \in Day /\ 0 \in Count /\ 0 \in 0..MovementBound
  <2>1. MovementBound \in Nat /\ LastDay \in Nat /\ Cardinality(VolumeCurrency) \in Nat
      BY RollupAssumption, FS_CardinalityType
  <2>2. MovementBound * Cardinality(VolumeCurrency) \in Nat
      BY <2>1
  <2> QED
      BY <2>1, <2>2 DEF Day, Count
<1>2. [m \in Metric |-> 0] \in Counted /\ [c \in VolumeCurrency |-> 0] \in Volumes
    BY <1>1 DEF Volumes, Counted, Metric
<1> QED
    BY <1>1, <1>2 DEF IdleRollup, RollupState, Metric

\* The day or what is counted changes: no run is undisturbed any more.
LEMMA DisturbStep ==
    ASSUME RollupInv, Disturb, day' \in Day, posted' \in [Day -> Volumes],
           reversals' \in [Day -> 0..MovementBound], enrolled' \in [Day -> 0..1],
           UNCHANGED <<scalars, volumes, rollupLock>>
    PROVE  RollupInv'
<1>1. ASSUME NEW r \in RollupRun
      PROVE  /\ rollups'[r] \in RollupState /\ rollups'[r].at = rollups[r].at
             /\ rollups'[r].clean = FALSE
  <2>1. rollups[r] \in RollupState /\ rollups'[r] = [rollups[r] EXCEPT !.clean = FALSE]
      BY DEF RollupInv, Disturb
  <2> QED
      BY <2>1 DEF RollupState
<1>2. rollups' \in [RollupRun -> RollupState]
    BY <1>1 DEF Disturb
<1>3. \A r \in RollupRun : RunSound(rollups[r])'
    BY <1>1 DEF RunSound
<1>4. \A q, r \in RollupRun : Agreeing(q, r)'
    BY <1>1 DEF Agreeing, Undisturbed
<1> QED
    BY <1>1, <1>2, <1>3, <1>4 DEF RollupInv

LEMMA SourceStep ==
    ASSUME RollupInv,
           \/ \E c \in VolumeCurrency : PostToday(c) \/ \E d \in 0..day : ReverseOf(d, c)
           \/ Enrol \/ Midnight
           \/ \E d \in 0..day : Leave(d)
    PROVE  RollupInv'
<1>1. /\ LastDay \in Nat /\ day \in Nat /\ day <= LastDay /\ \A d \in 0..day : d \in Day
      /\ day < LastDay => day + 1 \in Day
    BY RollupAssumption DEF RollupInv, Day
<1>2. ASSUME NEW d \in Day, NEW c \in VolumeCurrency
      PROVE  posted[d] \in Volumes /\ posted[d][c] \in 0..MovementBound
    BY DEF RollupInv, Volumes
<1>8. ASSUME NEW d \in Day, NEW c \in VolumeCurrency, NEW n \in 0..MovementBound,
             posted' = [posted EXCEPT ![d][c] = n]
      PROVE  posted' \in [Day -> Volumes]
  <2>1. PICK v : v = [posted[d] EXCEPT ![c] = n]
      OBVIOUS
  <2>2. v \in Volumes
      BY <1>2, <2>1 DEF Volumes
  <2>3. posted' = [posted EXCEPT ![d] = v]
      BY <1>8, <2>1
  <2> QED
      BY <2>2, <2>3 DEF RollupInv
<1>3. ASSUME NEW c \in VolumeCurrency, PostToday(c) PROVE RollupInv'
  <2>1. posted' \in [Day -> Volumes]
    <3>1. day \in Day /\ posted[day][c] + 1 \in 0..MovementBound
        BY <1>2, <1>3, RollupAssumption DEF PostToday, RollupInv
    <3>2. posted' = [posted EXCEPT ![day][c] = posted[day][c] + 1]
        BY <1>3 DEF PostToday
    <3> QED
        BY <1>8, <3>1, <3>2
  <2> QED
      BY <1>3, <2>1, DisturbStep DEF PostToday, RollupInv
<1>4. ASSUME NEW c \in VolumeCurrency, NEW d \in 0..day, ReverseOf(d, c) PROVE RollupInv'
  <2>1. /\ d \in Day /\ posted[d][c] - 1 \in 0..MovementBound
        /\ reversals[day] + 1 \in 0..MovementBound
    <3>1. d \in Day
        BY <1>1
    <3>2. posted[d][c] \in 0..MovementBound /\ reversals[day] \in 0..MovementBound
        BY <1>2, <3>1 DEF RollupInv
    <3>3. posted[d][c] > 0 /\ reversals[day] < MovementBound
        BY <1>4 DEF ReverseOf
    <3> QED
        BY <3>1, <3>2, <3>3, RollupAssumption
  <2>2. posted' \in [Day -> Volumes] /\ reversals' \in [Day -> 0..MovementBound]
    <3>1. posted' = [posted EXCEPT ![d][c] = posted[d][c] - 1]
        BY <1>4 DEF ReverseOf
    <3>2. reversals' = [reversals EXCEPT ![day] = reversals[day] + 1]
        BY <1>4 DEF ReverseOf
    <3>3. posted' \in [Day -> Volumes]
        BY <1>8, <2>1, <3>1
    <3>4. reversals' \in [Day -> 0..MovementBound]
        BY <2>1, <3>2 DEF RollupInv
    <3> QED
        BY <3>3, <3>4
  <2> QED
      BY <1>4, <2>2, DisturbStep DEF ReverseOf, RollupInv
<1>5. CASE Enrol
    BY <1>5, DisturbStep DEF Enrol, RollupInv
<1>6. CASE Midnight
    BY <1>1, <1>6, DisturbStep DEF Midnight, sourceVars, RollupInv
<1>7. ASSUME NEW d \in 0..day, Leave(d) PROVE RollupInv'
  <2>1. enrolled' \in [Day -> 0..1]
    <3>1. enrolled \in [Day -> 0..1] /\ 0 \in 0..1
        BY DEF RollupInv
    <3>2. enrolled' = [enrolled EXCEPT ![d] = 0]
        BY <1>7 DEF Leave
    <3> QED
        BY <3>1, <3>2
  <2> QED
      BY <1>7, <2>1, DisturbStep DEF Leave, RollupInv
<1> QED
    BY <1>3, <1>4, <1>5, <1>6, <1>7

\* A step of one run.  What it writes while another is undisturbed is what that one has
\* counted.
LEMMA RunStep ==
    ASSUME RollupInv, NEW r \in RollupRun, NEW g \in RollupState,
           rollups' = [rollups EXCEPT ![r] = g], UNCHANGED <<day, sourceVars>>,
           scalars' \in [Day -> [Metric -> Count \cup {NoRow}]],
           volumes' \in [Day -> [VolumeCurrency -> 0..MovementBound \cup {NoRow}]],
           rollupLock' \in RollupRun \cup {NoRun},
           g.clean \/ g.at \in {"idle", "done"} \/ \A q \in RollupRun : ~Undisturbed(rollups[q]),
           Undisturbed(g) => \A q \in RollupRun : q # r /\ Writing(q) => rollups[q].clean,
           ASSUME NEW q \in RollupRun, q # r, Undisturbed(rollups[q])
           PROVE  /\ \A n \in Metric : scalars'[day][n] \in {scalars[day][n], CountedOf(day)[n]}
                  /\ ServedVolume(day)' \in {ServedVolume(day), Total(posted[day])},
           RunSound(g)'
    PROVE  RollupInv'
<1>1. rollups' \in [RollupRun -> RollupState] /\ rollups'[r] = g
    BY DEF RollupInv
<1>2. CountedOf(day)' = CountedOf(day) /\ day' = day /\ posted' = posted /\ day \in Day
    BY DEF CountedOf, TransactionsOf, sourceVars, RollupInv
<1>3. ASSUME NEW q \in RollupRun, q # r PROVE RunSound(rollups[q])'
  <2>1. rollups'[q] = rollups[q] /\ RunSound(rollups[q]) /\ rollups[q] \in RollupState
      BY <1>3 DEF RollupInv
  <2>2. CASE ~Undisturbed(rollups[q])
      BY <1>2, <2>1, <2>2 DEF RunSound, Undisturbed
  <2>3. CASE Undisturbed(rollups[q])
    <3>1. /\ \A n \in Metric : scalars'[day][n] \in {scalars[day][n], CountedOf(day)[n]}
          /\ ServedVolume(day)' \in {ServedVolume(day), Total(posted[day])}
        BY <1>3, <2>3
    <3>2. rollups[q].at = "write" /\ rollups[q].next = 2
            => scalars'[day]["new"] = rollups[q].row["new"]
        BY <2>1, <2>3, <3>1 DEF RunSound, Undisturbed, Metric
    <3>3. scalars[day] = CountedOf(day) => scalars'[day] = CountedOf(day)
      <4>1. CountedOf(day) \in Counted /\ scalars'[day] \in [Metric -> Count \cup {NoRow}]
          BY <1>2, CountedType
      <4> QED
          BY <3>1, <4>1 DEF Counted, Metric
    <3>4. ServedVolume(day) = Total(posted[day]) => ServedVolume(day)' = Total(posted[day])
        BY <3>1
    <3> QED
        BY <1>2, <2>1, <2>3, <3>2, <3>3, <3>4 DEF RunSound, Undisturbed
  <2> QED
      BY <2>2, <2>3
<1>4. RunSound(rollups[r])'
    BY <1>1 DEF RunSound
<1>5. ASSUME NEW p \in RollupRun, NEW q \in RollupRun PROVE Agreeing(p, q)'
  <2>1. /\ p # r => rollups'[p] = rollups[p]
        /\ q # r => rollups'[q] = rollups[q]
        /\ Agreeing(p, q)
      BY DEF RollupInv
  <2> QED
      BY <1>1, <2>1 DEF Agreeing, Undisturbed, Writing
<1> QED
    BY <1>1, <1>2, <1>3, <1>4, <1>5 DEF RollupInv, sourceVars

\* A step of a run that writes nothing.
LEMMA QuietRunStep ==
    ASSUME RollupInv, NEW r \in RollupRun, NEW g \in RollupState,
           rollups' = [rollups EXCEPT ![r] = g], UNCHANGED <<day, sourceVars, scalars, volumes>>,
           rollupLock' \in RollupRun \cup {NoRun},
           g.clean \/ g.at \in {"idle", "done"} \/ \A q \in RollupRun : ~Undisturbed(rollups[q]),
           Undisturbed(g) => \A q \in RollupRun : q # r /\ Writing(q) => rollups[q].clean,
           RunSound(g)'
    PROVE  RollupInv'
<1>1. /\ scalars' \in [Day -> [Metric -> Count \cup {NoRow}]]
      /\ volumes' \in [Day -> [VolumeCurrency -> 0..MovementBound \cup {NoRow}]]
      /\ \A n \in Metric : scalars'[day][n] \in {scalars[day][n], CountedOf(day)[n]}
      /\ ServedVolume(day)' = ServedVolume(day)
    BY DEF RollupInv, ServedVolume
<1> QED
    BY <1>1, RunStep

\* What goes on for a run that has begun.
LEMMA RunGoesOn ==
    ASSUME RollupInv, NEW r \in RollupRun, Writing(r), NEW g, g.clean = rollups[r].clean
    PROVE  /\ rollups[r] \in RollupState /\ RunSound(rollups[r]) /\ day \in Day
           /\ g.clean \/ \A q \in RollupRun : ~Undisturbed(rollups[q])
           /\ Undisturbed(g) => \A q \in RollupRun : q # r /\ Writing(q) => rollups[q].clean
           /\ \A q \in RollupRun : Undisturbed(rollups[q]) => rollups[r].clean
BY DEF RollupInv, Agreeing, Undisturbed, Writing

LEMMA StartRollupStep == ASSUME RollupInv, NEW r \in RollupRun, StartRollup(r) PROVE RollupInv'
<1>1. PICK i, R : i = IdleRollup /\ R = CountedOf(day)
    OBVIOUS
<1>0. PICK b : b = \A s \in RollupRun : Writing(s) => rollups[s].clean
    OBVIOUS
<1>2. PICK g : g = [i EXCEPT !.at = "volume", !.ran = day, !.row = R, !.day = day, !.clean = b]
    OBVIOUS
<1>9. b \in BOOLEAN
    BY <1>0, Zenon
<1>3. i \in RollupState /\ i.next = 1 /\ R \in Counted /\ day \in Day
    BY <1>1, IdleRollupType, CountedType DEF RollupInv
<1>4. /\ g \in RollupState /\ g.at = "volume" /\ g.row = R /\ g.day = day /\ g.next = 1
      /\ g.clean = b
    BY <1>2, <1>3, <1>9 DEF RollupState
<1>5. /\ rollups' = [rollups EXCEPT ![r] = g] /\ rollupLock' = r
      /\ UNCHANGED <<day, sourceVars, scalars, volumes>>
    BY <1>0, <1>1, <1>2 DEF StartRollup
<1>6. CountedOf(day)' = CountedOf(day)
    BY <1>5 DEF CountedOf, TransactionsOf, sourceVars
<1>7. RunSound(g)'
    BY <1>1, <1>4, <1>5, <1>6 DEF RunSound
<1>8. g.clean \/ \A q \in RollupRun : ~Undisturbed(rollups[q])
  <2>1. ASSUME NEW q \in RollupRun, Undisturbed(rollups[q]), NEW s \in RollupRun, Writing(s)
        PROVE  rollups[s].clean
      BY <2>1 DEF RollupInv, Agreeing
  <2>2. (\E q \in RollupRun : Undisturbed(rollups[q])) => b
      BY <1>0, <2>1
  <2> QED
      BY <1>4, <2>2
<1>10. Undisturbed(g) => \A q \in RollupRun : q # r /\ Writing(q) => rollups[q].clean
    BY <1>0, <1>4 DEF Undisturbed
<1> QED
    BY <1>4, <1>5, <1>7, <1>8, <1>10, QuietRunStep DEF RollupInv

LEMMA SkipRollupStep == ASSUME RollupInv, NEW r \in RollupRun, SkipRollup(r) PROVE RollupInv'
<1>1. PICK g : g = [rollups[r] EXCEPT !.ran = day]
    OBVIOUS
<1>2. rollups[r] \in RollupState /\ rollups[r].at = "idle" /\ day \in Day
    BY DEF RollupInv, SkipRollup
<1>3. g \in RollupState /\ g.at = "idle"
    BY <1>1, <1>2 DEF RollupState
<1>4. /\ rollups' = [rollups EXCEPT ![r] = g]
      /\ UNCHANGED <<day, sourceVars, scalars, volumes, rollupLock>>
    BY <1>1 DEF SkipRollup, RollupInv
<1>5. RunSound(g)' /\ ~Undisturbed(g)
  <2>1. RunSound(rollups[r]) /\ g.clean = rollups[r].clean
      BY <1>1, <1>2 DEF RollupInv, RollupState
  <2> QED
      BY <1>3, <1>4, <2>1 DEF RunSound, Undisturbed
<1> QED
    BY <1>3, <1>4, <1>5, QuietRunStep DEF RollupInv

LEMMA CountVolumeStep == ASSUME RollupInv, NEW r \in RollupRun, CountVolume(r) PROVE RollupInv'
<1>1. PICK s : s = rollups[r]
    OBVIOUS
<1>2. s \in RollupState /\ RunSound(s) /\ s.at = "volume" /\ posted[day] \in Volumes
    BY <1>1 DEF RollupInv, CountVolume
<1>3. PICK g : g = [s EXCEPT !.at = "write", !.vols = posted[day]]
    OBVIOUS
<1>4. /\ g \in RollupState /\ g.at = "write" /\ g.vols = posted[day] /\ g.row = s.row
      /\ g.day = s.day /\ g.next = s.next /\ g.clean = s.clean
    BY <1>2, <1>3 DEF RollupState
<1>5. /\ rollups' = [rollups EXCEPT ![r] = g]
      /\ UNCHANGED <<day, sourceVars, scalars, volumes, rollupLock>>
    BY <1>1, <1>3 DEF CountVolume, RollupInv
<1>6. CountedOf(day)' = CountedOf(day)
    BY <1>5 DEF CountedOf, TransactionsOf, sourceVars
<1>7. RunSound(g)'
    BY <1>2, <1>4, <1>5, <1>6 DEF RunSound, sourceVars
<1>8. /\ g.clean \/ \A q \in RollupRun : ~Undisturbed(rollups[q])
      /\ Undisturbed(g) => \A q \in RollupRun : q # r /\ Writing(q) => rollups[q].clean
  <2>1. Writing(r)
      BY <1>1, <1>2 DEF Writing
  <2> QED
      BY <1>1, <1>4, <2>1, RunGoesOn
<1> QED
    BY <1>4, <1>5, <1>7, <1>8, QuietRunStep DEF RollupInv

LEMMA WriteScalarStep == ASSUME RollupInv, NEW r \in RollupRun, WriteScalar(r) PROVE RollupInv'
<1>1. PICK s : s = rollups[r]
    OBVIOUS
<1>2. PICK m : m = Scalar[s.next]
    OBVIOUS
<1>3. /\ s \in RollupState /\ RunSound(s) /\ s.at = "write"
      /\ s.next \in {1, 2} /\ s.row \in Counted /\ day \in Day
    BY <1>1 DEF RollupInv, WriteScalar, RollupState
<1>4. m \in Metric /\ (s.next = 1 => m = "new") /\ (s.next = 2 => m = "transactions")
    BY <1>2, <1>3 DEF Scalar, Metric
<1>5. scalars' = [scalars EXCEPT ![day][m] = s.row[m]] /\ UNCHANGED <<day, sourceVars, volumes, rollupLock>>
    BY <1>1, <1>2 DEF WriteScalar
<1>6. /\ scalars' \in [Day -> [Metric -> Count \cup {NoRow}]]
      /\ scalars'[day][m] = s.row[m]
      /\ \A n \in Metric : n # m => scalars'[day][n] = scalars[day][n]
    BY <1>3, <1>4, <1>5 DEF RollupInv, Counted, Metric
<1>7. PICK g : g = IF s.next < 2 THEN [s EXCEPT !.next = s.next + 1] ELSE [s EXCEPT !.at = "replace"]
    OBVIOUS
<1>8. /\ g \in RollupState /\ g.vols = s.vols /\ g.row = s.row /\ g.day = s.day /\ g.clean = s.clean
      /\ s.next = 1 => g.at = "write" /\ g.next = 2
      /\ s.next = 2 => g.at = "replace"
    BY <1>3, <1>7 DEF RollupState
<1>9. rollups' = [rollups EXCEPT ![r] = g]
    BY <1>1, <1>3, <1>7 DEF WriteScalar, RollupInv
<1>10. CountedOf(day)' = CountedOf(day)
    BY <1>5 DEF CountedOf, TransactionsOf, sourceVars
<1>11. ASSUME s.clean, s.next = 2 PROVE scalars'[day] = s.row
  <2>1. scalars[day]["new"] = s.row["new"]
      BY <1>3, <1>11 DEF RunSound
  <2>2. \A n \in Metric : scalars'[day][n] = s.row[n]
      BY <1>4, <1>6, <1>11, <2>1 DEF Metric
  <2>3. scalars'[day] \in [Metric -> Count \cup {NoRow}]
      BY <1>3, <1>6
  <2> QED
      BY <1>3, <2>2, <2>3 DEF Counted, Metric
<1>12. RunSound(g)'
  <2>1. g.clean => g.day = day /\ g.row = CountedOf(day) /\ g.vols = posted[day]
      BY <1>3, <1>8 DEF RunSound
  <2>2. CASE s.next = 1
      BY <1>4, <1>5, <1>6, <1>8, <1>10, <2>1, <2>2 DEF RunSound, sourceVars
  <2>3. CASE s.next = 2
      BY <1>5, <1>8, <1>10, <1>11, <2>1, <2>3 DEF RunSound, sourceVars
  <2> QED
      BY <1>3, <2>2, <2>3
<1>13. /\ g.clean \/ \A q \in RollupRun : ~Undisturbed(rollups[q])
       /\ Undisturbed(g) => \A q \in RollupRun : q # r /\ Writing(q) => rollups[q].clean
       /\ \A q \in RollupRun : Undisturbed(rollups[q]) => s.clean
  <2>1. Writing(r)
      BY <1>1, <1>3 DEF Writing
  <2> QED
      BY <1>1, <1>8, <2>1, RunGoesOn
<1>14. ASSUME NEW q \in RollupRun, q # r, Undisturbed(rollups[q])
       PROVE  /\ \A n \in Metric : scalars'[day][n] \in {scalars[day][n], CountedOf(day)[n]}
              /\ ServedVolume(day)' = ServedVolume(day)
  <2>1. s.row = CountedOf(day)
      BY <1>3, <1>13, <1>14 DEF RunSound
  <2>2. ServedVolume(day)' = ServedVolume(day)
      BY <1>5 DEF ServedVolume
  <2> QED
      BY <1>4, <1>6, <2>1, <2>2
<1>15. rollupLock' \in RollupRun \cup {NoRun}
    BY <1>5 DEF RollupInv
<1>16. volumes' \in [Day -> [VolumeCurrency -> 0..MovementBound \cup {NoRow}]]
    BY <1>5 DEF RollupInv
<1> QED
    BY <1>5, <1>6, <1>8, <1>9, <1>12, <1>13, <1>14, <1>15, <1>16, RunStep

LEMMA ReplaceVolumesStep == ASSUME RollupInv, NEW r \in RollupRun, ReplaceVolumes(r) PROVE RollupInv'
<1>1. PICK s, i : s = rollups[r] /\ i = IdleRollup
    OBVIOUS
<1>2. /\ s \in RollupState /\ RunSound(s) /\ s.at = "replace" /\ day \in Day
      /\ s.vols \in Volumes /\ s.ran \in Day \cup {NoRow} /\ s.day \in Day /\ s.clean \in BOOLEAN
    BY <1>1 DEF RollupInv, ReplaceVolumes, RollupState
<1>3. PICK V : V = [c \in VolumeCurrency |-> IF s.vols[c] = 0 THEN NoRow ELSE s.vols[c]]
    OBVIOUS
<1>4. V \in [VolumeCurrency -> 0..MovementBound \cup {NoRow}]
    BY <1>2, <1>3 DEF Volumes
<1>5. /\ volumes' = [volumes EXCEPT ![day] = V]
      /\ UNCHANGED <<day, sourceVars, scalars, rollupLock>>
    BY <1>1, <1>3 DEF ReplaceVolumes, Replacing
<1>6. volumes' \in [Day -> [VolumeCurrency -> 0..MovementBound \cup {NoRow}]] /\ volumes'[day] = V
    BY <1>2, <1>4, <1>5 DEF RollupInv
<1>7. [c \in VolumeCurrency |-> IF V[c] = NoRow THEN 0 ELSE V[c]] = s.vols
  <2>1. s.vols \in [VolumeCurrency -> Nat]
      BY <1>2 DEF Volumes
  <2>2. \A c \in VolumeCurrency : (IF V[c] = NoRow THEN 0 ELSE V[c]) = s.vols[c]
      BY <1>3, <2>1 DEF NoRow
  <2> QED
      BY <2>1, <2>2
<1>8. PICK g : g = [i EXCEPT !.at = "done", !.ran = s.ran, !.day = s.day, !.clean = s.clean]
    OBVIOUS
<1>9. g \in RollupState /\ g.at = "done" /\ g.day = s.day /\ g.clean = s.clean
  <2>1. i \in RollupState
      BY <1>1, IdleRollupType
  <2> QED
      BY <1>2, <1>8, <2>1 DEF RollupState
<1>10. rollups' = [rollups EXCEPT ![r] = g]
    BY <1>1, <1>8 DEF ReplaceVolumes
<1>11. CountedOf(day)' = CountedOf(day)
    BY <1>5 DEF CountedOf, TransactionsOf, sourceVars
<1>12. ServedVolume(day)' = Total(s.vols)
    BY <1>5, <1>6, <1>7 DEF ServedVolume
<1>13. RunSound(g)'
    BY <1>2, <1>5, <1>9, <1>11, <1>12 DEF RunSound, sourceVars
<1>14. /\ Undisturbed(g) => \A q \in RollupRun : q # r /\ Writing(q) => rollups[q].clean
       /\ \A q \in RollupRun : Undisturbed(rollups[q]) => s.clean
  <2>1. Writing(r)
      BY <1>1, <1>2 DEF Writing
  <2> QED
      BY <1>1, <1>9, <2>1, RunGoesOn
<1>15. ASSUME NEW q \in RollupRun, q # r, Undisturbed(rollups[q])
       PROVE  ServedVolume(day)' = Total(posted[day])
    BY <1>2, <1>12, <1>14, <1>15 DEF RunSound
<1>16. /\ rollupLock' \in RollupRun \cup {NoRun}
       /\ scalars' \in [Day -> [Metric -> Count \cup {NoRow}]]
       /\ \A n \in Metric : scalars'[day][n] = scalars[day][n]
    BY <1>5 DEF RollupInv
<1> QED
    BY <1>5, <1>6, <1>9, <1>10, <1>13, <1>14, <1>15, <1>16, RunStep

\* A run fails or ends: it is not undisturbed, or idle.
LEMMA EndStep ==
    ASSUME RollupInv, NEW r \in RollupRun,
           RollupFails(r) \/ \E released \in BOOLEAN : EndRollup(r, released)
    PROVE  RollupInv'
<1>1. PICK s, i : s = rollups[r] /\ i = IdleRollup
    OBVIOUS
<1>2. /\ s \in RollupState /\ s.ran \in Day \cup {NoRow}
      /\ i \in RollupState /\ ~i.clean /\ i.at = "idle"
    BY <1>1, IdleRollupType DEF RollupInv, RollupState
<1>4. CASE RollupFails(r)
  <2>1. PICK g : g = [i EXCEPT !.at = "done", !.ran = s.ran]
      OBVIOUS
  <2>2. g \in RollupState /\ g.clean = i.clean /\ g.at = "done"
      BY <1>2, <2>1 DEF RollupState
  <2>3. rollups' = [rollups EXCEPT ![r] = g] /\ UNCHANGED <<day, sourceVars, scalars, volumes, rollupLock>>
      BY <1>1, <1>4, <2>1 DEF RollupFails
  <2>4. RunSound(g)' /\ ~Undisturbed(g)
      BY <1>2, <2>2 DEF RunSound, Undisturbed
  <2> QED
      BY <2>2, <2>3, <2>4, QuietRunStep DEF RollupInv
<1>5. ASSUME NEW released \in BOOLEAN, EndRollup(r, released) PROVE RollupInv'
  <2>1. PICK g : g = [i EXCEPT !.ran = s.ran]
      OBVIOUS
  <2>2. g \in RollupState /\ g.clean = i.clean /\ g.at = "idle"
      BY <1>2, <2>1 DEF RollupState
  <2>3. rollups' = [rollups EXCEPT ![r] = g] /\ UNCHANGED <<day, sourceVars, scalars, volumes>>
      BY <1>1, <1>5, <2>1 DEF EndRollup
  <2>5. rollupLock' \in RollupRun \cup {NoRun}
      BY <1>5 DEF EndRollup, RollupInv
  <2>4. RunSound(g)' /\ ~Undisturbed(g)
      BY <1>2, <2>2 DEF RunSound, Undisturbed
  <2> QED
      BY <2>2, <2>3, <2>4, <2>5, QuietRunStep
<1> QED
    BY <1>4, <1>5

LEMMA RollupStep == ASSUME RollupInv, [RollupNext]_rollupVars PROVE RollupInv'
<1>1. ASSUME UNCHANGED <<day, sourceVars, scalars, volumes, rollups>>,
             rollupLock' \in RollupRun \cup {NoRun}
      PROVE  RollupInv'
  <2>1. \A r \in RollupRun : RunSound(rollups[r])'
      BY <1>1 DEF sourceVars, RollupInv, RunSound, CountedOf, TransactionsOf, ServedVolume
  <2>2. \A q, r \in RollupRun : Agreeing(q, r)'
      BY <1>1 DEF RollupInv, Agreeing, Undisturbed, Writing
  <2> QED
      BY <1>1, <2>1, <2>2 DEF sourceVars, RollupInv
<1>2. CASE UNCHANGED rollupVars
    BY <1>1, <1>2 DEF rollupVars, sourceVars, RollupInv
<1>3. CASE LoseRollupLock
    BY <1>1, <1>3 DEF LoseRollupLock
<1> QED
    BY <1>2, <1>3, SourceStep, StartRollupStep, SkipRollupStep, CountVolumeStep, WriteScalarStep,
       ReplaceVolumesStep, EndStep DEF RollupNext

LEMMA RollupInitInv == ASSUME RollupInit PROVE RollupInv
<1>1. 0 \in Day
    BY RollupAssumption DEF Day
<1>2. /\ day \in Day /\ posted \in [Day -> Volumes]
      /\ reversals \in [Day -> 0..MovementBound] /\ enrolled \in [Day -> 0..1]
      /\ volumes \in [Day -> [VolumeCurrency -> 0..MovementBound \cup {NoRow}]]
  <2>1. 0 \in 0..MovementBound
      BY RollupAssumption
  <2>2. [c \in VolumeCurrency |-> 0] \in Volumes
      BY <2>1 DEF Volumes
  <2>3. NoRow \in 0..MovementBound \cup {NoRow} /\ 0 \in 0..1
      OBVIOUS
  <2> QED
      BY <1>1, <2>1, <2>2, <2>3 DEF RollupInit
<1>3. scalars \in [Day -> [Metric -> Count \cup {NoRow}]]
    BY DEF RollupInit, Metric
<1> QED
    BY <1>2, <1>3, IdleRollupType DEF RollupInit, RollupInv, RunSound, Agreeing, Undisturbed

\* A run of the rollup that nothing disturbs leaves the figures of its day exact
\* whatever earlier, failed or crossed runs left there, also when a lock is lost and runs
\* that counted the same overlap (AnalyticsRollupScheduler, rollupDailyMetrics), for any
\* number of instances, currencies and days.
THEOREM RollupsConverge == RollupSpec => []RollupConverges
<1>1. RollupInv => RollupConverges
    BY DEF RollupInv, RunSound, RollupConverges
<1> QED
    BY <1>1, RollupInitInv, RollupStep, PTL DEF RollupSpec

\* What a run counts and writes stays within the movements of a day: the state of the
\* rollup is well typed.
THEOREM RollupTypeCorrect == RollupSpec => []RollupTypeOK
<1>1. RollupInv => RollupTypeOK
    BY DEF RollupInv, RollupTypeOK, Metric
<1> QED
    BY <1>1, RollupInitInv, RollupStep, PTL DEF RollupSpec

-----------------------------------------------------------------------------
(* The services as a whole *)

\* The notification service reaches those who opted in, de-duplicates but for the race
\* of check and insert, and lists pages that are windows (NotificationService).
THEOREM NotificationServiceSound == NoteSpec /\ PageSpec => []NotificationsSound
<1>1. (FanOutReachesOptedIn /\ DuplicatesOnlyByRace) /\ PageIsWindow => NotificationsSound
    BY DEF NotificationsSound
<1> QED
    BY <1>1, FanOutsReachAndDedupe, PagesAreWindows, PTL

\* The prune and the rollup, run at night by every instance, keep what they promise
\* though the connection of a lock may go at any time: two prune at once only after a
\* lock was lost, and even then only what is due is deleted; an undisturbed rollup leaves
\* the figures of its day.
THEOREM NightJobsKeepPromises == RetentionSpec /\ RollupSpec => NightJobsSound
<1>1. (RetentionTypeOK /\ OnePruner) => OnePruner
    OBVIOUS
<1>2. [](RetentionTypeOK /\ OnePruner) /\ []RollupConverges
          => [][OnePruner' /\ RollupConverges']_<<keptVars, rollupVars>>
    BY <1>1, PTL
<1> QED
    BY <1>2, OnePrunerAtATime, PruneKeepsTheNewest, RollupsConverge, PTL DEF NightJobsSound

-----------------------------------------------------------------------------
(* The sum of the components *)

\* Every behaviour of the sum is one of each component, in which it acts or rests: what
\* is proved of a component holds of the sum, and so of what TLC explores.
THEOREM OfficeRunsComponents ==
    OfficeSpec => /\ Spec /\ CustomersSpec /\ NoteSpec /\ PageSpec /\ RetentionSpec
                  /\ ThrottlerSpec /\ LiveSpec /\ RollupSpec
<1>1. OfficeInit => /\ Init /\ CustomersInit /\ NoteInit /\ PageInit /\ RetentionInit
                    /\ ThrottlerInit /\ LiveInit /\ RollupInit
    BY DEF OfficeInit
<1>2. ASSUME [OfficeNext]_officeVars
      PROVE  /\ [Next]_vars /\ [CustomersNext]_customerVars /\ [NoteNext]_noteVars
             /\ [PageNext]_inboxVars /\ [RetentionNext]_keptVars
             /\ [ThrottlerNext]_throttleVars /\ [LiveNext]_liveVars /\ [RollupNext]_rollupVars
  <2>1. CASE UNCHANGED officeVars
      BY <2>1 DEF officeVars
  <2>2. CASE OfficeNext
      BY <2>2 DEF OfficeNext, Only
  <2> QED
      BY <1>2, <2>1, <2>2
<1> QED
    BY <1>1, <1>2, PTL
    DEF OfficeSpec, Spec, CustomersSpec, NoteSpec, PageSpec, RetentionSpec, ThrottlerSpec,
        LiveSpec, RollupSpec

\* Every component is well typed, the one that acts and those that rest.
THEOREM OfficeTypeCorrect == OfficeSpec => []OfficeTypeOK
<1>1. ASSUME CustomersTypeOK, NoteTypeOK, PageTypeOK, RetentionTypeOK, ThrottlerTypeOK,
             LiveTypeOK, RollupTypeOK
      PROVE  OfficeTypeOK
    BY <1>1 DEF OfficeTypeOK
<1>2. (RetentionTypeOK /\ OnePruner) => RetentionTypeOK
    OBVIOUS
<1> QED
    BY <1>1, <1>2, OfficeRunsComponents, CustomersTypeCorrect, NoteTypeCorrect, PageTypeCorrect,
       OnePrunerAtATime, ThrottlerTypeCorrect, LiveTypeCorrect, RollupTypeCorrect, PTL
=============================================================================
