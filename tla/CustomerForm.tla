---------------------------- MODULE CustomerForm ----------------------------
(***************************************************************************)
(* The customer edit form: loaded unmasked if the session holds the reveal *)
(* permission, and masked by the server if the permission has gone since;  *)
(* the update sends contact data, KYC and status only if changed, and the  *)
(* address always.  Other operators edit the customer too.                 *)
(***************************************************************************)
EXTENDS Naturals

CONSTANTS
    FieldText,      \* contents of a contact field or an address
    Masked,         \* what the server shows instead
    EmptyText,          \* an empty control
    RowVersions     \* bound on the customer's rowVersion

ASSUME FormAssumption ==
    {Masked, EmptyText} \cap FieldText = {} /\ Masked # EmptyText /\ RowVersions \in Nat

VARIABLES
    stored,       \* the customer on the server
    mayReveal,    \* the server's view of customers.pii.reveal
    believed,     \* auth.hasPermission of the session
    formAt,       \* the form: loading, open, failed (its load), saving, closed
    baseline,     \* initialValue()
    controls,     \* the form group's value
    touched,      \* observer: controls the operator has edited
    update,       \* the PUT on the wire
    saved         \* observer: the last accepted update

formVars == <<stored, mayReveal, believed, formAt, baseline, controls, touched, update, saved>>

-----------------------------------------------------------------------------
Text == FieldText \cup {Masked, EmptyText}

\* contact stands for name, email and phone; address for its four lines.
CustomerOf(texts) ==
    [contact : texts, address : texts, status : {"ACTIVE", "INACTIVE", "CLOSED"},
     version : 0..RowVersions]
FormValue ==
    [contact : Text, address : Text, isActive : BOOLEAN, version : 0..RowVersions]
Field == {"contact", "address", "status"}
Unsent == "unsent"
Body == [contact : Text \cup {Unsent}, address : Text,
         status : {"ACTIVE", "INACTIVE", Unsent}, version : 0..RowVersions]
NoForm == [contact |-> EmptyText, address |-> EmptyText, isActive |-> FALSE, version |-> 0]

FormTypeOK ==
    /\ stored \in CustomerOf(Text)
    /\ {mayReveal, believed} \subseteq BOOLEAN
    /\ formAt \in {"loading", "open", "failed", "saving", "closed"}
    /\ {baseline, controls} \subseteq FormValue
    /\ touched \subseteq Field
    /\ update \in Body \cup {NoForm}
    /\ saved \in [before : CustomerOf(FieldText), after : CustomerOf(Text), touched : SUBSET Field,
                  seen : BOOLEAN] \cup {NoForm}

FormInit ==
    /\ stored \in CustomerOf(FieldText) /\ stored.version = 0
    /\ mayReveal \in BOOLEAN /\ believed = mayReveal
    /\ formAt = "loading"
    /\ baseline = NoForm /\ controls = NoForm
    /\ touched = {}
    /\ update = NoForm
    /\ saved = NoForm

-----------------------------------------------------------------------------
\* The route opens the form, with an empty baseline until the customer is loaded.
OpenForm ==
    /\ formAt = "closed"
    /\ formAt' = "loading"
    /\ UNCHANGED <<stored, mayReveal, believed, baseline, controls, touched, update, saved>>

\* getById: mapCustomerDetail masks contact and address unless the caller asks for the
\* reveal and the server grants it.
Read(f) == IF believed /\ mayReveal THEN stored[f] ELSE Masked

\* toFormValue: a form that did not ask for the reveal leaves contact blank ("leave blank
\* to keep current"); address and status are shown as they were read.
toFormValue ==
    [contact |-> IF believed THEN Read("contact") ELSE EmptyText, address |-> Read("address"),
     isActive |-> stored.status = "ACTIVE", version |-> stored.version]

FormLoaded ==
    /\ formAt = "loading"
    /\ formAt' = "open"
    /\ baseline' = toFormValue /\ controls' = toFormValue
    /\ UNCHANGED <<stored, mayReveal, believed, touched, update, saved>>

\* The load fails: an empty form stays, with the baseline of a form not loaded.
FormLoadFails ==
    /\ formAt = "loading"
    /\ formAt' = "failed"
    /\ UNCHANGED <<stored, mayReveal, believed, baseline, controls, touched, update, saved>>

\* The operator edits.
Type(f, text) ==
    /\ formAt \in {"open", "failed"}
    /\ controls' = [controls EXCEPT ![f] = text]
    /\ touched' = touched \cup {f}
    /\ UNCHANGED <<stored, mayReveal, believed, formAt, baseline, update, saved>>

ToggleActive ==
    /\ formAt \in {"open", "failed"}
    /\ controls' = [controls EXCEPT !.isActive = ~@]
    /\ touched' = touched \cup {"status"}
    /\ UNCHANGED <<stored, mayReveal, believed, formAt, baseline, update, saved>>

\* clearForm() puts the baseline back.
ClearForm ==
    /\ formAt \in {"open", "failed"} /\ controls # baseline
    /\ controls' = baseline /\ touched' = {}
    /\ UNCHANGED <<stored, mayReveal, believed, formAt, baseline, update, saved>>

\* Mutant: the address may be as short as a masked one.
AnyAddress(v) == v \in FieldText \cup {Masked}

\* The validators of the address: city and postal code, masked to nothing, are required,
\* and the first line has at least six characters, a masked one four.
AddressValid(v) == v \in FieldText

\* Those of the contact fields accept no mask; in a form that did not ask for the reveal,
\* or was not loaded, blank is allowed.
ContactValid(v) == v \in FieldText \/ (v = EmptyText /\ (~believed \/ formAt = "failed"))

Valid == AddressValid(controls.address) /\ ContactValid(controls.contact)

\* toUpdatePayload and toBackendUpdate: the status is sent if its control differs from
\* the baseline; a form that was not loaded has none, and sends it always.
StatusSent ==
    IF formAt = "open" /\ controls.isActive = baseline.isActive THEN Unsent
    ELSE IF controls.isActive THEN "ACTIVE" ELSE "INACTIVE"

\* Contact data likewise; the address is sent as it is.
Payload ==
    [contact |-> IF formAt = "open" /\ controls.contact = baseline.contact THEN Unsent
                 ELSE controls.contact,
     address |-> controls.address, status |-> StatusSent, version |-> baseline.version]

\* Save: enabled with changes; exhaustMap ignores a second one.
SubmitForm ==
    /\ formAt \in {"open", "failed"} /\ controls # baseline
    /\ Valid
    /\ update' = Payload
    /\ formAt' = "saving"
    /\ UNCHANGED <<stored, mayReveal, believed, baseline, controls, touched, saved>>

-----------------------------------------------------------------------------
\* update() of the service (see Customers): fields not sent keep the row's value.
Applied(row, body) ==
    [contact |-> IF body.contact = Unsent THEN row.contact ELSE body.contact,
     address |-> body.address,
     status |-> IF body.status = Unsent THEN row.status ELSE body.status,
     version |-> row.version + 1]

\* Refused: an emptied name or email (by the DTO), a stale version, or a closed customer
\* reopened.
Refused ==
    \/ update.contact = EmptyText
    \/ update.version # stored.version
    \/ stored.status = "CLOSED" /\ update.status # Unsent

UpdateAccepted ==
    /\ formAt = "saving" /\ update # NoForm /\ ~Refused
    /\ stored.version < RowVersions
    /\ stored' = Applied(stored, update)
    /\ saved' = [before |-> stored, after |-> stored', touched |-> touched,
                 seen |-> baseline # NoForm]
    /\ update' = NoForm
    /\ UNCHANGED <<mayReveal, believed, formAt, baseline, controls, touched>>

\* Refused, failed or lost: the form stays with its values and its baseline.
UpdateFails ==
    /\ formAt = "saving"
    /\ formAt' = IF baseline = NoForm THEN "failed" ELSE "open"
    /\ update' = NoForm
    /\ UNCHANGED <<stored, mayReveal, believed, baseline, controls, touched, saved>>

\* Success leaves for the customer's page, as does the operator at any time: the
\* component is destroyed with what it holds.
CloseForm ==
    /\ formAt # "closed"
    /\ formAt' = "closed"
    /\ baseline' = NoForm /\ controls' = NoForm /\ touched' = {}
    /\ update' = NoForm /\ saved' = NoForm
    /\ UNCHANGED <<stored, mayReveal, believed>>

\* Another operator's update.
EditedElsewhere(row) ==
    /\ stored.version < RowVersions
    /\ row.version = stored.version + 1 /\ row # stored
    /\ stored.status = "CLOSED" => row.status = "CLOSED"
    /\ stored' = row
    /\ UNCHANGED <<mayReveal, believed, formAt, baseline, controls, touched, update, saved>>

\* A grant is changed; the session learns of it when it loads its principal again.
RevealChanges ==
    /\ mayReveal' = ~mayReveal
    /\ UNCHANGED <<stored, believed, formAt, baseline, controls, touched, update, saved>>

PrincipalReloaded ==
    /\ formAt = "closed" /\ believed # mayReveal
    /\ believed' = mayReveal
    /\ UNCHANGED <<stored, mayReveal, formAt, baseline, controls, touched, update, saved>>

FormNext ==
    \/ OpenForm \/ FormLoaded \/ FormLoadFails \/ ToggleActive \/ ClearForm \/ SubmitForm
    \/ \E f \in {"contact", "address"}, text \in FieldText \cup {EmptyText} : Type(f, text)
    \/ UpdateAccepted \/ UpdateFails \/ CloseForm
    \/ \E row \in CustomerOf(FieldText) : EditedElsewhere(row)
    \/ RevealChanges \/ PrincipalReloaded

FormSpec == FormInit /\ [][FormNext]_formVars

-----------------------------------------------------------------------------
\* No mask and no emptied field is ever written over a customer's data.
NoMaskStored == stored \in CustomerOf(FieldText)

\* An accepted update changes nothing the operator has not edited: not what was masked,
\* not a status the checkbox cannot show, not another operator's edit (a form whose load
\* failed aside: it is sent whole).
UntouchedKept ==
    saved # NoForm /\ saved.seen =>
        \A f \in Field \ saved.touched : saved.after[f] = saved.before[f]

\* What a save stores is what the operator saw or typed.
FormFaithful == NoMaskStored /\ UntouchedKept
=============================================================================
