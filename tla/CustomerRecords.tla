--------------------------- MODULE CustomerRecords ---------------------------
(***************************************************************************)
(* The rows that belong to one customer, in every table the erasure        *)
(* answers for, and the calls that touch them: calls that add rows,        *)
(* statement by statement, calls that read a row and write it back, and    *)
(* the erasure of the customer in one transaction.                         *)
(*                                                                         *)
(* RequireAuth looks at the account once, before the handler runs: a call  *)
(* admitted then may write after the account is erased.  An admin may set  *)
(* the status of an erased account to active again; what was erased stays  *)
(* erased, the suite code with it.                                         *)
(*                                                                         *)
(* A row is named by the call that inserted it, or First when the customer *)
(* had it before; in the tables that hold one row per customer, by the     *)
(* call that wrote it last.  Of a row's columns the model has one bit:     *)
(* whether anything the erasure's statement on the table is there to take  *)
(* out is still in them.  Columns that no statement touches (the city of a *)
(* recipient, the suite code on a package) stay, and are left out.         *)
(***************************************************************************)
EXTENDS FiniteSets, Integers, Sequences

CONSTANTS
    Calls,        \* the calls of the behaviour, each made at most once
    First,        \* the row the customer has in every table to begin with
    None

ASSUME CustomerRecordsAssumption == First \notin Calls

VARIABLES
    account,      \* users.status: "active", "inactive" or "deleted"
    suite,        \* users.suite_code is there: the account was never erased
    rows,         \* the rows of each table
    text,         \* those among them that still hold something personal
    default,      \* recipients.is_default
    delivered,    \* the status of the customer's ship request is a final one
    call,         \* what each call is doing
    erasure,      \* history: since the last erasure, see Erase
    sealed        \* history: the signature while nothing may change it

vars == <<account, suite, rows, text, default, delivered, call, erasure, sealed>>

(* handledTables: "every user-scoped PII table the GDPR erasure flow knows *)
(* how to scrub".                                                          *)
HandledTables ==
    {"users", "recipients", "locker_packages", "locker_photos", "ship_requests",
     "service_requests", "inbound_tracking", "storage_fees", "unmatched_packages",
     "bookings", "invoices", "weight_discrepancies", "communications",
     "activity_log", "templates", "notification_prefs", "password_resets",
     "sessions", "magic_links", "observability_events", "user_mfa", "api_keys",
     "ip_access_rules", "cookie_consents", "resource_versions",
     "parcel_consolidation_previews", "assisted_purchase_requests",
     "customs_preclearance_docs", "delivery_signatures", "loyalty_ledger",
     "data_import_jobs", "in_app_notifications", "push_subscriptions",
     "moderation_items", "email_verification_tokens"}

(* The statements of the erasure: columns blanked, the link to the user    *)
(* cut, rows deleted.                                                      *)
Scrubbed ==
    {"recipients", "locker_packages", "ship_requests", "bookings", "invoices",
     "service_requests", "templates", "inbound_tracking",
     "assisted_purchase_requests", "loyalty_ledger", "users"}
Unlinked ==
    {"activity_log", "resource_versions", "moderation_items",
     "unmatched_packages", "observability_events"}
Papers ==
    {"communications", "customs_preclearance_docs", "delivery_signatures",
     "locker_photos", "parcel_consolidation_previews", "data_import_jobs"}
Messages == {"notification_prefs", "in_app_notifications", "push_subscriptions"}
Credentials ==
    {"ip_access_rules", "user_mfa", "api_keys", "cookie_consents", "sessions",
     "magic_links", "password_resets", "email_verification_tokens"}
Removed == Papers \cup Messages \cup Credentials

(* Nothing in them for the erasure to take out.                            *)
Impersonal == {"storage_fees", "weight_discrepancies"}
(* Tables with a unique key on the customer (or on the one ship request).  *)
Singles == {"users", "notification_prefs", "cookie_consents", "user_mfa",
            "delivery_signatures"}

-----------------------------------------------------------------------------
(* The calls that add rows: the table each looks into first (one of a set, *)
(* NoCheck when it need not), and the inserts it makes, each a statement   *)
(* of its own.                                                             *)
NoCheck == "no check"
Into(table) == [checks |-> {NoCheck}, inserts |-> <<table>>]

RecipientsImport ==
    [checks |-> {NoCheck},
     inserts |-> <<"recipients", "data_import_jobs", "in_app_notifications">>]
ImportOfNothing == Into("data_import_jobs")
AssistedPurchase ==
    [checks |-> {NoCheck, "recipients"},
     inserts |-> <<"assisted_purchase_requests", "in_app_notifications">>]
CustomsDoc ==
    [checks |-> {"ship_requests", "locker_packages"},
     inserts |-> <<"customs_preclearance_docs", "in_app_notifications">>]
ConsolidationPreview ==
    [checks |-> {"locker_packages"},
     inserts |-> <<"parcel_consolidation_previews">>]
ServiceRequest ==
    [checks |-> {"locker_packages"}, inserts |-> <<"service_requests">>]
ShipRequestCreate ==
    [checks |-> {"locker_packages"}, inserts |-> <<"ship_requests">>]
BookingCreate ==
    [checks |-> {NoCheck, "recipients"}, inserts |-> <<"bookings">>]
PushSubscribe ==
    [checks |-> {NoCheck},
     inserts |-> <<"push_subscriptions", "in_app_notifications">>]
CookieConsent ==
    [checks |-> {NoCheck}, inserts |-> <<"cookie_consents", "resource_versions">>]
APIKeyCreate ==
    [checks |-> {NoCheck}, inserts |-> <<"api_keys", "resource_versions">>]
MFASetup == Into("user_mfa")
AvatarUpload == Into("users")
TemplateCreate == Into("templates")
InboundCreate == Into("inbound_tracking")
(* A request for an export leaves a version and does nothing else.         *)
ExportRequest == Into("resource_versions")
(* The dock looks the suite code up in users.                              *)
LockerReceive == [checks |-> {"users"}, inserts |-> <<"locker_packages">>]
(* The calls of somebody not signed in look the user up by email, whatever *)
(* the account's status; the placeholder of an erased account is found.    *)
ForgotPassword == Into("password_resets")
ResendVerification == Into("email_verification_tokens")
MagicLinkRequest == Into("magic_links")
(* VerifyMagicLink: the account is looked at, and has to be active.        *)
SignIn == Into("sessions")

Adding ==
    [import |-> RecipientsImport, reject |-> ImportOfNothing, purchase |-> AssistedPurchase,
     customs |-> CustomsDoc, preview |-> ConsolidationPreview,
     service |-> ServiceRequest, ship |-> ShipRequestCreate, book |-> BookingCreate,
     push |-> PushSubscribe, consent |-> CookieConsent, apiKey |-> APIKeyCreate,
     mfa |-> MFASetup, avatar |-> AvatarUpload, template |-> TemplateCreate,
     inbound |-> InboundCreate, ask |-> ExportRequest, receive |-> LockerReceive,
     forgot |-> ForgotPassword, resend |-> ResendVerification,
     magic |-> MagicLinkRequest, signIn |-> SignIn]

(* The calls that read a row of a table and write it back, or remove it.   *)
Updating == [profile |-> "users", recipient |-> "recipients",
             retemplate |-> "templates"]
Deleting == [drop |-> "recipients", untemplate |-> "templates",
             uninbound |-> "inbound_tracking"]
OtherKinds == {"newRecipient", "restore", "prefs", "seed", "sign", "match",
               "deactivate", "erase", "gdprErase"}
Kinds == DOMAIN Adding \cup DOMAIN Updating \cup DOMAIN Deleting \cup OtherKinds

(* Calls that do not look at the customer's account: a clerk's, and those  *)
(* of somebody not signed in; with the sign-in, the calls that are not     *)
(* made as the customer.                                                   *)
Staff == {"receive", "match"}
Public == {"forgot", "resend", "magic"}
Own(kind) == kind \notin Staff \cup Public \cup {"signIn"}

(* The tables such calls write although the account is erased.             *)
Unscreened == {"unmatched_packages", "password_resets",
               "email_verification_tokens", "magic_links"}

Fresh == [at |-> "fresh"]
Answered == [at |-> "answered"]
Done == [at |-> "done"]
UnderWay == {c \in Calls : call[c].at \notin {"fresh", "done"}}
Become(c, local) == call' = [call EXCEPT ![c] = local]
At(c, kind, where) == call[c].at = where /\ call[c].kind = kind

(* APIObservability: a call made as the customer leaves an event with the  *)
(* customer's id, to be stored after the answer.                           *)
End(own) == IF own THEN Answered ELSE Done

NoErasure == [pending |-> {}, wrote |-> {}, back |-> {}]

Init ==
    /\ account = "active" /\ suite = TRUE
    /\ rows = [t \in HandledTables |-> {First}]
    /\ text = [t \in HandledTables |-> IF t \in Impersonal THEN {} ELSE {First}]
    /\ default \in {{}, {First}}
    /\ delivered = FALSE
    /\ call = [c \in Calls |-> Fresh]
    /\ erasure = NoErasure
    /\ sealed = None

(* Call c writes table t; the history has it once the account is erased.   *)
StoreIn(t, newRows, newText, c) ==
    /\ rows' = [rows EXCEPT ![t] = newRows]
    /\ text' = [text EXCEPT ![t] = newText]
    /\ erasure' = IF suite THEN erasure
                  ELSE [erasure EXCEPT !.wrote = @ \cup {<<c, t>>}]

(* Call c leaves its row in t; where there is one per customer, instead of *)
(* the one before.                                                         *)
Insert(c, t) ==
    IF t \in Singles THEN StoreIn(t, {c}, {c}, c)
                     ELSE StoreIn(t, rows[t] \cup {c}, text[t] \cup {c}, c)

user == <<account, suite>>
database == <<rows, text, default, erasure>>

-----------------------------------------------------------------------------
(* RequireAuth, VerifyMagicLink: the account is active now.                *)
AdmittedByToken(kind) == TRUE                           \* faulty
Admitted(kind) == kind \in Staff \cup Public \/ account = "active"

Begin(c) ==
    /\ call[c] = Fresh
    /\ \E kind \in Kinds :
         /\ Admitted(kind)
         /\ Become(c, [at |-> "admitted", kind |-> kind])
         /\ erasure' = IF suite \/ account # "active" THEN erasure
                       ELSE [erasure EXCEPT !.back = @ \cup {c}]
    /\ UNCHANGED <<user, rows, text, default>>

(* Not found, not valid, or failed before anything was written.            *)
Refuse(c) ==
    /\ \E kind \in Kinds : At(c, kind, "admitted") /\ Become(c, End(Own(kind)))
    /\ UNCHANGED <<user, database>>

(* The row the call depends on is there; for the dock, the suite code.     *)
Found(t) == CASE t = NoCheck -> TRUE
              [] t = "users" -> suite
              [] OTHER -> rows[t] # {}

Add(left, must, own) == [at |-> "adding", left |-> left, must |-> must, own |-> own]
AndNotify == Add(<<"in_app_notifications">>, FALSE, TRUE)
AndVersion == Add(<<"resource_versions">>, FALSE, TRUE)

Check(c) ==
    \E kind \in DOMAIN Adding :
        /\ At(c, kind, "admitted")
        /\ \E t \in Adding[kind].checks : Found(t)
        /\ Become(c, Add(Adding[kind].inserts, TRUE, Own(kind)))
        /\ UNCHANGED <<user, database>>

Goes(c, left) ==
    Become(c, IF left = <<>> THEN End(call[c].own) ELSE Add(left, FALSE, call[c].own))

AddRow(c) ==
    /\ call[c].at = "adding"
    /\ Insert(c, Head(call[c].left))
    /\ Goes(c, Tail(call[c].left))
    /\ UNCHANGED <<user, default>>

(* A lost first insert ends the call; the errors of the later ones are     *)
(* dropped.                                                                *)
AddFails(c) ==
    /\ call[c].at = "adding"
    /\ Goes(c, IF call[c].must THEN <<>> ELSE Tail(call[c].left))
    /\ UNCHANGED <<user, database>>

(* The worker of the observability queue.                                  *)
Persist(c) ==
    /\ call[c] = Answered
    /\ Insert(c, "observability_events")
    /\ Become(c, Done)
    /\ UNCHANGED <<user, default>>

(* A crash; a full queue, which drops the event.                           *)
Die(c) ==
    /\ c \in UnderWay
    /\ Become(c, Done)
    /\ UNCHANGED <<user, database>>

-----------------------------------------------------------------------------
(* recipientsCreate: one transaction.                                      *)
RecipientCreate(c) ==
    /\ At(c, "newRecipient", "admitted")
    /\ Insert(c, "recipients")
    /\ default' \in {default, {c}}
    /\ Become(c, Answered)
    /\ UNCHANGED user

(* The read of MeUpdate, recipientsUpdate, templateUpdate: the row, what   *)
(* is in its columns, and for a recipient whether it is the default.       *)
UpdateRead(c) ==
    \E kind \in DOMAIN Updating : \E r \in rows[Updating[kind]] :
        /\ At(c, kind, "admitted")
        /\ Become(c, [at |-> "writing", kind |-> kind, row |-> r,
                      text |-> r \in text[Updating[kind]],
                      default |-> kind = "recipient" /\ r \in default])
        /\ UNCHANGED <<user, database>>

(* The other defaults are unset whenever the merged row is one, whether    *)
(* the body asked for it or the row was when it was read.                  *)
UnsetWhenAsked(kept, asked, r) ==                       \* faulty
    IF asked = "set" THEN {r}
    ELSE IF asked = "keep" /\ kept THEN default \cup {r} ELSE default \ {r}
NewDefault(kept, asked, r) ==
    IF asked = "set" \/ (asked = "keep" /\ kept) THEN {r} ELSE default \ {r}

(* Columns the body leaves out are written back as they were read.  The    *)
(* UPDATE is by id: it does not see whether the account is still active,   *)
(* and a row deleted since fails the call and rolls its unset back.        *)
Merged(c, t, r, new) ==
    LET id == IF t \in Singles THEN c ELSE r
    IN  StoreIn(t, (rows[t] \ {r}) \cup {id},
                IF new \/ call[c].text THEN (text[t] \ {r}) \cup {id} ELSE text[t] \ {r}, c)

UpdateWrite(c) ==
    /\ call[c].at = "writing" /\ call[c].kind \in DOMAIN Updating
    /\ \E new \in BOOLEAN, asked \in {"set", "clear", "keep"} :
         LET t == Updating[call[c].kind]
             r == IF t \in Singles THEN CHOOSE x \in rows[t] : TRUE ELSE call[c].row
         IN  /\ r \in rows[t]
             /\ Merged(c, t, r, new)
             /\ default' = IF t = "recipients" THEN NewDefault(call[c].default, asked, r) ELSE default
    /\ Become(c, Answered)
    /\ UNCHANGED user

UpdateMisses(c) ==
    /\ call[c].at = "writing" /\ call[c].kind \in DOMAIN Updating
    /\ Updating[call[c].kind] \notin Singles
    /\ call[c].row \notin rows[Updating[call[c].kind]]
    /\ Become(c, Answered)
    /\ UNCHANGED <<user, database>>

(* The deletes are hard deletes of one row; recipients and templates are   *)
(* looked up before, which changes nothing when the row is gone by then.   *)
DeleteRow(c) ==
    /\ \E kind \in DOMAIN Deleting : \E r \in rows[Deleting[kind]] :
         LET t == Deleting[kind]
         IN  /\ At(c, kind, "admitted")
             /\ StoreIn(t, rows[t] \ {r}, text[t] \ {r}, c)
             /\ default' = IF t = "recipients" THEN default \ {r} ELSE default
    /\ Become(c, Answered)
    /\ UNCHANGED user

(* notificationsPutPrefs: a row found is updated, and a notification left; *)
(* without one it is created, which fails when another call was first.     *)
PrefsRead(c) ==
    /\ At(c, "prefs", "admitted")
    /\ Become(c, [at |-> "writing", kind |-> "prefs", found |-> rows["notification_prefs"] # {}])
    /\ UNCHANGED <<user, database>>

PrefsWrite(c) ==
    LET there == rows["notification_prefs"] # {}
    IN  /\ At(c, "prefs", "writing")
        /\ IF call[c].found = there
           THEN Insert(c, "notification_prefs")
           ELSE UNCHANGED <<rows, text, erasure>>
        /\ Become(c, IF call[c].found THEN AndNotify ELSE Answered)
        /\ UNCHANGED <<user, default>>

(* ensureNotificationSeed: a list without notifications gets a first one.  *)
SeedCount(c) ==
    /\ At(c, "seed", "admitted")
    /\ Become(c, IF rows["in_app_notifications"] # {} THEN Answered ELSE AndNotify)
    /\ UNCHANGED <<user, database>>

(* parcelDeliverySignatureCapture: once the request is delivered a         *)
(* signature on file is frozen.  The upsert looks at neither again.        *)
NeverFrozen(signed) == FALSE                            \* faulty
Frozen(signed) == signed /\ delivered
SignCheck(c) ==
    /\ At(c, "sign", "admitted")
    /\ rows["ship_requests"] # {} /\ ~Frozen(rows["delivery_signatures"] # {})
    /\ Become(c, Add(<<"delivery_signatures">>, TRUE, TRUE))
    /\ UNCHANGED <<user, database>>

(* An admin sets the request's status, to any other.                       *)
AdminSetStatus ==
    /\ delivered' = ~delivered
    /\ UNCHANGED <<user, database, call>>

-----------------------------------------------------------------------------
(* complianceRecipientRestore: a recipient the erasure marked as deleted.  *)
Restore(c) ==
    /\ At(c, "restore", "admitted")
    /\ ~suite /\ rows["recipients"] # {}
    /\ StoreIn("recipients", rows["recipients"], text["recipients"], c)
    /\ Become(c, AndVersion)
    /\ UNCHANGED <<user, default>>

(* adminUnmatchedPackageUpdate, warehouseExceptionResolve: a clerk sets    *)
(* the user of an unmatched package, whoever that is, or none.             *)
Match(c) ==
    /\ At(c, "match", "admitted")
    /\ \E r \in rows["unmatched_packages"], linked \in BOOLEAN :
         StoreIn("unmatched_packages", rows["unmatched_packages"],
                 IF linked THEN text["unmatched_packages"] \cup {r}
                           ELSE text["unmatched_packages"] \ {r}, c)
    /\ Become(c, Done)
    /\ UNCHANGED <<user, default>>

(* accountDeactivate: one transaction.                                     *)
Deactivate(c) ==
    /\ At(c, "deactivate", "admitted")
    /\ account' = "inactive"
    /\ StoreIn("sessions", {}, {}, c)
    /\ Become(c, Answered)
    /\ UNCHANGED <<suite, default>>

(* adminUserUpdate: the status of the body, or with none in the body the   *)
(* one it read before it wrote.  Unless the account is active then, its    *)
(* sessions are deleted, by a statement whose error is dropped.            *)
AdminUserUpdate ==
    /\ account' \in {"active", "inactive"} \cup (IF suite THEN {} ELSE {"deleted"})
    /\ \/ UNCHANGED <<rows, text>>
       \/ /\ account' # "active"
          /\ rows' = [rows EXCEPT !["sessions"] = {}]
          /\ text' = [text EXCEPT !["sessions"] = {}]
    /\ UNCHANGED <<suite, default, erasure, call, delivered>>

-----------------------------------------------------------------------------
(* AnonymizeUserData: one transaction over every table, the account last.  *)
(* Asked for as a GDPR request, it leaves a version afterwards.  The       *)
(* history starts anew with the calls under way, this one among them.      *)
Erase(c) ==
    /\ \/ At(c, "erase", "admitted") /\ Become(c, Answered)
       \/ At(c, "gdprErase", "admitted") /\ Become(c, AndVersion)
    /\ account' = "deleted" /\ suite' = FALSE
    /\ rows' = [t \in HandledTables |-> IF t \in Removed THEN {} ELSE rows[t]]
    /\ text' = [t \in HandledTables |->
                  IF t \in Scrubbed \cup Unlinked \cup Removed THEN {} ELSE text[t]]
    /\ erasure' = [pending |-> UnderWay, wrote |-> {}, back |-> {}]
    /\ UNCHANGED default

-----------------------------------------------------------------------------
(* A signature of a delivered request that no call has yet to replace.     *)
Settled ==
    /\ delivered /\ rows["delivery_signatures"] # {}
    /\ \A c \in UnderWay :
         call[c].at = "adding" => Head(call[c].left) # "delivery_signatures"

Seal == sealed' = IF ~delivered' THEN None
                  ELSE IF sealed = None /\ Settled' THEN rows'["delivery_signatures"]
                  ELSE sealed

CallStep(c) ==
    \/ Begin(c) \/ Refuse(c) \/ Check(c) \/ AddRow(c) \/ AddFails(c)
    \/ Persist(c) \/ Die(c) \/ RecipientCreate(c) \/ UpdateRead(c) \/ UpdateWrite(c) \/ UpdateMisses(c)
    \/ DeleteRow(c) \/ PrefsRead(c) \/ PrefsWrite(c) \/ SeedCount(c)
    \/ SignCheck(c) \/ Restore(c) \/ Match(c) \/ Deactivate(c)

Next ==
    \/ (\E c \in Calls : CallStep(c)) /\ UNCHANGED delivered /\ Seal
    \/ (AdminSetStatus \/ AdminUserUpdate) /\ Seal
    \/ (\E c \in Calls : Erase(c)) /\ UNCHANGED delivered /\ sealed' = None

Spec == Init /\ [][Next]_vars

-----------------------------------------------------------------------------
(* What a call remembers between its statements.                           *)
RowIds == Calls \cup {First}
Local ==
    {Fresh, Answered, Done}
    \cup [at : {"admitted"}, kind : Kinds]
    \cup [at : {"adding"}, left : Seq(HandledTables) \ {<<>>}, must : BOOLEAN,
          own : BOOLEAN]
    \cup [at : {"writing"}, kind : DOMAIN Updating, row : RowIds,
          text : BOOLEAN, default : BOOLEAN]
    \cup [at : {"writing"}, kind : {"prefs"}, found : BOOLEAN]

(* Types of the account, the tables and the calls.                         *)
TypeOK ==
    /\ account \in {"active", "inactive", "deleted"} /\ suite \in BOOLEAN
    /\ rows \in [HandledTables -> SUBSET RowIds]
    /\ text \in [HandledTables -> SUBSET RowIds]
    /\ default \subseteq RowIds /\ delivered \in BOOLEAN
    /\ call \in [Calls -> Local]
    /\ erasure \in [pending : SUBSET Calls, wrote : SUBSET (Calls \X HandledTables),
                    back : SUBSET Calls]

(* Erased for good: whatever is personal in a table the erasure answers    *)
(* for was written since, and, but for the tables written without a look   *)
(* at the account, by a call that was under way at the erasure or admitted *)
(* after an admin had set the account active again ("deletes or scrubs     *)
(* every PII-bearing row").                                                *)
ErasedForGood ==
    ~suite =>
        \A t \in HandledTables :
            LET writers == {c \in Calls : <<c, t>> \in erasure.wrote}
            IN  /\ text[t] # {} => writers # {}
                /\ t \notin Unscreened =>
                       writers \subseteq erasure.pending \cup erasure.back

(* One default: however updates that read the old default interleave with  *)
(* calls that choose another, at most one recipient of the customer is the *)
(* default, and it exists.                                                 *)
OneDefault == Cardinality(default) <= 1 /\ default \subseteq rows["recipients"]

(* The signature is frozen: once a delivered request has one and no call   *)
(* that looked earlier is still to write it, it stays as it is until the   *)
(* account is erased or an admin takes the status back ("the row becomes   *)
(* immutable").                                                            *)
SignatureFrozen == sealed # None => rows["delivery_signatures"] = sealed
=============================================================================
