------------------------ MODULE CustomerRecordsProofs ------------------------
(***************************************************************************)
(* The erasure, the default recipient and the frozen signature, for any    *)
(* number of calls under way at once.                                      *)
(***************************************************************************)
EXTENDS CustomerRecords, FiniteSetTheorems, SequenceTheorems, TLAPS

Signatures == "delivery_signatures"

(* The tables calls may write, and what a call may have left to do.        *)
Written == HandledTables \ Impersonal
FreeLefts == {<<t>> : t \in Unscreened}
Lefts == {<<Signatures>>} \cup (Seq(Written \ {Signatures}) \ {<<>>})
CallsHold == \A c \in Calls : call[c].at = "adding" => call[c].left \in Lefts

(* Who may be under way once the account is erased: those the erasure      *)
(* found, those admitted to the account made active again, and the calls   *)
(* that do not look at the account.  The dock's are among these until they *)
(* look the suite code up.                                                 *)
Busy(c) == call[c].at \notin {"fresh", "done"}
Free(c) ==
    \/ call[c].at = "admitted" /\ call[c].kind \in Staff \cup Public
    \/ call[c].at = "adding" /\ ~call[c].own /\ call[c].left \in FreeLefts
Known(c) == c \in erasure.pending \cup erasure.back
ErasureHolds ==
    /\ \A t \in Impersonal : text[t] = {}
    /\ ~suite => \A c \in Calls : Busy(c) => Free(c) \/ Known(c)

DefaultHolds ==
    /\ \A q, r \in default : q = r
    /\ default \subseteq rows["recipients"]

(* Nobody is about to write a sealed signature.                            *)
SealHolds ==
    sealed # None =>
        /\ delivered
        /\ rows[Signatures] = sealed /\ rows[Signatures] # {}
        /\ \A c \in Calls : call[c].at = "adding" => Head(call[c].left) # Signatures

IInv ==
    /\ TypeOK /\ CallsHold /\ ErasureHolds /\ ErasedForGood
    /\ DefaultHolds /\ SealHolds

-----------------------------------------------------------------------------
(* The tables by name.                                                     *)
LEMMA WrittenFacts ==
    /\ Written \subseteq HandledTables /\ Signatures \in Written
    /\ {"users", "recipients", "templates", "inbound_tracking", "sessions",
        "notification_prefs", "unmatched_packages", "in_app_notifications",
        "resource_versions", "observability_events"} \subseteq Written \ {Signatures}
    /\ Unscreened \subseteq Written \ {Signatures}
    /\ {"recipients", "unmatched_packages", "in_app_notifications", "resource_versions",
        "observability_events"} \cap Singles = {}
    /\ Written \cap Impersonal = {}
BY DEF Written, HandledTables, Signatures, Impersonal, Unscreened, Singles

(* Every table is reached by a statement of the erasure, or has nothing    *)
(* for it to take out.                                                     *)
LEMMA Reached ==
    /\ HandledTables \subseteq Scrubbed \cup Unlinked \cup Removed \cup Impersonal
    /\ Impersonal \subseteq HandledTables
    /\ "recipients" \notin Removed
BY DEF HandledTables, Scrubbed, Unlinked, Removed, Papers, Messages, Credentials,
   Impersonal

LEMMA OneTable ==
    ASSUME NEW t \in Written \ {Signatures}
    PROVE  <<t>> \in Lefts /\ Head(<<t>>) = t
BY DEF Lefts

LEMMA TwoTables ==
    ASSUME NEW t \in Written \ {Signatures}, NEW u \in Written \ {Signatures}
    PROVE  <<t, u>> \in Lefts /\ Head(<<t, u>>) = t
BY DEF Lefts

(* The inserts of the calls that add rows.                                 *)
Good(a) == a.inserts \in Lefts /\ Head(a.inserts) # Signatures
FreeAdd(a) == a.inserts \in FreeLefts

LEMMA IntoGood ==
    ASSUME NEW t \in Written \ {Signatures}
    PROVE  Good(Into(t)) /\ (t \in Unscreened => FreeAdd(Into(t)))
BY OneTable DEF Good, FreeAdd, Into, FreeLefts

LEMMA AddingFacts ==
    ASSUME NEW kind \in DOMAIN Adding
    PROVE  /\ Good(Adding[kind]) /\ kind \in Kinds
           /\ kind \in Public => FreeAdd(Adding[kind])
           /\ kind \in Staff => kind = "receive" /\ Adding[kind].checks = {"users"}
<1>1. /\ Adding[kind] \in {RecipientsImport, ImportOfNothing, AssistedPurchase,
                          CustomsDoc, ConsolidationPreview, ServiceRequest,
                          ShipRequestCreate, BookingCreate, PushSubscribe,
                          CookieConsent, APIKeyCreate, MFASetup, AvatarUpload,
                          TemplateCreate, InboundCreate, ExportRequest,
                          LockerReceive, ForgotPassword, ResendVerification,
                          MagicLinkRequest, SignIn}
      /\ kind \in Staff => kind = "receive" /\ Adding[kind] = LockerReceive
      /\ kind \in Public => Adding[kind] \in {ForgotPassword, ResendVerification,
                                              MagicLinkRequest}
      /\ kind \in Kinds
  BY DEF Adding, Kinds, Staff, Public
<1>2. LockerReceive.checks = {"users"}
  BY DEF LockerReceive
<1> DEFINE Some == Written \ {Signatures}
<1>3. /\ {"recipients", "data_import_jobs", "in_app_notifications",
          "assisted_purchase_requests", "customs_preclearance_docs",
          "parcel_consolidation_previews", "service_requests", "ship_requests",
          "bookings", "push_subscriptions", "cookie_consents", "resource_versions"}
            \subseteq Some
      /\ {"api_keys", "user_mfa", "users", "templates", "inbound_tracking",
          "locker_packages", "password_resets", "email_verification_tokens",
          "magic_links", "sessions"} \subseteq Some
      /\ {"password_resets", "email_verification_tokens", "magic_links"}
            \subseteq Unscreened
  BY DEF Written, HandledTables, Impersonal, Signatures, Unscreened
<1> HIDE DEF Some
<1>4. /\ Good(ImportOfNothing) /\ Good(MFASetup) /\ Good(AvatarUpload)
      /\ Good(TemplateCreate) /\ Good(InboundCreate) /\ Good(ExportRequest)
      /\ Good(SignIn)
  BY <1>3, IntoGood DEF ImportOfNothing, MFASetup, AvatarUpload, TemplateCreate,
     InboundCreate, ExportRequest, SignIn, Some
<1>5. /\ Good(ForgotPassword) /\ Good(ResendVerification) /\ Good(MagicLinkRequest)
      /\ FreeAdd(ForgotPassword) /\ FreeAdd(ResendVerification)
      /\ FreeAdd(MagicLinkRequest)
  BY <1>3, IntoGood DEF ForgotPassword, ResendVerification, MagicLinkRequest, Some
<1>6. /\ Good(ConsolidationPreview) /\ Good(ServiceRequest) /\ Good(ShipRequestCreate)
      /\ Good(BookingCreate) /\ Good(LockerReceive)
  BY <1>3, OneTable DEF ConsolidationPreview, ServiceRequest, ShipRequestCreate,
     BookingCreate, LockerReceive, Good, Some
<1>7. /\ Good(AssistedPurchase) /\ Good(CustomsDoc) /\ Good(PushSubscribe)
      /\ Good(CookieConsent) /\ Good(APIKeyCreate)
  BY <1>3, TwoTables DEF AssistedPurchase, CustomsDoc, PushSubscribe,
     CookieConsent, APIKeyCreate, Good, Some
<1>8. Good(RecipientsImport)
  <2>1. PICK l : l = <<"recipients", "data_import_jobs", "in_app_notifications">>
    OBVIOUS
  <2>2. l \in Seq(Some) \ {<<>>} /\ Head(l) = "recipients"
    BY <1>3, <2>1
  <2>3. "recipients" # Signatures
    BY DEF Signatures
  <2>4. QED
    BY <2>1, <2>2, <2>3 DEF RecipientsImport, Good, Lefts, Some
<1>9. QED
  BY <1>1, <1>2, <1>4, <1>5, <1>6, <1>7, <1>8

LEMMA LeftsFacts ==
    ASSUME NEW l \in Lefts
    PROVE  /\ l \in Seq(HandledTables) \ {<<>>} /\ Head(l) \in Written
           /\ Tail(l) = <<>> \/ (Tail(l) \in Lefts /\ Head(Tail(l)) # Signatures)
<1>1. CASE l = <<Signatures>>
  <2>1. Head(l) = Signatures /\ Tail(l) = <<>> /\ l # <<>>
    BY <1>1
  <2>2. l \in Seq(HandledTables)
    BY <1>1, WrittenFacts
  <2>3. QED
    BY <2>1, <2>2, WrittenFacts
<1>2. CASE l \in Seq(Written \ {Signatures}) \ {<<>>}
  <2>1. Head(l) \in Written \ {Signatures} /\ Tail(l) \in Seq(Written \ {Signatures})
    BY <1>2, HeadTailProperties
  <2>2. Tail(l) # <<>> => Head(Tail(l)) \in Written \ {Signatures}
    BY <2>1, HeadTailProperties
  <2>3. l \in Seq(HandledTables)
    BY <1>2, WrittenFacts
  <2>4. QED
    BY <1>2, <2>1, <2>2, <2>3 DEF Lefts
<1>3. QED
  BY <1>1, <1>2 DEF Lefts

LEMMA FreeLeftsFacts ==
    ASSUME NEW l \in FreeLefts
    PROVE  Head(l) \in Unscreened /\ Tail(l) = <<>>
<1>1. PICK t \in Unscreened : l = <<t>>
  BY DEF FreeLefts
<1>2. QED
  BY <1>1

(* The locals of a call, by its place.                                     *)
LEMMA LocalFields ==
    ASSUME NEW l \in Local
    PROVE  /\ l.at \in {"fresh", "answered", "done", "admitted", "adding", "writing"}
           /\ l.at = "fresh" <=> l = Fresh
           /\ l.at = "adding" => /\ l.left \in Seq(HandledTables) \ {<<>>}
                                 /\ l.must \in BOOLEAN /\ l.own \in BOOLEAN
           /\ l.at = "admitted" => l.kind \in Kinds
BY DEF Local, Fresh, Answered, Done, Updating

(* What a statement of call c on table t does.                             *)
LEMMA StoreInFacts ==
    ASSUME TypeOK, NEW c \in Calls, NEW t \in HandledTables,
           NEW R \in SUBSET RowIds, NEW T \in SUBSET RowIds, StoreIn(t, R, T, c)
    PROVE  /\ rows' \in [HandledTables -> SUBSET RowIds]
           /\ text' \in [HandledTables -> SUBSET RowIds]
           /\ rows'[t] = R
           /\ \A u \in HandledTables \ {t} : rows'[u] = rows[u] /\ text'[u] = text[u]
           /\ erasure' \in [pending : SUBSET Calls, wrote : SUBSET (Calls \X HandledTables),
                            back : SUBSET Calls]
           /\ suite => erasure' = erasure
           /\ ~suite => /\ erasure'.pending = erasure.pending
                        /\ erasure'.back = erasure.back
                        /\ erasure'.wrote = erasure.wrote \cup {<<c, t>>}
<1>1. /\ rows' = [rows EXCEPT ![t] = R] /\ text' = [text EXCEPT ![t] = T]
      /\ rows \in [HandledTables -> SUBSET RowIds]
      /\ text \in [HandledTables -> SUBSET RowIds]
  BY DEF StoreIn, TypeOK
<1>2. /\ erasure' = IF suite THEN erasure
                    ELSE [erasure EXCEPT !.wrote = @ \cup {<<c, t>>}]
      /\ erasure \in [pending : SUBSET Calls, wrote : SUBSET (Calls \X HandledTables),
                      back : SUBSET Calls]
  BY DEF StoreIn, TypeOK
<1>3. {<<c, t>>} \subseteq Calls \X HandledTables
  OBVIOUS
<1>4. /\ erasure' \in [pending : SUBSET Calls, wrote : SUBSET (Calls \X HandledTables),
                       back : SUBSET Calls]
      /\ suite => erasure' = erasure
      /\ ~suite => /\ erasure'.pending = erasure.pending
                   /\ erasure'.back = erasure.back
                   /\ erasure'.wrote = erasure.wrote \cup {<<c, t>>}
  <2>1. PICK W : W = erasure.wrote \cup {<<c, t>>}
    OBVIOUS
  <2>2. W \in SUBSET (Calls \X HandledTables)
    BY <1>2, <1>3, <2>1
  <2>3. erasure' = IF suite THEN erasure ELSE [erasure EXCEPT !.wrote = W]
    BY <1>2, <2>1
  <2>4. QED
    BY <1>2, <2>1, <2>2, <2>3
<1>5. QED
  BY <1>1, <1>4

-----------------------------------------------------------------------------
(* A step of a call changes nothing but what it remembers, or writes one   *)
(* table, or is admitted to the account made active again.                 *)
Quiet == UNCHANGED <<suite, database>>
Returns(c) ==
    /\ UNCHANGED <<suite, rows, text, default>> /\ ~suite
    /\ erasure' = [erasure EXCEPT !.back = @ \cup {c}]
Writes(c) ==
    /\ UNCHANGED suite /\ Busy(c)
    /\ \E t \in Written : \E R, T \in SUBSET RowIds :
          /\ StoreIn(t, R, T, c)
          /\ t = Signatures => call[c].at = "adding" /\ Head(call[c].left) = Signatures
          /\ Free(c) => t \in Unscreened
Takes(c) ==
    /\ call' \in [Calls -> Local]
    /\ \A d \in Calls \ {c} : call'[d] = call[d]
    /\ call'[c].at = "adding" =>
          /\ call'[c].left \in Lefts
          /\ Head(call'[c].left) = Signatures => rows[Signatures] = {} \/ ~delivered
    /\ ~suite /\ Busy(c)' => Free(c)' \/ (Busy(c) /\ ~Free(c)) \/ Returns(c)
Sound(c) ==
    /\ Takes(c) /\ DefaultHolds' /\ (Quiet \/ Returns(c) \/ Writes(c))
    /\ account' \in {"active", "inactive", "deleted"}

LEMMA TakesTo ==
    ASSUME TypeOK, NEW c \in Calls, NEW m \in Local, Become(c, m),
           m.at = "adding" =>
              /\ m.left \in Lefts
              /\ Head(m.left) = Signatures => rows[Signatures] = {} \/ ~delivered,
           ~suite /\ m.at \notin {"fresh", "done"} =>
              \/ m.at = "admitted" /\ m.kind \in Staff \cup Public
              \/ m.at = "adding" /\ ~m.own /\ m.left \in FreeLefts
              \/ Busy(c) /\ ~Free(c)
              \/ Returns(c)
    PROVE  Takes(c) /\ call'[c] = m
<1>1. call' = [call EXCEPT ![c] = m] /\ call \in [Calls -> Local]
  BY DEF Become, TypeOK
<1>2. call'[c] = m /\ call' \in [Calls -> Local] /\ \A d \in Calls \ {c} : call'[d] = call[d]
  BY <1>1
<1>3. /\ Busy(c)' <=> m.at \notin {"fresh", "done"}
      /\ Free(c)' <=> \/ m.at = "admitted" /\ m.kind \in Staff \cup Public
                      \/ m.at = "adding" /\ ~m.own /\ m.left \in FreeLefts
  BY <1>2 DEF Busy, Free
<1>4. QED
  BY <1>2, <1>3 DEF Takes

LEMMA AnsweredTakes ==
    ASSUME TypeOK, NEW c \in Calls, Become(c, Answered), Busy(c), ~Free(c)
    PROVE  Takes(c)
BY TakesTo DEF Local, Answered

LEMMA DoneTakes ==
    ASSUME TypeOK, NEW c \in Calls, Become(c, Done)
    PROVE  Takes(c)
BY TakesTo DEF Local, Done

(* The end of a call: nothing is left, or the event.                       *)
LEMMA EndTakes ==
    ASSUME TypeOK, NEW c \in Calls, NEW own \in BOOLEAN,
           Become(c, End(own)), own => Busy(c) /\ ~Free(c)
    PROVE  Takes(c)
<1>1. CASE own
  <2>1. Become(c, Answered)
    BY <1>1 DEF End
  <2>2. QED
    BY <1>1, <2>1, AnsweredTakes
<1>2. CASE ~own
  <2>1. Become(c, Done)
    BY <1>2 DEF End
  <2>2. QED
    BY <2>1, DoneTakes
<1>3. QED
  BY <1>1, <1>2

(* The inserts that follow: the same call, under way already.              *)
LEMMA AddingTakes ==
    ASSUME TypeOK, NEW c \in Calls, NEW l \in Lefts, NEW must \in BOOLEAN,
           NEW own \in BOOLEAN, Become(c, Add(l, must, own)),
           Head(l) = Signatures => rows[Signatures] = {} \/ ~delivered,
           ~suite => (Busy(c) /\ ~Free(c)) \/ (~own /\ l \in FreeLefts)
    PROVE  Takes(c)
<1>1. PICK m : m = Add(l, must, own)
  OBVIOUS
<1>2. m \in Local /\ m.at = "adding" /\ m.left = l /\ m.own = own
  BY <1>1, LeftsFacts DEF Add, Local
<1>3. QED
  BY <1>1, <1>2, TakesTo

LEMMA QuietSound ==
    ASSUME TypeOK, DefaultHolds, NEW c \in Calls, Takes(c), UNCHANGED <<user, database>>
    PROVE  Sound(c)
BY DEF Sound, Quiet, user, database, DefaultHolds, TypeOK

(* A call made as the customer is one the erasure or its admission knows.  *)
LEMMA OwnBusy ==
    ASSUME NEW c \in Calls, NEW kind, At(c, kind, "admitted"), kind \notin Staff \cup Public
    PROVE  Busy(c) /\ ~Free(c)
BY DEF At, Busy, Free

LEMMA WritingBusy ==
    ASSUME NEW c \in Calls, call[c].at \in {"writing", "answered"}
    PROVE  Busy(c) /\ ~Free(c)
BY DEF Busy, Free

LEMMA Outside ==
    /\ Staff \cup Public \subseteq {"receive", "match", "forgot", "resend", "magic"}
    /\ \A kind \in {"newRecipient", "restore", "prefs", "seed", "sign", "deactivate",
                    "erase", "gdprErase"} : kind \notin Staff \cup Public
BY DEF Staff, Public

-----------------------------------------------------------------------------
LEMMA GoesTakes ==
    ASSUME TypeOK, CallsHold, NEW c \in Calls, call[c].at = "adding", NEW l,
           l = <<>> \/ l = Tail(call[c].left), Goes(c, l)
    PROVE  Takes(c)
<1>1. Busy(c) /\ call[c].left \in Lefts /\ call[c].own \in BOOLEAN
  <2>1. call[c] \in Local
    BY DEF TypeOK
  <2>2. QED
    BY <2>1, LocalFields DEF Busy, CallsHold
<1>2. CASE l = <<>>
  <2>1. Become(c, End(call[c].own))
    BY <1>2 DEF Goes
  <2>2. call[c].own => ~Free(c)
    BY DEF Free
  <2>3. QED
    BY <1>1, <2>1, <2>2, EndTakes
<1>3. CASE l # <<>>
  <2>1. l \in Lefts /\ Head(l) # Signatures
    BY <1>1, <1>3, LeftsFacts
  <2>2. ~Free(c)
    BY <1>3, FreeLeftsFacts DEF Free
  <2>3. Become(c, Add(l, FALSE, call[c].own))
    BY <1>3 DEF Goes
  <2>4. QED
    BY <1>1, <2>1, <2>2, <2>3, AddingTakes
<1>4. QED
  BY <1>2, <1>3

(* A write to a table other than the recipients leaves the default.        *)
LEMMA OtherDefault ==
    ASSUME TypeOK, DefaultHolds, NEW c \in Calls, NEW t \in HandledTables,
           NEW R \in SUBSET RowIds, NEW T \in SUBSET RowIds, StoreIn(t, R, T, c),
           t = "recipients" => rows["recipients"] \subseteq R,
           default' = default
    PROVE  DefaultHolds'
<1>1. "recipients" \in HandledTables
  BY WrittenFacts
<1>2. rows["recipients"] \subseteq rows'["recipients"]
  <2>1. rows'[t] = R /\ \A u \in HandledTables \ {t} : rows'[u] = rows[u]
    BY StoreInFacts, ZenonT(60)
  <2>2. QED
    BY <1>1, <2>1
<1>3. QED
  BY <1>2 DEF DefaultHolds

(* Insert is such a write.                                                 *)
LEMMA InsertFacts ==
    ASSUME TypeOK, NEW c \in Calls, NEW t \in Written, Insert(c, t)
    PROVE  \E R, T \in SUBSET RowIds :
              StoreIn(t, R, T, c) /\ (t \notin Singles => R = rows[t] \cup {c})
<1>1. t \in HandledTables /\ {c} \in SUBSET RowIds
  BY WrittenFacts DEF RowIds
<1>2. rows[t] \cup {c} \in SUBSET RowIds /\ text[t] \cup {c} \in SUBSET RowIds
  BY <1>1 DEF TypeOK
<1>3. CASE t \in Singles
  BY <1>1, <1>3 DEF Insert
<1>4. CASE t \notin Singles
  BY <1>2, <1>4 DEF Insert
<1>5. QED
  BY <1>3, <1>4

LEMMA WriteSound ==
    ASSUME TypeOK, NEW c \in Calls, NEW t \in Written,
           NEW R \in SUBSET RowIds, NEW T \in SUBSET RowIds, StoreIn(t, R, T, c),
           UNCHANGED user, DefaultHolds', Takes(c), Busy(c),
           t = Signatures => call[c].at = "adding" /\ Head(call[c].left) = Signatures,
           Free(c) => t \in Unscreened
    PROVE  Sound(c)
<1>1. UNCHANGED suite /\ account' \in {"active", "inactive", "deleted"}
  BY DEF user, TypeOK
<1>2. Writes(c)
  BY <1>1 DEF Writes
<1>3. QED
  BY <1>1, <1>2 DEF Sound

LEMMA InsertSound ==
    ASSUME TypeOK, DefaultHolds, NEW c \in Calls, NEW t \in Written, Insert(c, t),
           UNCHANGED <<user, default>>, Takes(c), Busy(c),
           t = Signatures => call[c].at = "adding" /\ Head(call[c].left) = Signatures,
           Free(c) => t \in Unscreened
    PROVE  Sound(c)
<1>1. PICK R, T \in SUBSET RowIds :
         StoreIn(t, R, T, c) /\ (t \notin Singles => R = rows[t] \cup {c})
  BY InsertFacts
<1>2. t = "recipients" => rows["recipients"] \subseteq R
  BY <1>1, WrittenFacts
<1>3. DefaultHolds'
  BY <1>1, <1>2, OtherDefault, WrittenFacts
<1>4. QED
  BY <1>1, <1>3, WriteSound

-----------------------------------------------------------------------------
(* The calls, one by one.                                                  *)
LEMMA BeginSound ==
    ASSUME TypeOK, DefaultHolds, NEW c \in Calls, Begin(c)
    PROVE  Sound(c)
<1>1. PICK kind \in Kinds :
        /\ Admitted(kind)
        /\ Become(c, [at |-> "admitted", kind |-> kind])
        /\ erasure' = IF suite \/ account # "active" THEN erasure
                      ELSE [erasure EXCEPT !.back = @ \cup {c}]
  BY DEF Begin
<1>2. PICK m : m = [at |-> "admitted", kind |-> kind]
  OBVIOUS
<1>3. m \in Local /\ m.at = "admitted" /\ m.kind = kind
  BY <1>2 DEF Local
<1>4. UNCHANGED <<account, suite, rows, text, default>>
  BY DEF Begin, user
<1>5. DefaultHolds' /\ account' \in {"active", "inactive", "deleted"}
  BY <1>4 DEF DefaultHolds, TypeOK
<1>6. Quiet \/ Returns(c)
  BY <1>1, <1>4 DEF Quiet, Returns, database
<1>7. ~suite => kind \in Staff \cup Public \/ Returns(c)
  BY <1>1, <1>4 DEF Admitted, Returns
<1>8. Takes(c)
  BY <1>1, <1>2, <1>3, <1>7, TakesTo
<1>9. QED
  BY <1>5, <1>6, <1>8 DEF Sound

LEMMA RefuseSound ==
    ASSUME TypeOK, DefaultHolds, NEW c \in Calls, Refuse(c)
    PROVE  Sound(c)
<1>1. PICK kind \in Kinds : At(c, kind, "admitted") /\ Become(c, End(Own(kind)))
  BY DEF Refuse
<1>2. Own(kind) \in BOOLEAN /\ (Own(kind) => Busy(c) /\ ~Free(c))
  BY <1>1, OwnBusy DEF Own
<1>3. Takes(c)
  BY <1>1, <1>2, EndTakes
<1>4. QED
  BY <1>3, QuietSound DEF Refuse

LEMMA CheckSound ==
    ASSUME TypeOK, DefaultHolds, NEW c \in Calls, Check(c)
    PROVE  Sound(c)
<1>1. PICK kind \in DOMAIN Adding :
        /\ At(c, kind, "admitted")
        /\ \E t \in Adding[kind].checks : Found(t)
        /\ Become(c, Add(Adding[kind].inserts, TRUE, Own(kind)))
        /\ UNCHANGED <<user, database>>
  BY DEF Check
<1>2. PICK l, own : l = Adding[kind].inserts /\ own = Own(kind)
  OBVIOUS
<1>3. l \in Lefts /\ Head(l) # Signatures /\ own \in BOOLEAN
  BY <1>2, AddingFacts DEF Good, Own
<1>4. ~suite => (Busy(c) /\ ~Free(c)) \/ (~own /\ l \in FreeLefts)
  <2>1. CASE kind \in Staff
    <3>1. Found("users")
      BY <1>1, <2>1, AddingFacts
    <3>2. "users" # NoCheck
      BY DEF NoCheck
    <3>3. QED
      BY <3>1, <3>2 DEF Found
  <2>2. CASE kind \in Public
    BY <1>2, <2>2, AddingFacts DEF FreeAdd, Own
  <2>3. CASE kind \notin Staff \cup Public
    BY <1>1, <2>3, OwnBusy
  <2>4. QED
    BY <2>1, <2>2, <2>3
<1>5. Become(c, Add(l, TRUE, own))
  BY <1>1, <1>2
<1>6. Takes(c)
  BY <1>3, <1>4, <1>5, AddingTakes
<1>7. QED
  BY <1>1, <1>6, QuietSound

LEMMA AddRowSound ==
    ASSUME TypeOK, CallsHold, DefaultHolds, NEW c \in Calls, AddRow(c)
    PROVE  Sound(c)
<1>1. PICK l, t : l = Tail(call[c].left) /\ t = Head(call[c].left)
  OBVIOUS
<1>2. /\ call[c].at = "adding" /\ Insert(c, t) /\ Goes(c, l)
      /\ UNCHANGED <<user, default>>
  BY <1>1 DEF AddRow
<1>3. t \in Written /\ Busy(c)
  BY <1>1, <1>2, LeftsFacts DEF CallsHold, Busy
<1>4. Free(c) => t \in Unscreened
  BY <1>1, <1>2, FreeLeftsFacts DEF Free
<1>5. Takes(c)
  BY <1>1, <1>2, GoesTakes
<1>6. QED
  BY <1>1, <1>2, <1>3, <1>4, <1>5, InsertSound

LEMMA AddFailsSound ==
    ASSUME TypeOK, CallsHold, DefaultHolds, NEW c \in Calls, AddFails(c)
    PROVE  Sound(c)
<1>1. PICK l : l = IF call[c].must THEN <<>> ELSE Tail(call[c].left)
  OBVIOUS
<1>2. call[c].at = "adding" /\ Goes(c, l) /\ UNCHANGED <<user, database>>
  BY <1>1 DEF AddFails
<1>3. l = <<>> \/ l = Tail(call[c].left)
  BY <1>1
<1>4. Takes(c)
  BY <1>2, <1>3, GoesTakes
<1>5. QED
  BY <1>2, <1>4, QuietSound

LEMMA PersistSound ==
    ASSUME TypeOK, DefaultHolds, NEW c \in Calls, Persist(c)
    PROVE  Sound(c)
<1>1. /\ call[c].at = "answered" /\ Insert(c, "observability_events")
      /\ UNCHANGED <<user, default>>
  BY DEF Persist, Answered
<1>2. Busy(c) /\ ~Free(c)
  BY <1>1, WritingBusy
<1>3. Takes(c)
  BY DoneTakes DEF Persist
<1>4. "observability_events" \in Written /\ "observability_events" # Signatures
  BY WrittenFacts
<1>5. QED
  BY <1>1, <1>2, <1>3, <1>4, InsertSound

LEMMA DieSound ==
    ASSUME TypeOK, DefaultHolds, NEW c \in Calls, Die(c)
    PROVE  Sound(c)
BY DoneTakes, QuietSound DEF Die

LEMMA RecipientCreateSound ==
    ASSUME TypeOK, DefaultHolds, NEW c \in Calls, RecipientCreate(c)
    PROVE  Sound(c)
<1>1. /\ At(c, "newRecipient", "admitted") /\ Insert(c, "recipients")
      /\ default' \in {default, {c}} /\ Become(c, Answered) /\ UNCHANGED user
  BY DEF RecipientCreate
<1>2. Busy(c) /\ ~Free(c)
  BY <1>1, OwnBusy, Outside
<1>3. Takes(c)
  BY <1>1, <1>2, AnsweredTakes
<1>4. "recipients" \in Written /\ "recipients" \notin Singles /\ "recipients" # Signatures
  BY WrittenFacts
<1>5. PICK R, T \in SUBSET RowIds :
         StoreIn("recipients", R, T, c) /\ R = rows["recipients"] \cup {c}
  BY <1>1, <1>4, InsertFacts
<1>a. PICK t : t = "recipients"
  OBVIOUS
<1>b. t \in HandledTables /\ StoreIn(t, R, T, c)
  BY <1>4, <1>5, <1>a, WrittenFacts
<1>c. rows'[t] = R
  BY <1>5, <1>b, StoreInFacts, ZenonT(60)
<1>6. rows'["recipients"] = rows["recipients"] \cup {c}
  BY <1>5, <1>a, <1>c
<1>7. DefaultHolds'
  BY <1>1, <1>6 DEF DefaultHolds
<1>8. QED
  BY <1>1, <1>2, <1>3, <1>4, <1>5, <1>7, WriteSound

LEMMA UpdatingFacts ==
    ASSUME NEW kind \in DOMAIN Updating
    PROVE  /\ Updating[kind] \in {"users", "recipients", "templates"}
           /\ kind \notin Staff \cup Public
           /\ Updating[kind] \in Written /\ Updating[kind] # Signatures
<1>1. /\ Updating[kind] \in {"users", "recipients", "templates"}
      /\ kind \notin Staff \cup Public
  BY DEF Updating, Staff, Public
<1>2. QED
  BY <1>1, WrittenFacts

LEMMA UpdateReadSound ==
    ASSUME TypeOK, DefaultHolds, NEW c \in Calls, UpdateRead(c)
    PROVE  Sound(c)
<1>1. PICK kind \in DOMAIN Updating : \E r \in rows[Updating[kind]] :
        /\ At(c, kind, "admitted")
        /\ Become(c, [at |-> "writing", kind |-> kind, row |-> r,
                      text |-> r \in text[Updating[kind]],
                      default |-> kind = "recipient" /\ r \in default])
        /\ UNCHANGED <<user, database>>
  BY DEF UpdateRead
<1>2. PICK t : t = Updating[kind]
  OBVIOUS
<1>a. PICK r \in rows[t] :
        /\ At(c, kind, "admitted") /\ UNCHANGED <<user, database>>
        /\ Become(c, [at |-> "writing", kind |-> kind, row |-> r, text |-> r \in text[t],
                      default |-> kind = "recipient" /\ r \in default])
  BY <1>1, <1>2, Zenon
<1> DEFINE old == r \in text[t]
           wasDefault == kind = "recipient" /\ r \in default
<1>b. old \in BOOLEAN /\ wasDefault \in BOOLEAN
  OBVIOUS
<1>3. /\ At(c, kind, "admitted") /\ UNCHANGED <<user, database>>
      /\ Become(c, [at |-> "writing", kind |-> kind, row |-> r,
                    text |-> old, default |-> wasDefault])
  BY <1>a
<1> HIDE DEF old, wasDefault
<1>4. r \in RowIds
  BY <1>2, <1>3, UpdatingFacts, WrittenFacts DEF TypeOK
<1>5. PICK m : m = [at |-> "writing", kind |-> kind, row |-> r,
                    text |-> old, default |-> wasDefault]
  OBVIOUS
<1>6. m \in Local /\ m.at = "writing"
  BY <1>4, <1>5, <1>b DEF Local
<1>7. Busy(c) /\ ~Free(c)
  BY <1>3, UpdatingFacts, OwnBusy
<1>8. Takes(c)
  BY <1>3, <1>5, <1>6, <1>7, TakesTo
<1>9. QED
  BY <1>3, <1>8, QuietSound

LEMMA UpdateWriteSound ==
    ASSUME TypeOK, DefaultHolds, NEW c \in Calls, UpdateWrite(c)
    PROVE  Sound(c)
<1>1. PICK kind, t : kind = call[c].kind /\ t = Updating[kind]
  OBVIOUS
<1>2. /\ call[c].at = "writing" /\ kind \in DOMAIN Updating
      /\ Become(c, Answered) /\ UNCHANGED user
  BY <1>1 DEF UpdateWrite
<1>3. PICK r \in rows[t], new \in BOOLEAN, asked \in {"set", "clear", "keep"} :
        /\ Merged(c, t, r, new)
        /\ default' = IF t = "recipients" THEN NewDefault(call[c].default, asked, r)
                      ELSE default
  BY <1>1 DEF UpdateWrite
<1>4. t \in Written /\ t # Signatures /\ t \in HandledTables /\ "recipients" \notin Singles
  BY <1>1, <1>2, UpdatingFacts, WrittenFacts
<1>5. Busy(c) /\ ~Free(c)
  BY <1>2, WritingBusy
<1>a. Takes(c)
  BY <1>2, <1>5, AnsweredTakes
<1>6. PICK id : id = IF t \in Singles THEN c ELSE r
  OBVIOUS
<1>7. PICK R, T : /\ R = (rows[t] \ {r}) \cup {id}
                  /\ T = IF new \/ call[c].text THEN (text[t] \ {r}) \cup {id}
                         ELSE text[t] \ {r}
  OBVIOUS
<1>8. rows[t] \subseteq RowIds /\ text[t] \subseteq RowIds /\ id \in RowIds
  BY <1>3, <1>4, <1>6 DEF TypeOK, RowIds
<1>9. R \in SUBSET RowIds /\ T \in SUBSET RowIds
  BY <1>7, <1>8
<1>10. StoreIn(t, R, T, c)
  BY <1>3, <1>6, <1>7 DEF Merged
<1>12. DefaultHolds'
  <2>1. CASE t = "recipients"
    <3>1. R = rows[t]
      BY <1>3, <1>4, <1>6, <1>7, <2>1
    <3>a. rows'[t] = R
      BY <1>4, <1>9, <1>10, StoreInFacts, ZenonT(60)
    <3>2. rows'["recipients"] = rows["recipients"]
      BY <2>1, <3>1, <3>a
    <3>3. default' = {r} \/ default' = default \ {r}
      BY <1>3, <2>1 DEF NewDefault
    <3>4. QED
      BY <1>3, <2>1, <3>2, <3>3 DEF DefaultHolds
  <2>2. CASE t # "recipients"
    BY <1>3, <1>4, <1>9, <1>10, <2>2, OtherDefault
  <2>3. QED
    BY <2>1, <2>2
<1>13. QED
  BY <1>2, <1>4, <1>5, <1>a, <1>9, <1>10, <1>12, WriteSound

LEMMA UpdateMissesSound ==
    ASSUME TypeOK, DefaultHolds, NEW c \in Calls, UpdateMisses(c)
    PROVE  Sound(c)
<1>1. Become(c, Answered) /\ UNCHANGED <<user, database>> /\ Busy(c) /\ ~Free(c)
  BY WritingBusy DEF UpdateMisses
<1>2. QED
  BY <1>1, AnsweredTakes, QuietSound

LEMMA DeletingFacts ==
    ASSUME NEW kind \in DOMAIN Deleting
    PROVE  /\ Deleting[kind] \in {"recipients", "templates", "inbound_tracking"}
           /\ kind \notin Staff \cup Public
           /\ Deleting[kind] \in Written /\ Deleting[kind] # Signatures
<1>1. /\ Deleting[kind] \in {"recipients", "templates", "inbound_tracking"}
      /\ kind \notin Staff \cup Public
  BY DEF Deleting, Staff, Public
<1>2. QED
  BY <1>1, WrittenFacts

LEMMA DeleteRowSound ==
    ASSUME TypeOK, DefaultHolds, NEW c \in Calls, DeleteRow(c)
    PROVE  Sound(c)
<1>1. PICK kind \in DOMAIN Deleting : \E r \in rows[Deleting[kind]] :
        /\ At(c, kind, "admitted")
        /\ StoreIn(Deleting[kind], rows[Deleting[kind]] \ {r}, text[Deleting[kind]] \ {r}, c)
        /\ default' = IF Deleting[kind] = "recipients" THEN default \ {r} ELSE default
  BY DEF DeleteRow
<1>2. PICK t : t = Deleting[kind]
  OBVIOUS
<1>3. PICK r \in rows[t] :
        /\ At(c, kind, "admitted")
        /\ StoreIn(t, rows[t] \ {r}, text[t] \ {r}, c)
        /\ default' = IF t = "recipients" THEN default \ {r} ELSE default
  BY <1>1, <1>2, Zenon
<1>4. t \in Written /\ t # Signatures /\ t \in HandledTables
  BY <1>2, DeletingFacts, WrittenFacts
<1>5. PICK R, T : R = rows[t] \ {r} /\ T = text[t] \ {r}
  OBVIOUS
<1>6. R \in SUBSET RowIds /\ T \in SUBSET RowIds /\ StoreIn(t, R, T, c)
  BY <1>3, <1>4, <1>5 DEF TypeOK
<1>7. Busy(c) /\ ~Free(c)
  BY <1>3, DeletingFacts, OwnBusy
<1>8. Takes(c) /\ UNCHANGED user
  BY <1>7, AnsweredTakes DEF DeleteRow
<1>9. DefaultHolds'
  <2>1. CASE t = "recipients"
    <3>a. rows'[t] = R
      BY <1>4, <1>6, StoreInFacts, ZenonT(60)
    <3>1. rows'["recipients"] = rows["recipients"] \ {r}
      BY <1>5, <2>1, <3>a
    <3>2. default' = default \ {r}
      BY <1>3, <2>1
    <3>3. QED
      BY <3>1, <3>2 DEF DefaultHolds
  <2>2. CASE t # "recipients"
    BY <1>3, <1>4, <1>6, <2>2, OtherDefault
  <2>3. QED
    BY <2>1, <2>2
<1>10. QED
  BY <1>4, <1>6, <1>7, <1>8, <1>9, WriteSound

(* One more insert of a call made as the customer.                         *)
LEMMA OneMore ==
    ASSUME TypeOK, NEW c \in Calls, Become(c, AndNotify) \/ Become(c, AndVersion),
           Busy(c), ~Free(c)
    PROVE  Takes(c)
<1>1. /\ <<"in_app_notifications">> \in Lefts
      /\ Head(<<"in_app_notifications">>) # Signatures
      /\ <<"resource_versions">> \in Lefts /\ Head(<<"resource_versions">>) # Signatures
  BY OneTable, WrittenFacts
<1>2. QED
  BY <1>1, AddingTakes DEF AndNotify, AndVersion

LEMMA PrefsReadSound ==
    ASSUME TypeOK, DefaultHolds, NEW c \in Calls, PrefsRead(c)
    PROVE  Sound(c)
<1> DEFINE found == rows["notification_prefs"] # {}
<1>1. found \in BOOLEAN
  OBVIOUS
<1>2. /\ At(c, "prefs", "admitted") /\ UNCHANGED <<user, database>>
      /\ Become(c, [at |-> "writing", kind |-> "prefs", found |-> found])
  BY DEF PrefsRead
<1> HIDE DEF found
<1>3. PICK m : m = [at |-> "writing", kind |-> "prefs", found |-> found]
  OBVIOUS
<1>4. m \in Local /\ m.at = "writing"
  BY <1>1, <1>3 DEF Local
<1>5. Busy(c) /\ ~Free(c)
  BY <1>2, OwnBusy, Outside
<1>6. Takes(c)
  BY <1>2, <1>3, <1>4, <1>5, TakesTo
<1>7. QED
  BY <1>2, <1>6, QuietSound

LEMMA PrefsWriteSound ==
    ASSUME TypeOK, DefaultHolds, NEW c \in Calls, PrefsWrite(c)
    PROVE  Sound(c)
<1>1. call[c].at = "writing" /\ UNCHANGED <<user, default>>
  BY DEF PrefsWrite, At
<1>2. Become(c, Answered) \/ Become(c, AndNotify)
  BY DEF PrefsWrite
<1>3. Busy(c) /\ ~Free(c)
  BY <1>1, WritingBusy
<1>4. Takes(c)
  BY <1>2, <1>3, AnsweredTakes, OneMore
<1>5. CASE Insert(c, "notification_prefs")
  BY <1>1, <1>3, <1>4, <1>5, InsertSound, WrittenFacts
<1>6. CASE UNCHANGED <<rows, text, erasure>>
  <2>1. UNCHANGED <<user, database>>
    BY <1>1, <1>6 DEF database
  <2>2. QED
    BY <1>4, <2>1, QuietSound
<1>7. QED
  BY <1>5, <1>6 DEF PrefsWrite

LEMMA SeedCountSound ==
    ASSUME TypeOK, DefaultHolds, NEW c \in Calls, SeedCount(c)
    PROVE  Sound(c)
<1>1. /\ At(c, "seed", "admitted") /\ UNCHANGED <<user, database>>
      /\ Become(c, Answered) \/ Become(c, AndNotify)
  BY DEF SeedCount
<1>2. Busy(c) /\ ~Free(c)
  BY <1>1, OwnBusy, Outside
<1>3. Takes(c)
  BY <1>1, <1>2, AnsweredTakes, OneMore
<1>4. QED
  BY <1>1, <1>3, QuietSound

LEMMA SignCheckSound ==
    ASSUME TypeOK, DefaultHolds, NEW c \in Calls, SignCheck(c)
    PROVE  Sound(c)
<1>1. /\ At(c, "sign", "admitted") /\ UNCHANGED <<user, database>>
      /\ ~Frozen(rows[Signatures] # {})
      /\ Become(c, Add(<<Signatures>>, TRUE, TRUE))
  BY DEF SignCheck, Signatures
<1>2. Busy(c) /\ ~Free(c)
  BY <1>1, OwnBusy, Outside
<1>3. <<Signatures>> \in Lefts /\ (rows[Signatures] = {} \/ ~delivered)
  BY <1>1 DEF Lefts, Frozen
<1>4. Takes(c)
  BY <1>1, <1>2, <1>3, AddingTakes
<1>5. QED
  BY <1>1, <1>4, QuietSound

LEMMA RestoreSound ==
    ASSUME TypeOK, DefaultHolds, NEW c \in Calls, Restore(c)
    PROVE  Sound(c)
<1>1. /\ At(c, "restore", "admitted") /\ Become(c, AndVersion)
      /\ StoreIn("recipients", rows["recipients"], text["recipients"], c)
      /\ UNCHANGED <<user, default>>
  BY DEF Restore
<1>2. Busy(c) /\ ~Free(c)
  BY <1>1, OwnBusy, Outside
<1>3. Takes(c)
  BY <1>1, <1>2, OneMore
<1>4. "recipients" \in Written /\ "recipients" # Signatures /\ "recipients" \in HandledTables
  BY WrittenFacts
<1>5. PICK R, T \in SUBSET RowIds : R = rows["recipients"] /\ T = text["recipients"]
  BY <1>4 DEF TypeOK
<1>6. DefaultHolds'
  BY <1>1, <1>4, <1>5, OtherDefault
<1>7. QED
  BY <1>1, <1>2, <1>3, <1>4, <1>5, <1>6, WriteSound

LEMMA MatchSound ==
    ASSUME TypeOK, DefaultHolds, NEW c \in Calls, Match(c)
    PROVE  Sound(c)
<1>1. PICK t : t = "unmatched_packages"
  OBVIOUS
<1>2. /\ t \in Written /\ t # Signatures /\ t \in HandledTables /\ t \in Unscreened
      /\ t # "recipients"
  BY <1>1, WrittenFacts DEF Unscreened
<1>3. PICK r \in rows[t], linked \in BOOLEAN :
        StoreIn(t, rows[t], IF linked THEN text[t] \cup {r} ELSE text[t] \ {r}, c)
  BY <1>1 DEF Match
<1>4. PICK R, T : R = rows[t] /\ T = IF linked THEN text[t] \cup {r} ELSE text[t] \ {r}
  OBVIOUS
<1>5. R \in SUBSET RowIds /\ T \in SUBSET RowIds /\ StoreIn(t, R, T, c)
  BY <1>2, <1>3, <1>4 DEF TypeOK
<1>6. Takes(c) /\ Busy(c) /\ UNCHANGED <<user, default>>
  BY DoneTakes DEF Match, At, Busy
<1>7. DefaultHolds'
  BY <1>2, <1>5, <1>6, OtherDefault
<1>8. QED
  BY <1>2, <1>5, <1>6, <1>7, WriteSound

LEMMA DeactivateSound ==
    ASSUME TypeOK, DefaultHolds, NEW c \in Calls, Deactivate(c)
    PROVE  Sound(c)
<1>1. /\ At(c, "deactivate", "admitted") /\ account' = "inactive"
      /\ StoreIn("sessions", {}, {}, c)
      /\ Become(c, Answered) /\ UNCHANGED <<suite, default>>
  BY DEF Deactivate
<1>2. Busy(c) /\ ~Free(c)
  BY <1>1, OwnBusy, Outside
<1>3. Takes(c)
  BY <1>1, <1>2, AnsweredTakes
<1>4. /\ "sessions" \in Written /\ "sessions" \in HandledTables
      /\ "sessions" # Signatures /\ "sessions" # "recipients"
  BY WrittenFacts DEF Signatures
<1>5. DefaultHolds'
  BY <1>1, <1>4, OtherDefault
<1>6. Writes(c)
  BY <1>1, <1>2, <1>4 DEF Writes
<1>7. QED
  BY <1>1, <1>3, <1>5, <1>6 DEF Sound

LEMMA CallStepSound ==
    ASSUME TypeOK, CallsHold, DefaultHolds, NEW c \in Calls, CallStep(c)
    PROVE  Sound(c)
BY BeginSound, RefuseSound, CheckSound, AddRowSound, AddFailsSound, PersistSound,
   DieSound, RecipientCreateSound, UpdateReadSound, UpdateWriteSound,
   UpdateMissesSound, DeleteRowSound, PrefsReadSound, PrefsWriteSound,
   SeedCountSound, SignCheckSound, RestoreSound, MatchSound, DeactivateSound
   DEF CallStep

-----------------------------------------------------------------------------
(* What a write and the erasure leave behind.                              *)
LEMMA WritesFacts ==
    ASSUME TypeOK, NEW c \in Calls, Writes(c)
    PROVE  \E t \in Written :
              /\ rows' \in [HandledTables -> SUBSET RowIds]
              /\ text' \in [HandledTables -> SUBSET RowIds]
              /\ \A u \in HandledTables \ {t} : rows'[u] = rows[u] /\ text'[u] = text[u]
              /\ erasure' \in [pending : SUBSET Calls,
                               wrote : SUBSET (Calls \X HandledTables), back : SUBSET Calls]
              /\ suite' = suite /\ Busy(c)
              /\ suite => erasure' = erasure
              /\ ~suite => /\ erasure'.pending = erasure.pending
                           /\ erasure'.back = erasure.back
                           /\ erasure'.wrote = erasure.wrote \cup {<<c, t>>}
              /\ t = Signatures => call[c].at = "adding" /\ Head(call[c].left) = Signatures
              /\ Free(c) => t \in Unscreened
<1>1. PICK t \in Written : \E R, T \in SUBSET RowIds :
         /\ StoreIn(t, R, T, c)
         /\ t = Signatures => call[c].at = "adding" /\ Head(call[c].left) = Signatures
         /\ Free(c) => t \in Unscreened
  BY DEF Writes
<1>2. PICK R \in SUBSET RowIds, T \in SUBSET RowIds :
         /\ StoreIn(t, R, T, c)
         /\ t = Signatures => call[c].at = "adding" /\ Head(call[c].left) = Signatures
         /\ Free(c) => t \in Unscreened
  BY <1>1
<1>3. t \in HandledTables
  BY WrittenFacts
<1>4. suite' = suite /\ Busy(c)
  BY DEF Writes
<1>5. /\ rows' \in [HandledTables -> SUBSET RowIds]
      /\ text' \in [HandledTables -> SUBSET RowIds]
      /\ \A u \in HandledTables \ {t} : rows'[u] = rows[u] /\ text'[u] = text[u]
      /\ erasure' \in [pending : SUBSET Calls, wrote : SUBSET (Calls \X HandledTables),
                       back : SUBSET Calls]
      /\ suite => erasure' = erasure
      /\ ~suite => /\ erasure'.pending = erasure.pending
                   /\ erasure'.back = erasure.back
                   /\ erasure'.wrote = erasure.wrote \cup {<<c, t>>}
  BY <1>2, <1>3, StoreInFacts
<1>6. QED
  BY <1>2, <1>4, <1>5

LEMMA ReturnsFacts ==
    ASSUME TypeOK, NEW c \in Calls, Returns(c)
    PROVE  /\ erasure' \in [pending : SUBSET Calls, wrote : SUBSET (Calls \X HandledTables),
                            back : SUBSET Calls]
           /\ erasure'.pending = erasure.pending /\ erasure'.wrote = erasure.wrote
           /\ erasure'.back = erasure.back \cup {c}
<1>1. PICK B : B = erasure.back \cup {c}
  OBVIOUS
<1>2. erasure' = [erasure EXCEPT !.back = B]
  BY <1>1 DEF Returns
<1>3. B \in SUBSET Calls
  BY <1>1 DEF TypeOK
<1>4. QED
  BY <1>1, <1>2, <1>3 DEF TypeOK

LEMMA EraseFacts ==
    ASSUME TypeOK, DefaultHolds, NEW c \in Calls, Erase(c)
    PROVE  /\ rows' \in [HandledTables -> SUBSET RowIds]
           /\ text' = [t \in HandledTables |->
                          IF t \in Scrubbed \cup Unlinked \cup Removed THEN {} ELSE text[t]]
           /\ account' = "deleted" /\ suite' = FALSE
           /\ erasure' = [pending |-> UnderWay, wrote |-> {}, back |-> {}]
           /\ Takes(c) /\ Busy(c) /\ DefaultHolds'
<1>1. PICK kind \in {"erase", "gdprErase"} :
        At(c, kind, "admitted") /\ (Become(c, Answered) \/ Become(c, AndVersion))
  BY DEF Erase
<1>2. Busy(c) /\ ~Free(c)
  BY <1>1, OwnBusy, Outside
<1>3. Takes(c)
  BY <1>1, <1>2, AnsweredTakes, OneMore
<1>4. rows' = [t \in HandledTables |-> IF t \in Removed THEN {} ELSE rows[t]]
  BY DEF Erase
<1>5. rows' \in [HandledTables -> SUBSET RowIds]
  BY <1>4 DEF TypeOK
<1>6. rows'["recipients"] = rows["recipients"]
  BY <1>4, Reached, WrittenFacts
<1>7. DefaultHolds'
  BY <1>6 DEF Erase, DefaultHolds
<1>8. QED
  BY <1>2, <1>3, <1>5, <1>7 DEF Erase

-----------------------------------------------------------------------------
(* Each part of the invariant, over the steps of a call and the erasure.   *)
LEMMA TypeStep ==
    ASSUME TypeOK, NEW c \in Calls, Sound(c), UNCHANGED delivered
    PROVE  TypeOK'
<1>1. call' \in [Calls -> Local] /\ account' \in {"active", "inactive", "deleted"}
  BY DEF Sound, Takes
<1>2. CASE Quiet
  BY <1>1, <1>2 DEF Quiet, database, TypeOK
<1>3. CASE Returns(c)
  BY <1>1, <1>3, ReturnsFacts DEF Returns, TypeOK
<1>4. CASE Writes(c)
  <2>1. /\ rows' \in [HandledTables -> SUBSET RowIds]
        /\ text' \in [HandledTables -> SUBSET RowIds]
        /\ erasure' \in [pending : SUBSET Calls, wrote : SUBSET (Calls \X HandledTables),
                         back : SUBSET Calls]
        /\ suite' = suite
    BY <1>4, WritesFacts
  <2>2. default' \subseteq RowIds
    BY <2>1, WrittenFacts DEF Sound, DefaultHolds
  <2>3. QED
    BY <1>1, <2>1, <2>2 DEF TypeOK
<1>5. QED
  BY <1>2, <1>3, <1>4 DEF Sound

LEMMA CallsStep ==
    ASSUME CallsHold, NEW c \in Calls, Takes(c)
    PROVE  CallsHold'
BY DEF CallsHold, Takes

(* Who writes a table that is screened was under way at the erasure or     *)
(* admitted since.                                                         *)
LEMMA ErasureStep ==
    ASSUME TypeOK, ErasureHolds, ErasedForGood, NEW c \in Calls, Sound(c)
    PROVE  ErasureHolds' /\ ErasedForGood'
<1>1. Takes(c) /\ suite' = suite /\ suite \in BOOLEAN
  BY DEF Sound, TypeOK, Quiet, Returns, Writes
<1>2. \A t \in Impersonal : text'[t] = {}
  <2>1. CASE UNCHANGED text
    BY <2>1 DEF ErasureHolds
  <2>2. CASE Writes(c)
    BY <2>2, WritesFacts, WrittenFacts, Reached DEF ErasureHolds
  <2>3. QED
    BY <2>1, <2>2 DEF Sound, Quiet, Returns, database
<1>3. CASE suite
  BY <1>1, <1>2, <1>3 DEF ErasureHolds, ErasedForGood
<1>4. CASE ~suite
  <2>1. \A d \in Calls : Known(d) => Known(d)'
    BY <1>4, WritesFacts, ReturnsFacts DEF Sound, Quiet, database, Known
  <2>2. Returns(c) => Known(c)'
    BY ReturnsFacts DEF Known
  <2>3. ASSUME NEW d \in Calls, Busy(d)'
        PROVE  Free(d)' \/ Known(d)'
    <3>1. CASE d = c
      BY <1>1, <1>4, <2>1, <2>2, <2>3, <3>1 DEF Takes, ErasureHolds
    <3>2. CASE d # c
      <4>1. call'[d] = call[d]
        BY <1>1, <3>2 DEF Takes
      <4>2. (Busy(d)' <=> Busy(d)) /\ (Free(d)' <=> Free(d))
        BY <4>1 DEF Busy, Free
      <4>3. QED
        BY <1>4, <2>1, <2>3, <4>2 DEF ErasureHolds
    <3>3. QED
      BY <3>1, <3>2
  <2>4. ErasureHolds'
    BY <1>2, <2>3 DEF ErasureHolds
  <2>5. ErasedForGood'
    <3>1. CASE UNCHANGED text /\ erasure'.wrote = erasure.wrote
      BY <1>4, <2>1, <3>1 DEF ErasedForGood, Known
    <3>2. CASE Writes(c)
      <4>1. PICK t \in Written :
              /\ \A u \in HandledTables \ {t} : text'[u] = text[u]
              /\ erasure'.wrote = erasure.wrote \cup {<<c, t>>}
              /\ erasure'.pending = erasure.pending /\ erasure'.back = erasure.back
              /\ Busy(c) /\ (Free(c) => t \in Unscreened)
        BY <1>4, <3>2, WritesFacts
      <4>2. Free(c) \/ Known(c)
        BY <1>4, <4>1 DEF ErasureHolds
      <4>3. SUFFICES ASSUME NEW u \in HandledTables
                     PROVE  LET writers == {d \in Calls : <<d, u>> \in erasure'.wrote}
                            IN  /\ text'[u] # {} => writers # {}
                                /\ u \notin Unscreened =>
                                      writers \subseteq erasure'.pending \cup erasure'.back
        BY <1>1, <1>4 DEF ErasedForGood
      <4>4. LET writers == {d \in Calls : <<d, u>> \in erasure.wrote}
            IN  /\ text[u] # {} => writers # {}
                /\ u \notin Unscreened => writers \subseteq erasure.pending \cup erasure.back
        BY <1>4 DEF ErasedForGood
      <4>5. CASE u = t
        BY <4>1, <4>2, <4>4, <4>5 DEF Known
      <4>6. CASE u # t
        BY <4>1, <4>4, <4>6
      <4>7. QED
        BY <4>5, <4>6
    <3>3. QED
      BY <3>1, <3>2, ReturnsFacts DEF Sound, Quiet, Returns, database
  <2>6. QED
    BY <2>4, <2>5
<1>5. QED
  BY <1>1, <1>3, <1>4

(* The erasure finds every call under way, and empties every table.        *)
LEMMA Erased ==
    ASSUME TypeOK, DefaultHolds, ErasureHolds, NEW c \in Calls, Erase(c)
    PROVE  ErasureHolds' /\ ErasedForGood'
<1>1. ASSUME NEW t \in HandledTables
      PROVE  text'[t] = {}
  BY EraseFacts, Reached DEF ErasureHolds
<1>a. erasure' = [pending |-> UnderWay, wrote |-> {}, back |-> {}]
  BY EraseFacts
<1>2. erasure'.pending = UnderWay /\ erasure'.wrote = {} /\ erasure'.back = {}
  BY <1>a
<1>3. ASSUME NEW d \in Calls, Busy(d)'
      PROVE  d \in UnderWay
  BY <1>3, EraseFacts DEF Takes, Busy, UnderWay
<1>4. \A t \in Impersonal : text'[t] = {}
  BY <1>1, Reached
<1>5. ErasureHolds'
  BY <1>2, <1>3, <1>4 DEF ErasureHolds, Known
<1>6. ErasedForGood'
  BY <1>1, <1>2 DEF ErasedForGood
<1>7. QED
  BY <1>5, <1>6

(* The signature is sealed with nobody about to write it, and a call that  *)
(* looks at it while it is sealed finds it frozen.                         *)
LEMMA NewlySealed ==
    ASSUME Seal, sealed = None \/ ~delivered'
    PROVE  SealHolds'
<1>1. SUFFICES ASSUME sealed' # None
               PROVE  /\ delivered'
                      /\ rows'[Signatures] = sealed' /\ rows'[Signatures] # {}
                      /\ \A d \in Calls : call'[d].at = "adding" =>
                                             Head(call'[d].left) # Signatures
  BY DEF SealHolds
<1>2. delivered' /\ Settled' /\ sealed' = rows'[Signatures]
  BY <1>1 DEF Seal, Signatures
<1>3. QED
  BY <1>2 DEF Settled, UnderWay, Signatures

LEMMA StillSealed ==
    ASSUME SealHolds, Seal, sealed # None, delivered',
           rows'[Signatures] = rows[Signatures],
           \A d \in Calls : call'[d].at = "adding" => Head(call'[d].left) # Signatures
    PROVE  SealHolds'
<1>1. sealed' = sealed
  BY DEF Seal
<1>2. QED
  BY <1>1 DEF SealHolds

LEMMA SealStep ==
    ASSUME TypeOK, SealHolds, Seal, NEW c \in Calls, Sound(c), UNCHANGED delivered
    PROVE  SealHolds'
<1>1. CASE sealed = None \/ ~delivered'
  BY <1>1, NewlySealed
<1>2. CASE sealed # None /\ delivered'
  <2>1. /\ delivered /\ rows[Signatures] # {}
        /\ \A d \in Calls : call[d].at = "adding" => Head(call[d].left) # Signatures
    BY <1>2 DEF SealHolds
  <2>2. rows'[Signatures] = rows[Signatures]
    <3>1. CASE Quiet \/ Returns(c)
      BY <3>1 DEF Quiet, Returns, database
    <3>2. CASE Writes(c)
      BY <2>1, <3>2, WritesFacts, WrittenFacts
    <3>3. QED
      BY <3>1, <3>2 DEF Sound
  <2>3. \A d \in Calls : call'[d].at = "adding" => Head(call'[d].left) # Signatures
    BY <2>1 DEF Sound, Takes
  <2>4. QED
    BY <1>2, <2>2, <2>3, StillSealed
<1>3. QED
  BY <1>1, <1>2

-----------------------------------------------------------------------------
LEMMA Initially == Init => IInv
<1> SUFFICES ASSUME Init PROVE IInv
  OBVIOUS
<1>1. "recipients" \in HandledTables /\ Impersonal \subseteq HandledTables
  BY WrittenFacts, Reached
<1>2. TypeOK
  BY DEF Init, TypeOK, RowIds, Local, NoErasure
<1>3. CallsHold /\ SealHolds
  BY DEF Init, CallsHold, SealHolds, Fresh
<1>4. ErasureHolds /\ ErasedForGood
  BY <1>1 DEF Init, ErasureHolds, ErasedForGood
<1>5. DefaultHolds
  BY <1>1 DEF Init, DefaultHolds
<1>6. QED
  BY <1>2, <1>3, <1>4, <1>5 DEF IInv

LEMMA CallInductive ==
    ASSUME IInv, NEW c \in Calls, CallStep(c), UNCHANGED delivered, Seal
    PROVE  IInv'
<1> USE DEF IInv
<1>1. Sound(c)
  BY CallStepSound
<1>2. TypeOK'
  BY <1>1, TypeStep
<1>3. CallsHold'
  BY <1>1, CallsStep DEF Sound
<1>4. ErasureHolds' /\ ErasedForGood'
  BY <1>1, ErasureStep
<1>5. DefaultHolds'
  BY <1>1 DEF Sound
<1>6. SealHolds'
  BY <1>1, SealStep
<1>7. QED
  BY <1>2, <1>3, <1>4, <1>5, <1>6

LEMMA EraseInductive ==
    ASSUME IInv, NEW c \in Calls, Erase(c), UNCHANGED delivered, sealed' = None
    PROVE  IInv'
<1> USE DEF IInv
<1>1. /\ rows' \in [HandledTables -> SUBSET RowIds]
      /\ text' = [t \in HandledTables |->
                     IF t \in Scrubbed \cup Unlinked \cup Removed THEN {} ELSE text[t]]
      /\ account' = "deleted" /\ suite' = FALSE
      /\ erasure' = [pending |-> UnderWay, wrote |-> {}, back |-> {}]
      /\ Takes(c) /\ DefaultHolds'
  BY EraseFacts
<1>2. text' \in [HandledTables -> SUBSET RowIds]
  BY <1>1 DEF TypeOK
<1>3. UnderWay \in SUBSET Calls
  BY DEF UnderWay
<1>4. erasure' \in [pending : SUBSET Calls, wrote : SUBSET (Calls \X HandledTables),
                    back : SUBSET Calls]
  BY <1>1, <1>3
<1>5. TypeOK'
  BY <1>1, <1>2, <1>4 DEF TypeOK, Takes, Erase
<1>6. CallsHold'
  BY <1>1, CallsStep
<1>7. ErasureHolds' /\ ErasedForGood'
  BY Erased
<1>8. SealHolds'
  BY DEF SealHolds
<1>9. QED
  BY <1>1, <1>5, <1>6, <1>7, <1>8

(* The steps of an admin.                                                  *)
LEMMA AdminInductive ==
    ASSUME IInv, AdminSetStatus \/ AdminUserUpdate, Seal
    PROVE  IInv'
<1> USE DEF IInv
<1>a. /\ UNCHANGED <<suite, default, erasure, call>> /\ delivered' \in BOOLEAN
      /\ account' \in {"active", "inactive", "deleted"}
      /\ \/ UNCHANGED <<rows, text>>
         \/ /\ rows' = [rows EXCEPT !["sessions"] = {}]
            /\ text' = [text EXCEPT !["sessions"] = {}]
  BY DEF AdminSetStatus, AdminUserUpdate, user, database, TypeOK
<1>b. "sessions" \notin {Signatures, "recipients"}
  BY DEF Signatures
<1>1. /\ rows' \in [HandledTables -> SUBSET RowIds]
      /\ text' \in [HandledTables -> SUBSET RowIds]
      /\ \A t \in HandledTables : text'[t] = text[t] \/ text'[t] = {}
      /\ rows'[Signatures] = rows[Signatures]
      /\ rows'["recipients"] = rows["recipients"]
  BY <1>a, <1>b, WrittenFacts DEF TypeOK
<1>2. TypeOK' /\ CallsHold' /\ DefaultHolds'
  BY <1>a, <1>1 DEF TypeOK, CallsHold, DefaultHolds
<1>3. ErasureHolds' /\ ErasedForGood'
  BY <1>a, <1>1, Reached DEF ErasureHolds, ErasedForGood, Busy, Free, Known
<1>4. SealHolds'
  <2>1. CASE sealed = None \/ ~delivered'
    BY <2>1, NewlySealed
  <2>2. CASE sealed # None /\ delivered'
    BY <1>a, <1>1, <2>2, StillSealed DEF SealHolds
  <2>3. QED
    BY <2>1, <2>2
<1>5. QED
  BY <1>2, <1>3, <1>4

LEMMA Inductive == IInv /\ [Next]_vars => IInv'
<1> SUFFICES ASSUME IInv, [Next]_vars PROVE IInv'
  OBVIOUS
<1>1. CASE Next
  BY <1>1, CallInductive, EraseInductive, AdminInductive DEF Next
<1>2. CASE UNCHANGED vars
  BY <1>2 DEF vars, IInv, TypeOK, CallsHold, ErasureHolds, ErasedForGood,
     DefaultHolds, SealHolds, Busy, Free, Known
<1>3. QED
  BY <1>1, <1>2

LEMMA Always == Spec => []IInv
BY Initially, Inductive, PTL DEF Spec

-----------------------------------------------------------------------------
(* The account, the rows, the calls and the history have their types.      *)
THEOREM RecordsTypeCorrect == Spec => []TypeOK
<1>1. IInv => TypeOK
  BY DEF IInv
<1>2. QED
  BY <1>1, Always, PTL

(* AnonymizeUserData: however many calls are under way, and whether or not *)
(* an admin sets the account active again, a handled table holds something *)
(* personal only by the write of a call that RequireAuth admitted before   *)
(* the erasure or after that, or that does not look at the account.        *)
THEOREM ErasedForGoodCorrect == Spec => []ErasedForGood
<1>1. IInv => ErasedForGood
  BY DEF IInv
<1>2. QED
  BY <1>1, Always, PTL

(* recipientsCreate, recipientsUpdate, recipientsDelete: any number of     *)
(* them at once leave at most one default recipient, and one that exists.  *)
THEOREM OneDefaultCorrect == Spec => []OneDefault
<1>1. IInv => OneDefault
  <2> SUFFICES ASSUME IInv PROVE OneDefault
    OBVIOUS
  <2>1. /\ \A q, r \in default : q = r
        /\ default \subseteq rows["recipients"]
    BY DEF IInv, DefaultHolds
  <2>2. CASE default = {}
    <3>1. Cardinality(default) = 0
      BY <2>2, FS_EmptySet
    <3>2. QED
      BY <2>1, <3>1 DEF OneDefault
  <2>3. CASE default # {}
    <3>a. PICK r : r \in default
      BY <2>3
    <3>b. \A q \in default : q = r
      BY <2>1, <3>a, Zenon
    <3>1. default = {r}
      BY <3>a, <3>b
    <3>2. Cardinality(default) = 1
      BY <3>1, FS_Singleton
    <3>3. QED
      BY <2>1, <3>2 DEF OneDefault
  <2>4. QED
    BY <2>2, <2>3
<1>2. QED
  BY <1>1, Always, PTL

(* parcelDeliverySignatureCapture: a signature of a delivered request that *)
(* no call has yet to replace stays until the erasure or an admin's step.  *)
THEOREM SignatureFrozenCorrect == Spec => []SignatureFrozen
<1>1. IInv => SignatureFrozen
  BY DEF IInv, SealHolds, SignatureFrozen, Signatures
<1>2. QED
  BY <1>1, Always, PTL
=============================================================================
