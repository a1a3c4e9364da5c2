---------------------------- MODULE AccountSecurity ----------------------------
(***************************************************************************)
(* What one customer can do under /security, and the request to be erased  *)
(* that ends it: one-time codes by mail (setup, challenge, verify,         *)
(* disable) and API keys (create, revoke, rotate).  A call is admitted     *)
(* while the account is active and then runs statement by statement beside *)
(* other calls of the customer; a statement may fail.                      *)
(*                                                                         *)
(* A code that has expired is refused like none; refusals change nothing.  *)
(***************************************************************************)
EXTENDS AuthThrottle

CONSTANTS
    Handlers,      \* calls under way
    MaxFails,      \* wrong codes until a code is dropped (5)
    MaxCodes,      \* bound on challenges
    MaxKeys,       \* bound on API keys
    MaxSlips,      \* bound on failing statements
    None

Codes == 1 .. MaxCodes
Keys == 1 .. MaxKeys
Row == [enabled : BOOLEAN, code : Codes \cup {None}, fails : Nat]

ASSUME AccountSecurityAssumption ==
    /\ IsFiniteSet(Handlers)
    /\ MaxFails \in Nat \ {0}
    /\ MaxCodes \in Nat /\ MaxKeys \in Nat /\ MaxSlips \in Nat
    /\ None \notin Nat /\ None \notin Row            \* NULL is no value, no row is no row

VARIABLES
    active,        \* users.status is active
    mfa,           \* the row of user_mfa, None when there is none
    codes,         \* challenges so far; the n-th sends code n
    keys,          \* api_keys, in the order of creation
    calls,         \* what each handler is doing
    slips,         \* failing statements so far
    wrong,         \* history: wrong codes compared with each code by verify
    ended          \* history: key chains that were revoked or erased

customer == <<active, mfa, codes, keys, wrong, ended>>
vars == <<log, let, active, mfa, codes, keys, calls, slips, wrong, ended>>

Ops == {"setup", "challenge", "verify", "disable", "create", "revoke", "rotate", "erase"}
NewMfa == [enabled |-> FALSE, code |-> None, fails |-> 0]

Idle == [step |-> "idle"]
Goto(h, local) == calls' = [calls EXCEPT ![h] = local]
Done(h) == Goto(h, Idle)
Slip == slips < MaxSlips /\ slips' = slips + 1

(* A rotation that has read loses its snapshot when another call writes:   *)
(* SQLite then refuses its first write.                                    *)
Stale(call) == IF call.step = "rotating" THEN [call EXCEPT !.stale = TRUE] ELSE call
Wrote(h, local) ==
    calls' = [g \in Handlers |-> IF g = h THEN local ELSE Stale(calls[g])]

Init ==
    /\ ThrottleInit
    /\ active = TRUE
    /\ mfa = None
    /\ codes = 0
    /\ keys = <<>>
    /\ calls = [h \in Handlers |-> Idle]
    /\ slips = 0
    /\ wrong = [c \in Codes |-> 0]
    /\ ended = {}

(* RequireAuth.                                                            *)
Admit(h) ==
    /\ calls[h] = Idle /\ active
    /\ \E op \in Ops : Goto(h, [step |-> op])
    /\ UNCHANGED <<throttleVars, customer, slips>>

(* A statement fails: the call is answered 500 and has no further effect.  *)
Fail(h) ==
    /\ calls[h].step \notin {"idle", "erasing"}
    /\ Slip
    /\ Done(h)
    /\ wrong' = IF calls[h].step # "wrong" THEN wrong
                ELSE [wrong EXCEPT ![calls[h].code] = @ + 1]
    /\ UNCHANGED <<throttleVars, active, mfa, codes, keys, ended>>

-----------------------------------------------------------------------------
(* securityMFASetup: the code of a challenge survives, enabled does not.   *)
Setup(h) ==
    /\ calls[h].step = "setup"
    /\ mfa' = IF mfa = None THEN NewMfa ELSE [mfa EXCEPT !.enabled = FALSE]
    /\ Wrote(h, Idle)
    /\ UNCHANGED <<throttleVars, active, codes, keys, slips, wrong, ended>>

(* securityMFAChallenge: read, insert a row if there is none, set a code.  *)
ChallengeRead(h) ==
    /\ calls[h].step = "challenge"
    /\ Goto(h, [step |-> IF mfa = None THEN "insert" ELSE "issue"])
    /\ UNCHANGED <<throttleVars, customer, slips>>

ChallengeInsert(h) ==
    /\ calls[h].step = "insert"
    /\ IF mfa = None THEN mfa' = NewMfa /\ Wrote(h, [step |-> "issue"])
       ELSE UNCHANGED mfa /\ Done(h)
    /\ UNCHANGED <<throttleVars, active, codes, keys, slips, wrong, ended>>

ChallengeIssue(h) ==
    /\ calls[h].step = "issue"
    /\ codes < MaxCodes
    /\ codes' = codes + 1
    /\ mfa' = IF mfa = None THEN None
              ELSE [mfa EXCEPT !.code = codes + 1, !.fails = 0]
    /\ Wrote(h, Idle)
    /\ UNCHANGED <<throttleVars, active, keys, slips, wrong, ended>>

(* securityMFAVerify: read and compare, then update the row as it is now.  *)
HasCode == mfa # None /\ mfa.code # None
VerifyRead(h) ==
    /\ calls[h].step = "verify"
    /\ \/ HasCode /\ \E outcome \in {"right", "wrong"} :
             Goto(h, [step |-> outcome, code |-> mfa.code])
       \/ Done(h)
    /\ UNCHANGED <<throttleVars, customer, slips>>

CountedOneLate(row) ==                         \* faulty: > instead of >=
    [row EXCEPT !.fails = @ + 1,
                !.code = IF row.fails + 1 > MaxFails THEN None ELSE @]
CountedWrong(row) ==
    [row EXCEPT !.fails = @ + 1,
                !.code = IF row.fails + 1 >= MaxFails THEN None ELSE @]
VerifyWrong(h) ==
    /\ calls[h].step = "wrong"
    /\ mfa' = IF mfa = None THEN None ELSE CountedWrong(mfa)
    /\ wrong' = [wrong EXCEPT ![calls[h].code] = @ + 1]
    /\ Wrote(h, Idle)
    /\ UNCHANGED <<throttleVars, active, codes, keys, slips, ended>>

Answered(enabled) ==
    mfa' = IF mfa = None THEN None ELSE [enabled |-> enabled, code |-> None, fails |-> 0]
VerifyRight(h) ==
    /\ calls[h].step = "right"
    /\ Answered(TRUE)
    /\ Wrote(h, Idle)
    /\ UNCHANGED <<throttleVars, active, codes, keys, slips, wrong, ended>>

(* securityMFADisable: authorised by the code or by the password.          *)
DisableRead(h) ==
    /\ calls[h].step = "disable"
    /\ \/ mfa # None /\ mfa.enabled /\ Goto(h, [step |-> "disabling"])
       \/ Done(h)
    /\ UNCHANGED <<throttleVars, customer, slips>>

DisableWrite(h) ==
    /\ calls[h].step = "disabling"
    /\ Answered(FALSE)
    /\ Wrote(h, Idle)
    /\ UNCHANGED <<throttleVars, active, codes, keys, slips, wrong, ended>>

-----------------------------------------------------------------------------
(* The keys of a chain are the successors of one key by rotation.          *)
LiveKeys == {k \in DOMAIN keys : keys[k].live}

KeyCreate(h) ==
    /\ calls[h].step = "create"
    /\ Len(keys) < MaxKeys
    /\ keys' = Append(keys, [chain |-> Len(keys) + 1, live |-> TRUE])
    /\ Wrote(h, Idle)
    /\ UNCHANGED <<throttleVars, active, mfa, codes, slips, wrong, ended>>

KeyRevoke(h) ==
    /\ calls[h].step = "revoke"
    /\ \/ \E k \in LiveKeys :
             /\ keys' = [keys EXCEPT ![k].live = FALSE]
             /\ ended' = ended \cup {keys[k].chain}
             /\ Wrote(h, Idle)
       \/ UNCHANGED <<keys, ended>> /\ Done(h)
    /\ UNCHANGED <<throttleVars, active, mfa, codes, slips, wrong>>

(* securityAPIKeyRotate: one transaction that reads before it writes.      *)
RotateRead(h) ==
    /\ calls[h].step = "rotate"
    /\ \/ \E k \in LiveKeys : Goto(h, [step |-> "rotating", key |-> k, stale |-> FALSE])
       \/ Done(h)
    /\ UNCHANGED <<throttleVars, customer, slips>>

NoTransaction(call) == TRUE                    \* faulty: three statements
SnapshotHolds(call) == ~call.stale
RotateCommit(h) ==
    LET k == calls[h].key
    IN  /\ calls[h].step = "rotating"
        /\ SnapshotHolds(calls[h])
        /\ Len(keys) < MaxKeys
        /\ keys' = Append([keys EXCEPT ![k].live = FALSE],
                          [chain |-> keys[k].chain, live |-> TRUE])
        /\ Wrote(h, Idle)
        /\ UNCHANGED <<throttleVars, active, mfa, codes, slips, wrong, ended>>

RotateFails(h) ==
    /\ calls[h].step = "rotating"
    /\ calls[h].stale
    /\ Done(h)
    /\ UNCHANGED <<throttleVars, customer, slips>>

-----------------------------------------------------------------------------
(* complianceGDPRDeleteRequest: the throttle, then AnonymizeUserData.      *)
EraseAsk(h) ==
    /\ calls[h].step = "erase"
    /\ \/ LetThrough /\ Wrote(h, [step |-> "erasing"])
       \/ Refuse /\ Done(h)
    /\ UNCHANGED <<customer, slips>>

Erase(h) ==
    /\ calls[h].step = "erasing"
    /\ active' = FALSE
    /\ mfa' = None
    /\ keys' = [k \in DOMAIN keys |-> [keys[k] EXCEPT !.live = FALSE]]
    /\ ended' = ended \cup {keys[k].chain : k \in DOMAIN keys}
    /\ Wrote(h, Idle)
    /\ UNCHANGED <<throttleVars, codes, slips, wrong>>

(* The transaction fails; the customer may ask again.                      *)
EraseFails(h) ==
    /\ calls[h].step = "erasing"
    /\ Done(h)
    /\ UNCHANGED <<throttleVars, customer, slips>>

TimePasses ==
    /\ ThrottleAges
    /\ UNCHANGED <<customer, calls, slips>>

Step(h) ==
    \/ Admit(h) \/ Fail(h)
    \/ Setup(h) \/ ChallengeRead(h) \/ ChallengeInsert(h) \/ ChallengeIssue(h)
    \/ VerifyRead(h) \/ VerifyWrong(h) \/ VerifyRight(h)
    \/ DisableRead(h) \/ DisableWrite(h)
    \/ KeyCreate(h) \/ KeyRevoke(h) \/ RotateRead(h) \/ RotateCommit(h) \/ RotateFails(h)
    \/ EraseAsk(h) \/ Erase(h) \/ EraseFails(h)

Next == (\E h \in Handlers : Step(h)) \/ TimePasses

Spec == Init /\ [][Next]_vars

-----------------------------------------------------------------------------
Call ==
    [step : Ops \cup {"idle", "insert", "issue", "disabling", "erasing"}]
    \cup [step : {"right", "wrong"}, code : Codes]
    \cup [step : {"rotating"}, key : Keys, stale : BOOLEAN]

(* Type correctness; also that a code on file has been used up by no more  *)
(* than MaxFails - 1 failures, and a code being compared has been sent.    *)
TypeOK ==
    /\ ThrottleTypeOK
    /\ active \in BOOLEAN
    /\ mfa = None \/ /\ mfa \in Row
                     /\ mfa.code # None => mfa.code <= codes /\ mfa.fails < MaxFails
    /\ codes \in 0 .. MaxCodes
    /\ keys \in Seq([chain : Keys, live : BOOLEAN]) /\ Len(keys) <= MaxKeys
    /\ calls \in [Handlers -> Call]
    /\ \A h \in Handlers :
          /\ calls[h].step \in {"right", "wrong"} => calls[h].code <= codes
          /\ calls[h].step = "rotating" => calls[h].key \in DOMAIN keys
    /\ slips \in 0 .. MaxSlips
    /\ wrong \in [Codes -> Nat]
    /\ ended \subseteq Keys

(* The failures are counted in the row, which challenges and setups        *)
(* replace while wrong codes are being compared.  Still no code is         *)
(* compared with more wrong ones than the limit allows, except by the      *)
(* calls that had read it when it was dropped or whose count was lost.     *)
GuessesBounded ==
    \A c \in Codes : wrong[c] <= MaxFails + (Cardinality(Handlers) - 1) + slips

(* However creation, rotation, revocation and erasure interleave, a key    *)
(* has at most one live successor, and none once one of its chain was      *)
(* revoked or the customer erased.                                         *)
KeysEnd ==
    /\ \A j, k \in LiveKeys : keys[j].chain = keys[k].chain => j = k
    /\ \A k \in LiveKeys : keys[k].chain \notin ended
================================================================================
