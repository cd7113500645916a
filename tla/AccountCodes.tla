---------------------------- MODULE AccountCodes ----------------------------
(***************************************************************************)
(* The one-time codes, the password and the sign-in tokens of one account  *)
(* (auth.controller.js, users.controller.js, middleware/auth.js).          *)
(*                                                                         *)
(* A code is mailed to reset a forgotten password, to change it, or to     *)
(* delete the account.  Issuing one and using one are sequences of         *)
(* statements that interleave with those of other requests, with the       *)
(* hourly cleanup and with what administrators do to the account.          *)
(*                                                                         *)
(* Codes are numbered in the order of their creation (createdAt), and      *)
(* passwords and token versions in the order they come into force.         *)
(***************************************************************************)
EXTENDS Naturals, FiniteSets, FiniteSetsExt

CONSTANTS
  Requests,      \* requests in flight at one time
  Lifetime,      \* how long a code is valid
  Cooldown,      \* OTP_RESEND_COOLDOWN_MS
  MaxAttempts,   \* MAX_OTP_ATTEMPTS
  MaxClock,      \* bound: the instants of the model
  MaxCodes,      \* bound: the codes ever made
  MaxOps         \* bound: requests, and what else befalls the account

ASSUME CodesAssumption ==
  /\ Lifetime \in Nat /\ Cooldown \in Nat /\ MaxAttempts \in Nat \ {0}
  /\ MaxCodes \in Nat

VARIABLES
  clock,
  account,   \* the row of the user
  code,      \* code[i]: the row of the i-th code
  created,   \* how many codes there have been
  req,       \* req[r]: the request r is serving
  tokens,    \* the sign-in tokens given out
  used,      \* how much of MaxOps is used up
  (* history *)
  guesses,   \* guesses[i]: how many guesses were compared with code i
  worked,    \* worked[i]: how often code i changed or deleted something
  voided,    \* the codes that were there when a reset took effect
  torn       \* the kinds of codes an issue of which died half-way

history == <<guesses, worked, voided, torn>>
vars == <<clock, account, code, created, req, tokens, used, history>>

Kinds == {"reset", "change", "delete"}
ActionKinds == Kinds \ {"reset"}   \* AccountActionOtp, the others PasswordResetOtp

Ids == 1..MaxCodes

Code == [kind : Kinds, stored : BOOLEAN, isUsed : BOOLEAN, attempts : Nat,
         made : Nat, expires : Nat]

NoCode == [kind |-> "reset", stored |-> FALSE, isUsed |-> FALSE, attempts |-> 0,
           made |-> 0, expires |-> 0]

Token == [version : Nat, password : Nat]   \* password: what its holder had shown

Request == [step     : {"idle", "issue_find", "issue_retire", "issue_create", "claim",
                        "reset", "consume", "user", "change", "delete", "login"},
            kind     : Kinds,
            right    : BOOLEAN,       \* is the code it was sent the one it found
            password : Nat,           \* the password the client sent
            record   : 0..MaxCodes,   \* the code the request found
            version  : Nat,           \* the token version it read
            expires  : Nat]

Idle == [step |-> "idle", kind |-> "reset", right |-> FALSE, password |-> 0, record |-> 0,
         version |-> 0, expires |-> 0]

TypeOK ==
  /\ clock \in Nat /\ used \in Nat /\ created \in 0..MaxCodes
  /\ account \in [exists : BOOLEAN, isActive : BOOLEAN, password : Nat, version : Nat]
  /\ code \in [Ids -> Code]
  /\ req \in [Requests -> Request]
  /\ tokens \subseteq Token
  /\ guesses \in [Ids -> Nat] /\ worked \in [Ids -> Nat]
  /\ voided \subseteq Ids /\ torn \subseteq Kinds

\* Somebody is signed in.
Init ==
  /\ clock = 0 /\ used = 0 /\ created = 0
  /\ account = [exists |-> TRUE, isActive |-> TRUE, password |-> 0, version |-> 0]
  /\ code = [i \in Ids |-> NoCode]
  /\ req = [r \in Requests |-> Idle]
  /\ tokens = {[version |-> 0, password |-> 0]}
  /\ guesses = [i \in Ids |-> 0] /\ worked = [i \in Ids |-> 0]
  /\ voided = {} /\ torn = {}

Count == used < MaxOps /\ used' = used + 1

Begin(r, fields) ==
  /\ req[r].step = "idle"
  /\ req' = [req EXCEPT ![r] = fields]

GoTo(r, step) == req' = [req EXCEPT ![r].step = step]
Done(r) == req' = [req EXCEPT ![r] = Idle]

\* requireAuth: the account is looked up again for every request.
Accepted(token) ==
  account.exists /\ account.isActive /\ token.version = account.version

SignedIn == \E token \in tokens : Accepted(token)

Stored(kind) == {i \in Ids : code[i].stored /\ code[i].kind = kind}
Unused(kind) == {i \in Stored(kind) : ~code[i].isUsed}

\* findFirst, orderBy createdAt desc
Newest(ids) == IF ids = {} THEN 0 ELSE Max(ids)

Use(ids) == [i \in Ids |-> IF i \in ids THEN [code[i] EXCEPT !.isUsed = TRUE] ELSE code[i]]
Erase(ids) == [i \in Ids |-> IF i \in ids THEN [code[i] EXCEPT !.stored = FALSE] ELSE code[i]]

ActionCodes == UNION {Stored(kind) : kind \in ActionKinds}

----------------------------------------------------------------------------
(* Issuing a code *)

\* forgotPassword: a disabled or deleted account gets no code.
ForgotPassword(r) ==
  /\ Count
  /\ account.exists /\ account.isActive
  /\ Begin(r, [Idle EXCEPT !.step = "issue_find"])
  /\ UNCHANGED <<clock, account, code, created, tokens, history>>

\* Not again within the cooldown.
IssueFind(r) ==
  LET latest == Newest(Stored("reset")) IN
  /\ req[r].step = "issue_find"
  /\ IF latest # 0 /\ clock < code[latest].made + Cooldown
     THEN Done(r) ELSE GoTo(r, "issue_retire")
  /\ UNCHANGED <<clock, account, code, created, tokens, used, history>>

\* requestPasswordChangeOtp, requestAccountDeletionOtp: no cooldown of their own.
RequestCode(r, kind) ==
  /\ Count
  /\ SignedIn
  /\ Begin(r, [Idle EXCEPT !.step = "issue_retire", !.kind = kind])
  /\ UNCHANGED <<clock, account, code, created, tokens, history>>

\* Every code of the kind that is still unused is retired...
IssueRetire(r) ==
  /\ req[r].step = "issue_retire"
  /\ code' = Use(Unused(req[r].kind))
  /\ req' = [req EXCEPT ![r].step = "issue_create", ![r].expires = clock + Lifetime]
  /\ UNCHANGED <<clock, account, created, tokens, used, history>>

\* ...and the new one is stored and mailed.  An account that is gone has no
\* account codes (foreign key).
IssueCreate(r) ==
  LET new == [kind |-> req[r].kind, stored |-> TRUE, isUsed |-> FALSE, attempts |-> 0,
              made |-> clock, expires |-> req[r].expires] IN
  /\ req[r].step = "issue_create"
  /\ IF req[r].kind \in ActionKinds /\ ~account.exists
     THEN UNCHANGED <<code, created>>
     ELSE /\ created < MaxCodes
          /\ created' = created + 1
          /\ code' = [code EXCEPT ![created + 1] = new]
  /\ Done(r)
  /\ UNCHANGED <<clock, account, tokens, used, history>>

----------------------------------------------------------------------------
(* Using a code *)

\* resetPassword, changeMyPassword and deleteMyAccount begin by looking for the
\* newest unused code; it must not have expired or used up its guesses.
UseCode(r, kind, right, password) ==
  LET record == Newest(Unused(kind)) IN
  /\ Count
  /\ kind \in ActionKinds => SignedIn
  /\ record # 0 /\ clock <= code[record].expires /\ code[record].attempts < MaxAttempts
  /\ Begin(r, [Idle EXCEPT !.step = "claim", !.kind = kind, !.right = right,
                           !.password = password, !.record = record])
  /\ UNCHANGED <<clock, account, code, created, tokens, history>>

\* Mutation: the guesses are counted, but no longer limited when it matters.
ClaimableWhileUnused(i) == code[i].stored /\ ~code[i].isUsed

\* The condition of the UPDATE that claims a guess.
Claimable(i) == code[i].stored /\ ~code[i].isUsed /\ code[i].attempts < MaxAttempts

\* Mutation: a step nobody serves.
AfterClaimMisspelt == [reset |-> "reset", change |-> "consumed", delete |-> "user"]

AfterClaim == [reset |-> "reset", change |-> "consume", delete |-> "user"]

\* One guess is claimed in a single conditional UPDATE, and only then compared.
Claim(r) ==
  LET i == req[r].record IN
  /\ req[r].step = "claim"
  /\ IF Claimable(i)
     THEN /\ code' = [code EXCEPT ![i].attempts = @ + 1]
          /\ guesses' = [guesses EXCEPT ![i] = @ + 1]
     ELSE UNCHANGED <<code, guesses>>
  /\ IF Claimable(i) /\ req[r].right THEN GoTo(r, AfterClaim[req[r].kind]) ELSE Done(r)
  /\ UNCHANGED <<clock, account, created, tokens, used, worked, voided, torn>>

NewPassword == [account EXCEPT !.password = @ + 1, !.version = @ + 1]

\* What a reset does to the codes: every reset code is used up, and codes that
\* were issued under the old password are gone.
ResetEffect ==
  [i \in Ids |-> [code[i] EXCEPT !.isUsed = @ \/ i \in Unused("reset"),
                                !.stored = @ /\ i \notin ActionCodes]]

\* The transaction of resetPassword.  It needs some unused reset code, and an
\* account; else nothing happens.
ResetPassword(r) ==
  /\ req[r].step = "reset"
  /\ IF Unused("reset") = {} \/ ~account.exists
     THEN UNCHANGED <<account, code, worked, voided>>
     ELSE /\ account' = NewPassword
          /\ code' = ResetEffect
          /\ worked' = [worked EXCEPT ![req[r].record] = @ + 1]
          /\ voided' = voided \cup 1..created
  /\ Done(r)
  /\ UNCHANGED <<clock, created, tokens, used, guesses, torn>>

\* Mutation: the code is used up by its id alone.
ConsumableAnyway(i) == code[i].stored

\* The condition of the UPDATE that uses a code up: only one request wins it.
Consumable(i) == code[i].stored /\ ~code[i].isUsed

\* consumeAccountOtp: before the password is compared for a change, after it
\* for a deletion.
ConsumeAccountOtp(r) ==
  LET i == req[r].record IN
  /\ req[r].step = "consume"
  /\ IF Consumable(i)
     THEN /\ code' = Use({i})
          /\ worked' = [worked EXCEPT ![i] = @ + 1]
          /\ GoTo(r, IF req[r].kind = "change" THEN "user" ELSE "delete")
     ELSE Done(r) /\ UNCHANGED <<code, worked>>
  /\ UNCHANGED <<clock, account, created, tokens, used, guesses, voided, torn>>

\* The row is read and the password sent along compared.  A deletion is refused
\* as well to a teacher with students and to the last admin, as the other rows
\* may say.
ReadUser(r) ==
  LET matches == account.exists /\ account.password = req[r].password IN
  /\ req[r].step = "user"
  /\ \/ /\ matches
        /\ GoTo(r, IF req[r].kind = "change" THEN "change" ELSE "consume")
     \/ /\ ~matches \/ req[r].kind = "delete"
        /\ Done(r)
  /\ UNCHANGED <<clock, account, code, created, tokens, used, history>>

\* changeMyPassword: the new password, and a token for whoever set it.
ChangeMyPassword(r) ==
  /\ req[r].step = "change"
  /\ IF account.exists
     THEN /\ account' = NewPassword
          /\ tokens' = tokens \cup
               {[version |-> account'.version, password |-> account'.password]}
     ELSE UNCHANGED <<account, tokens>>
  /\ Done(r)
  /\ UNCHANGED <<clock, code, created, used, history>>

\* The account goes, and its codes with it (cascade).
Remove ==
  /\ account' = [account EXCEPT !.exists = FALSE]
  /\ code' = Erase(ActionCodes)

DeleteMyAccount(r) ==
  /\ req[r].step = "delete"
  /\ Remove
  /\ Done(r)
  /\ UNCHANGED <<clock, created, tokens, used, history>>

----------------------------------------------------------------------------
(* Signing in *)

\* login: the row is read and the password compared with it.
Login(r, password) ==
  /\ Count
  /\ account.exists /\ account.isActive /\ account.password = password
  /\ Begin(r, [Idle EXCEPT !.step = "login", !.password = password,
                           !.version = account.version])
  /\ UNCHANGED <<clock, account, code, created, tokens, history>>

\* Mutation: the token is signed for the row as the update returns it.
SignedVersionOfUpdate(r) == account.version

\* The version a token is signed for: that of the row the password was compared with.
SignedVersion(r) == req[r].version

\* The last login is noted, which fails if the account is gone, and the token
\* signed.
LoginUpdate(r) ==
  /\ req[r].step = "login"
  /\ tokens' = IF account.exists
               THEN tokens \cup {[version |-> SignedVersion(r), password |-> req[r].password]}
               ELSE tokens
  /\ Done(r)
  /\ UNCHANGED <<clock, account, code, created, used, history>>

----------------------------------------------------------------------------
(* The rest of the world *)

\* Mutation: the cleanup takes a code that is valid for one more instant.
DeadAtTheLimit(i) == code[i].isUsed \/ code[i].expires <= clock

Dead(i) == code[i].isUsed \/ code[i].expires < clock

\* cleanupExpiredOtps: one statement for each of the two tables.
Cleanup(kinds) ==
  LET dead == {i \in UNION {Stored(kind) : kind \in kinds} : Dead(i)} IN
  /\ dead # {}
  /\ code' = Erase(dead)
  /\ UNCHANGED <<clock, account, created, req, tokens, used, history>>

\* deleteStudent disables parents that are left without a child, and a link to
\* a child enables them again.
Deactivate ==
  /\ Count
  /\ account.exists /\ account.isActive
  /\ account' = [account EXCEPT !.isActive = FALSE, !.version = @ + 1]
  /\ UNCHANGED <<clock, code, created, req, tokens, history>>

Reactivate ==
  /\ account.exists /\ ~account.isActive
  /\ account' = [account EXCEPT !.isActive = TRUE]
  /\ UNCHANGED <<clock, code, created, req, tokens, used, history>>

\* deleteUser: an admin or a teacher deletes the account.
DeleteUser ==
  /\ Count
  /\ account.exists
  /\ Remove
  /\ UNCHANGED <<clock, created, req, tokens, history>>

\* A statement throws, or the process dies: the rest of the request is not run.
Fail(r) ==
  /\ Count
  /\ req[r].step # "idle"
  /\ torn' = IF req[r].step = "issue_create" THEN torn \cup {req[r].kind} ELSE torn
  /\ Done(r)
  /\ UNCHANGED <<clock, account, code, created, tokens, guesses, worked, voided>>

Tick ==
  /\ clock < MaxClock
  /\ clock' = clock + 1
  /\ UNCHANGED <<account, code, created, req, tokens, used, history>>

Next ==
  \/ \E r \in Requests :
       \/ ForgotPassword(r) \/ IssueFind(r) \/ IssueRetire(r) \/ IssueCreate(r)
       \/ \E kind \in ActionKinds : RequestCode(r, kind)
       \/ \E right \in BOOLEAN : UseCode(r, "reset", right, 0)
       \/ \E kind \in ActionKinds, right \in BOOLEAN, password \in 0..account.password :
            UseCode(r, kind, right, password)
       \/ Claim(r) \/ ResetPassword(r) \/ ConsumeAccountOtp(r) \/ ReadUser(r)
       \/ ChangeMyPassword(r) \/ DeleteMyAccount(r)
       \/ \E password \in 0..account.password : Login(r, password)
       \/ LoginUpdate(r) \/ Fail(r)
  \/ Cleanup({"reset"}) \/ Cleanup(ActionKinds)
  \/ Deactivate \/ Reactivate \/ DeleteUser
  \/ Tick

Spec == Init /\ [][Next]_vars

----------------------------------------------------------------------------
(* Properties *)

\* "The database admits at most MAX_OTP_ATTEMPTS claims in total, however many
\* requests race": no code is compared with more guesses than that, although
\* each request checked the count some statements before it made its own guess.
GuessesBounded == \A i \in Ids : guesses[i] <= MaxAttempts

\* A code for a password change or a deletion works once, of however many
\* requests that have passed its check at the same time (consumeAccountOtp).
ActionCodeWorksOnce ==
  \A i \in Ids : code[i].kind \in ActionKinds => worked[i] <= 1

\* A token that requireAuth still accepts belongs to somebody who has shown, or
\* set, the password now in force: a reset or a change signs everybody else
\* out, a sign-in that was half-way through included.
TokensFollowPassword ==
  \A token \in tokens : Accepted(token) => token.password = account.password

Issuing(kind) ==
  \E r \in Requests : req[r].step = "issue_create" /\ req[r].kind = kind

\* The code somebody was mailed last is good until it expires, works, or is
\* replaced: neither another request for a code, whichever way the two
\* overlap, nor the cleanup takes it away.  Only an issue that died after
\* retiring it, a reset or the end of the account may.
MailedCodeIsGood ==
  \A kind \in Kinds :
    LET newest == {i \in 1..created : code[i].kind = kind} IN
    \A i \in newest :
      /\ \A j \in newest : j <= i
      /\ ~Issuing(kind) /\ kind \notin torn
      /\ clock <= code[i].expires /\ worked[i] = 0 /\ i \notin voided
      /\ account.exists
      => code[i].stored /\ ~code[i].isUsed

=============================================================================
