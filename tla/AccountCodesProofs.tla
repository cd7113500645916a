------------------------- MODULE AccountCodesProofs -------------------------
(***************************************************************************)
(* What AccountCodes promises for every number of requests and codes,      *)
(* whatever the lifetime, the cooldown and the limit on guesses.           *)
(***************************************************************************)
EXTENDS AccountCodes, WellFoundedInduction, TLAPS

----------------------------------------------------------------------------
(* The newest code *)

LEMMA LeastNumber ==
  ASSUME NEW S \in SUBSET Nat, S # {}
  PROVE  \E m \in S : \A n \in S : m <= n
  <1>1. PICK m \in S : \A n \in S : <<n, m>> \notin OpToRel(<, Nat)
    BY NatLessThanWellFounded, WFMin
  <1>2. \A n \in S : ~(n < m)
    BY <1>1 DEF OpToRel
  <1> QED
    BY <1>2

\* The greatest of S is as far below the bound as the least of the gaps.
LEMMA GreatestNumber ==
  ASSUME NEW bound \in Nat, NEW S \in SUBSET (0..bound), S # {}
  PROVE  Max(S) \in S /\ \A n \in S : n <= Max(S)
  <1> DEFINE gaps == {bound - n : n \in S}
  <1>1. PICK gap \in gaps : \A n \in gaps : gap <= n
    <2>1. \A n \in S : bound - n \in Nat
      OBVIOUS
    <2>2. gaps \in SUBSET Nat /\ gaps # {}
      BY <2>1
    <2> QED
      BY <2>2, LeastNumber
  <1>2. PICK m \in S : gap = bound - m
    OBVIOUS
  <1>3. \A n \in S : bound - n \in gaps
    OBVIOUS
  <1>4. \A n \in S : bound - m <= bound - n
    BY <1>1, <1>2, <1>3
  <1>5. \A n \in S : m >= n
    BY <1>4
  <1> QED
    BY <1>5 DEF Max

\* findFirst returns one of the rows, the newest, or none if there is none.
LEMMA NewestResult ==
  ASSUME NEW ids \in SUBSET Ids
  PROVE  /\ Newest(ids) \in 0..MaxCodes
         /\ Newest(ids) # 0 => Newest(ids) \in ids
         /\ \A i \in ids : i <= Newest(ids)
  <1>1. CASE ids = {}
    BY <1>1, CodesAssumption DEF Newest
  <1>2. CASE ids # {}
    <2>1. ids \in SUBSET (0..MaxCodes)
      BY DEF Ids
    <2>2. Max(ids) \in ids /\ \A i \in ids : i <= Max(ids)
      BY <1>2, <2>1, CodesAssumption, GreatestNumber
    <2>3. Newest(ids) = Max(ids)
      BY <1>2 DEF Newest
    <2>4. Newest(ids) \in Ids
      BY <2>2, <2>3
    <2>5. Newest(ids) \in 0..MaxCodes
      BY <2>4, CodesAssumption DEF Ids
    <2> QED
      BY <2>2, <2>3, <2>5
  <1> QED
    BY <1>1, <1>2

----------------------------------------------------------------------------
(* What the statements do to the rows *)

\* The statements of a step other than an issue or a claim use codes up or
\* erase them, and never bring one back.
OnlySpent ==
  /\ code' \in [Ids -> Code]
  /\ \A i \in Ids :
       /\ code'[i].kind = code[i].kind
       /\ code'[i].attempts = code[i].attempts
       /\ code'[i].expires = code[i].expires
       /\ code[i].isUsed => code'[i].isUsed
       /\ code'[i].stored => code[i].stored

LEMMA UseSpends ==
  ASSUME TypeOK, NEW ids, code' = Use(ids)
  PROVE  /\ OnlySpent
         /\ \A i \in Ids : i \in ids => code'[i].isUsed
         /\ \A i \in Ids : i \notin ids => code'[i] = code[i]
  BY DEF TypeOK, Use, Code, OnlySpent

LEMMA EraseSpends ==
  ASSUME TypeOK, NEW ids, code' = Erase(ids)
  PROVE  /\ OnlySpent
         /\ \A i \in Ids : i \notin ids => code'[i] = code[i]
  BY DEF TypeOK, Erase, Code, OnlySpent

LEMMA ResetSpends ==
  ASSUME TypeOK, code' = ResetEffect
  PROVE  OnlySpent
  BY DEF TypeOK, ResetEffect, Code, OnlySpent

LEMMA SameSpends ==
  ASSUME TypeOK, UNCHANGED code
  PROVE  OnlySpent
  BY DEF TypeOK, OnlySpent

LEMMA IdleIsRequest == Idle \in Request
  BY CodesAssumption DEF Idle, Request, Kinds

LEMMA NextStep ==
  ASSUME TypeOK, NEW r \in Requests,
         NEW step \in {"issue_retire", "reset", "consume", "user", "change", "delete"},
         GoTo(r, step) \/ Done(r)
  PROVE  req' \in [Requests -> Request]
  BY IdleIsRequest DEF TypeOK, GoTo, Done, Request

LEMMA LaterVersion ==
  ASSUME NEW row \in [exists : BOOLEAN, isActive : BOOLEAN, password : Nat, version : Nat]
  PROVE  /\ [row EXCEPT !.version = @ + 1]
              \in [exists : BOOLEAN, isActive : BOOLEAN, password : Nat, version : Nat]
         /\ [row EXCEPT !.version = @ + 1].version = row.version + 1
         /\ [row EXCEPT !.version = @ + 1].exists = row.exists
  OBVIOUS

LEMMA NewPasswordResult ==
  ASSUME TypeOK
  PROVE  /\ NewPassword \in [exists : BOOLEAN, isActive : BOOLEAN,
                             password : Nat, version : Nat]
         /\ NewPassword.version = account.version + 1
         /\ NewPassword.exists = account.exists
  <1> DEFINE set == [account EXCEPT !.password = @ + 1]
  <1>1. set \in [exists : BOOLEAN, isActive : BOOLEAN, password : Nat, version : Nat]
        /\ set.version = account.version /\ set.exists = account.exists
    BY DEF TypeOK
  <1>2. NewPassword = [set EXCEPT !.version = @ + 1]
    BY DEF NewPassword
  <1> HIDE DEF set
  <1> QED
    BY <1>1, <1>2, LaterVersion

----------------------------------------------------------------------------
(* Types *)

LEMMA InitTypeOK == Init => TypeOK
  BY CodesAssumption, IdleIsRequest DEF Init, TypeOK, NoCode, Code, Kinds, Token

LEMMA NextTypeOK == TypeOK /\ [Next]_vars => TypeOK'
  <1> SUFFICES ASSUME TypeOK, [Next]_vars PROVE TypeOK'
    OBVIOUS
  <1> USE DEF TypeOK
  <1> USE IdleIsRequest
  <1>1. ASSUME NEW r \in Requests, ForgotPassword(r) PROVE TypeOK'
    <2>1. [Idle EXCEPT !.step = "issue_find"] \in Request
      BY DEF Request
    <2> QED
      BY <1>1, <2>1 DEF ForgotPassword, Begin, Count, history
  <1>2. ASSUME NEW r \in Requests, IssueFind(r) PROVE TypeOK'
    <2>1. req' \in [Requests -> Request]
      BY <1>2, NextStep DEF IssueFind
    <2> QED
      BY <1>2, <2>1 DEF IssueFind, history
  <1>3. ASSUME NEW r \in Requests, NEW kind \in ActionKinds, RequestCode(r, kind)
        PROVE  TypeOK'
    <2>1. [Idle EXCEPT !.step = "issue_retire", !.kind = kind] \in Request
      BY DEF Request, ActionKinds
    <2> QED
      BY <1>3, <2>1 DEF RequestCode, Begin, Count, history
  <1>4. ASSUME NEW r \in Requests, IssueRetire(r) PROVE TypeOK'
    <2> DEFINE next == [req[r] EXCEPT !.step = "issue_create"]
    <2>1. next \in Request /\ clock + Lifetime \in Nat
      BY CodesAssumption DEF Request
    <2>3. req' = [req EXCEPT ![r] = [next EXCEPT !.expires = clock + Lifetime]]
      BY <1>4 DEF IssueRetire
    <2> HIDE DEF next
    <2>4. [next EXCEPT !.expires = clock + Lifetime] \in Request
      BY <2>1 DEF Request
    <2>2. code' \in [Ids -> Code]
      BY <1>4, UseSpends DEF IssueRetire, OnlySpent
    <2> QED
      BY <1>4, <2>2, <2>3, <2>4 DEF IssueRetire, history
  <1>5. ASSUME NEW r \in Requests, IssueCreate(r) PROVE TypeOK'
    <2>1. created' \in 0..MaxCodes
      BY <1>5, CodesAssumption DEF IssueCreate
    <2>2. [kind |-> req[r].kind, stored |-> TRUE, isUsed |-> FALSE, attempts |-> 0,
           made |-> clock, expires |-> req[r].expires] \in Code
      BY DEF Request, Code
    <2>3. code' \in [Ids -> Code]
      BY <1>5, <2>2 DEF IssueCreate
    <2> QED
      BY <1>5, <2>1, <2>3 DEF IssueCreate, Done, history
  <1>6. ASSUME NEW r \in Requests, NEW kind \in Kinds, NEW right \in BOOLEAN,
               NEW password \in Nat, UseCode(r, kind, right, password)
        PROVE  TypeOK'
    <2> DEFINE record == Newest(Unused(kind))
    <2>1. record \in 0..MaxCodes
      BY NewestResult DEF Unused, Stored
    <2>2. [Idle EXCEPT !.step = "claim", !.kind = kind, !.right = right,
                       !.password = password, !.record = record] \in Request
      BY <2>1 DEF Request
    <2> QED
      BY <1>6, <2>2 DEF UseCode, Begin, Count, history
  <1>7. ASSUME NEW r \in Requests, Claim(r) PROVE TypeOK'
    <2>1. req' \in [Requests -> Request]
      <3>1. AfterClaim[req[r].kind] \in {"reset", "consume", "user"}
        BY DEF AfterClaim, Request, Kinds
      <3> QED
        BY <1>7, <3>1, NextStep DEF Claim
    <2>2. \A i \in Ids : [code[i] EXCEPT !.attempts = @ + 1] \in Code
      BY DEF Code
    <2>3. code' \in [Ids -> Code] /\ guesses' \in [Ids -> Nat]
      BY <1>7, <2>2 DEF Claim
    <2> QED
      BY <1>7, <2>1, <2>3 DEF Claim
  <1>8. ASSUME NEW r \in Requests, ResetPassword(r) PROVE TypeOK'
    <2>1. code' \in [Ids -> Code]
      BY <1>8, ResetSpends, SameSpends DEF ResetPassword, OnlySpent
    <2>2. voided' \subseteq Ids
      <3>1. 1..created \subseteq Ids
        BY CodesAssumption DEF Ids
      <3> QED
        BY <1>8, <3>1 DEF ResetPassword
    <2>3. account' \in [exists : BOOLEAN, isActive : BOOLEAN, password : Nat, version : Nat]
      BY <1>8, NewPasswordResult DEF ResetPassword
    <2>4. worked' \in [Ids -> Nat]
      BY <1>8 DEF ResetPassword
    <2> QED
      BY <1>8, <2>1, <2>2, <2>3, <2>4 DEF ResetPassword, Done
  <1>9. ASSUME NEW r \in Requests, ConsumeAccountOtp(r) PROVE TypeOK'
    <2>1. code' \in [Ids -> Code]
      BY <1>9, UseSpends, SameSpends DEF ConsumeAccountOtp, OnlySpent
    <2>2. req' \in [Requests -> Request]
      BY <1>9, NextStep DEF ConsumeAccountOtp
    <2>3. worked' \in [Ids -> Nat]
      BY <1>9 DEF ConsumeAccountOtp
    <2> QED
      BY <1>9, <2>1, <2>2, <2>3 DEF ConsumeAccountOtp
  <1>10. ASSUME NEW r \in Requests, ReadUser(r) PROVE TypeOK'
    <2>1. req' \in [Requests -> Request]
      BY <1>10, NextStep DEF ReadUser
    <2> QED
      BY <1>10, <2>1 DEF ReadUser, history
  <1>11. ASSUME NEW r \in Requests, ChangeMyPassword(r) PROVE TypeOK'
    <2>1. account' \in [exists : BOOLEAN, isActive : BOOLEAN, password : Nat, version : Nat]
      BY <1>11, NewPasswordResult DEF ChangeMyPassword
    <2>2. tokens' \subseteq Token
      BY <1>11, <2>1 DEF ChangeMyPassword, Token
    <2> QED
      BY <1>11, <2>1, <2>2 DEF ChangeMyPassword, Done, history
  <1>12. ASSUME Remove
         PROVE  /\ account' \in [exists : BOOLEAN, isActive : BOOLEAN,
                                 password : Nat, version : Nat]
                /\ code' \in [Ids -> Code]
    BY <1>12, EraseSpends DEF Remove, OnlySpent
  <1>13. ASSUME NEW r \in Requests, DeleteMyAccount(r) PROVE TypeOK'
    BY <1>12, <1>13 DEF DeleteMyAccount, Done, history
  <1>14. ASSUME NEW r \in Requests, NEW password \in Nat, Login(r, password)
         PROVE  TypeOK'
    <2>1. [Idle EXCEPT !.step = "login", !.password = password,
                       !.version = account.version] \in Request
      BY DEF Request
    <2> QED
      BY <1>14, <2>1 DEF Login, Begin, Count, history
  <1>15. ASSUME NEW r \in Requests, LoginUpdate(r) PROVE TypeOK'
    <2>1. tokens' \subseteq Token
      BY <1>15 DEF LoginUpdate, SignedVersion, Token, Request
    <2> QED
      BY <1>15, <2>1 DEF LoginUpdate, Done, history
  <1>16. ASSUME NEW r \in Requests, Fail(r) PROVE TypeOK'
    <2>1. torn' \subseteq Kinds
      BY <1>16 DEF Fail, Request
    <2> QED
      BY <1>16, <2>1 DEF Fail, Count, Done
  <1>17. ASSUME NEW kinds, Cleanup(kinds) PROVE TypeOK'
    <2>1. code' \in [Ids -> Code]
      BY <1>17, EraseSpends DEF Cleanup, OnlySpent
    <2> QED
      BY <1>17, <2>1 DEF Cleanup, history
  <1>18. CASE Deactivate
    <2> DEFINE off == [account EXCEPT !.isActive = FALSE]
    <2>1. off \in [exists : BOOLEAN, isActive : BOOLEAN, password : Nat, version : Nat]
      OBVIOUS
    <2>2. account' = [off EXCEPT !.version = @ + 1]
      BY <1>18 DEF Deactivate
    <2> HIDE DEF off
    <2>3. account' \in [exists : BOOLEAN, isActive : BOOLEAN, password : Nat, version : Nat]
      BY <2>1, <2>2, LaterVersion
    <2> QED
      BY <1>18, <2>3 DEF Deactivate, Count, history
  <1>19. CASE Reactivate
    BY <1>19 DEF Reactivate, history
  <1>20. CASE DeleteUser
    BY <1>12, <1>20 DEF DeleteUser, Count, history
  <1>21. CASE Tick
    BY <1>21 DEF Tick, history
  <1>22. CASE UNCHANGED vars
    BY <1>22 DEF vars, history
  <1>23. "reset" \in Kinds /\ ActionKinds \subseteq Kinds /\ 0 \in Nat
         /\ 0..account.password \subseteq Nat
    BY DEF Kinds, ActionKinds
  <1> QED
    BY <1>1, <1>2, <1>3, <1>4, <1>5, <1>6, <1>7, <1>8, <1>9, <1>10, <1>11, <1>13, <1>14,
       <1>15, <1>16, <1>17, <1>18, <1>19, <1>20, <1>21, <1>22, <1>23 DEF Next

\* The rows, the requests and the tokens keep their types; in particular a
\* request never carries a code that was not there to be found.
THEOREM TypeCorrect == Spec => []TypeOK
  BY InitTypeOK, NextTypeOK, PTL DEF Spec

----------------------------------------------------------------------------
(* The codes a request holds *)

\* A code that is still to come has no row, no guesses and no effects.
FutureBlank ==
  \A i \in Ids : i > created => ~code[i].stored /\ guesses[i] = 0 /\ worked[i] = 0

HoldingSteps == {"claim", "reset", "consume", "user", "change", "delete"}

\* A request that is past its search holds a code of the kind it looked for,
\* and takes the path of that kind.
Holding(request, rows, count) ==
  request.step \in HoldingSteps =>
    /\ request.record \in 1..count
    /\ rows[request.record].kind = request.kind
    /\ request.step = "reset" => request.kind = "reset"
    /\ request.step \in HoldingSteps \ {"claim", "reset"} => request.kind \in ActionKinds

RecordsFound == \A r \in Requests : Holding(req[r], code, created)

\* Only an issue makes a code, and only a claim counts a guess.
LEMMA CodesStep ==
  ASSUME TypeOK, [Next]_vars
  PROVE  \/ \E r \in Requests : IssueCreate(r)
         \/ \E r \in Requests : Claim(r)
         \/ OnlySpent /\ UNCHANGED <<created, guesses>>
  <1> SUFFICES ASSUME ~\E r \in Requests : IssueCreate(r),
                      ~\E r \in Requests : Claim(r)
               PROVE  OnlySpent /\ UNCHANGED <<created, guesses>>
    OBVIOUS
  <1>1. ASSUME UNCHANGED <<code, created, guesses>>
        PROVE  OnlySpent /\ UNCHANGED <<created, guesses>>
    BY <1>1, SameSpends
  <1>2. ASSUME NEW r \in Requests,
               \/ ForgotPassword(r) \/ IssueFind(r)
               \/ \E kind \in ActionKinds : RequestCode(r, kind)
               \/ \E kind, right, password : UseCode(r, kind, right, password)
               \/ ReadUser(r) \/ ChangeMyPassword(r)
               \/ \E password : Login(r, password)
               \/ LoginUpdate(r) \/ Fail(r)
        PROVE  UNCHANGED <<code, created, guesses>>
    BY <1>2 DEF ForgotPassword, IssueFind, RequestCode, UseCode, ReadUser,
                ChangeMyPassword, Login, LoginUpdate, Fail, history
  <1>3. ASSUME NEW r \in Requests, IssueRetire(r)
        PROVE  OnlySpent /\ UNCHANGED <<created, guesses>>
    BY <1>3, UseSpends DEF IssueRetire, history
  <1>4. ASSUME NEW r \in Requests, ResetPassword(r)
        PROVE  OnlySpent /\ UNCHANGED <<created, guesses>>
    BY <1>4, ResetSpends, SameSpends DEF ResetPassword
  <1>5. ASSUME NEW r \in Requests, ConsumeAccountOtp(r)
        PROVE  OnlySpent /\ UNCHANGED <<created, guesses>>
    BY <1>5, UseSpends, SameSpends DEF ConsumeAccountOtp
  <1>6. ASSUME DeleteUser \/ \E r \in Requests : DeleteMyAccount(r)
        PROVE  OnlySpent /\ UNCHANGED <<created, guesses>>
    BY <1>6, EraseSpends DEF DeleteUser, DeleteMyAccount, Remove, history
  <1>7. ASSUME NEW kinds, Cleanup(kinds)
        PROVE  OnlySpent /\ UNCHANGED <<created, guesses>>
    BY <1>7, EraseSpends DEF Cleanup, history
  <1>8. ASSUME Deactivate \/ Reactivate \/ Tick \/ UNCHANGED vars
        PROVE  UNCHANGED <<code, created, guesses>>
    BY <1>8 DEF Deactivate, Reactivate, Tick, vars, history
  <1> QED
    BY <1>1, <1>2, <1>3, <1>4, <1>5, <1>6, <1>7, <1>8 DEF Next

\* Only a reset and a consumed code count as an effect.
LEMMA WorkedStep ==
  ASSUME [Next]_vars
  PROVE  \/ UNCHANGED worked
         \/ \E r \in Requests : ResetPassword(r) \/ ConsumeAccountOtp(r)
  BY DEF Next, ForgotPassword, IssueFind, RequestCode, UseCode, ReadUser, IssueRetire,
         IssueCreate, Claim, ChangeMyPassword, Login, LoginUpdate, Fail, DeleteMyAccount,
         DeleteUser, Cleanup, Deactivate, Reactivate, Tick, vars, history

\* What an issue does: one new row, or none if there is nobody to own it.
LEMMA IssueCreateResult ==
  ASSUME TypeOK, NEW r \in Requests, IssueCreate(r)
  PROVE  /\ UNCHANGED <<guesses, worked>>
         /\ \/ UNCHANGED <<code, created>> /\ ~account.exists
            \/ /\ created + 1 \in Ids /\ created' = created + 1
               /\ \A i \in Ids \ {created + 1} : code'[i] = code[i]
               /\ code'[created + 1].kind = req[r].kind
               /\ code'[created + 1].attempts = 0
               /\ code'[created + 1].stored /\ ~code'[created + 1].isUsed
  <1> DEFINE new == [kind |-> req[r].kind, stored |-> TRUE, isUsed |-> FALSE, attempts |-> 0,
                     made |-> clock, expires |-> req[r].expires]
  <1>1. UNCHANGED <<guesses, worked>>
    BY DEF IssueCreate, history
  <1>2. CASE UNCHANGED <<code, created>> /\ ~account.exists
    BY <1>1, <1>2
  <1>3. CASE created < MaxCodes /\ created' = created + 1
             /\ code' = [code EXCEPT ![created + 1] = new]
    <2>1. created + 1 \in Ids
      BY <1>3, CodesAssumption DEF TypeOK, Ids
    <2>2. code \in [Ids -> Code]
      BY DEF TypeOK
    <2> QED
      BY <1>1, <1>3, <2>1, <2>2
  <1> QED
    BY <1>2, <1>3 DEF IssueCreate

\* What a claim does: it counts one guess more, below the limit, or nothing.
LEMMA ClaimResult ==
  ASSUME TypeOK, NEW r \in Requests, Claim(r)
  PROVE  /\ UNCHANGED <<created, worked>>
         /\ \A i \in Ids :
              /\ code'[i] \in Code
              /\ code'[i].kind = code[i].kind
              /\ code'[i].stored = code[i].stored
              /\ code'[i].isUsed = code[i].isUsed
              /\ code'[i].expires = code[i].expires
              /\ \/ guesses'[i] = guesses[i] /\ code'[i].attempts = code[i].attempts
                 \/ /\ guesses'[i] = guesses[i] + 1
                    /\ code'[i].attempts = code[i].attempts + 1
                    /\ code[i].stored /\ code[i].attempts < MaxAttempts
  BY DEF TypeOK, Claim, Claimable, Code

LEMMA KindsStay ==
  ASSUME TypeOK, [Next]_vars
  PROVE  created <= created' /\ \A i \in 1..created : code'[i].kind = code[i].kind
  <1>1. 1..created \subseteq Ids
    BY CodesAssumption DEF TypeOK, Ids
  <1> QED
    BY <1>1, CodesStep, IssueCreateResult, ClaimResult DEF OnlySpent, TypeOK

LEMMA HoldingStays ==
  ASSUME TypeOK, [Next]_vars, NEW request, Holding(request, code, created)
  PROVE  Holding(request, code', created')
  <1>1. created \in Nat /\ created' \in Nat
    BY NextTypeOK DEF TypeOK
  <1>2. 1..created \subseteq 1..created'
    BY <1>1, KindsStay
  <1> QED
    BY <1>2, KindsStay DEF Holding


\* The invariants of the rows hold together.
RowsOK == FutureBlank /\ RecordsFound

LEMMA InitRowsOK == Init => RowsOK
  BY DEF Init, RowsOK, FutureBlank, RecordsFound, Holding, HoldingSteps, NoCode, Idle

LEMMA NextFutureBlank == TypeOK /\ RowsOK /\ [Next]_vars => FutureBlank'
  <1> SUFFICES ASSUME TypeOK, RowsOK, [Next]_vars PROVE FutureBlank'
    OBVIOUS
  <1>1. \A i \in Ids : i > created' => i > created
    <2>1. created \in Nat /\ created' \in Nat
      BY NextTypeOK DEF TypeOK
    <2>2. Ids \subseteq Nat
      BY DEF Ids
    <2> QED
      BY <2>1, <2>2, KindsStay
  <1>2. \A i \in Ids : i > created' => ~code'[i].stored /\ guesses'[i] = 0
    <2>1. CASE \E r \in Requests : IssueCreate(r)
      BY <1>1, <2>1, IssueCreateResult, CodesAssumption DEF RowsOK, FutureBlank, TypeOK, Ids
    <2>2. CASE \E r \in Requests : Claim(r)
      BY <1>1, <2>2, ClaimResult DEF RowsOK, FutureBlank, TypeOK
    <2>3. CASE OnlySpent /\ UNCHANGED <<created, guesses>>
      BY <1>1, <2>3 DEF RowsOK, FutureBlank, OnlySpent, TypeOK, Code
    <2> QED
      BY <2>1, <2>2, <2>3, CodesStep
  <1>3. \A i \in Ids : i > created => worked'[i] = 0
    <2>1. ASSUME NEW r \in Requests, ResetPassword(r) \/ ConsumeAccountOtp(r),
                 NEW i \in Ids, i > created
          PROVE  worked'[i] = 0
      <3>1. req[r].record \in 1..created
        BY <2>1 DEF RowsOK, RecordsFound, Holding, HoldingSteps, ResetPassword,
                    ConsumeAccountOtp
      <3>2. i # req[r].record
        BY <2>1, <3>1 DEF TypeOK, Ids
      <3> QED
        BY <2>1, <3>2 DEF ResetPassword, ConsumeAccountOtp, TypeOK, RowsOK, FutureBlank
    <2>2. CASE UNCHANGED worked
      BY <2>2 DEF RowsOK, FutureBlank
    <2> QED
      BY <2>1, <2>2, WorkedStep
  <1> QED
    BY <1>1, <1>2, <1>3 DEF FutureBlank

\* A request that does not start to hold a code, or stops.
LEMMA FreshHolding ==
  ASSUME TypeOK, RowsOK, [Next]_vars, NEW r \in Requests, NEW request,
         req' = [req EXCEPT ![r] = request], Holding(request, code', created')
  PROVE  RecordsFound'
  BY HoldingStays DEF TypeOK, RowsOK, RecordsFound

LEMMA NextRecordsFound == TypeOK /\ RowsOK /\ [Next]_vars => RecordsFound'
  <1> SUFFICES ASSUME TypeOK, RowsOK, [Next]_vars PROVE RecordsFound'
    OBVIOUS
  <1>1. ASSUME NEW r \in Requests, Done(r)
        PROVE  RecordsFound'
    <2>1. Holding(Idle, code', created')
      BY DEF Holding, HoldingSteps, Idle
    <2> QED
      BY <1>1, <2>1, FreshHolding DEF Done
  <1>2. ASSUME NEW r \in Requests, NEW step, step \notin HoldingSteps, GoTo(r, step)
        PROVE  RecordsFound'
    <2>1. [req[r] EXCEPT !.step = step].step = step
      BY DEF TypeOK, Request
    <2>2. Holding([req[r] EXCEPT !.step = step], code', created')
      BY <1>2, <2>1 DEF Holding
    <2> QED
      BY <1>2, <2>2, FreshHolding DEF GoTo
  <1>3. ASSUME NEW r \in Requests, req[r].step \in HoldingSteps,
               NEW step \in {"reset", "consume", "user", "change", "delete"},
               step = "reset" => req[r].kind = "reset",
               step # "reset" => req[r].kind \in ActionKinds,
               GoTo(r, step)
        PROVE  RecordsFound'
    <2> DEFINE request == [req[r] EXCEPT !.step = step]
    <2>1. /\ request.step = step /\ request.record = req[r].record
          /\ request.kind = req[r].kind
      BY DEF TypeOK, Request
    <2>2. Holding(request, code, created)
      BY <1>3, <2>1 DEF Holding, HoldingSteps, RowsOK, RecordsFound
    <2> QED
      BY <1>3, <2>2, HoldingStays, FreshHolding DEF GoTo
  <1>4. ASSUME NEW r \in Requests, NEW request, Begin(r, request),
               request.step \notin HoldingSteps
        PROVE  RecordsFound'
    BY <1>4, FreshHolding DEF Begin, Holding
  <1>5. ASSUME UNCHANGED req
        PROVE  RecordsFound'
    BY <1>5, HoldingStays DEF RowsOK, RecordsFound
  <1>6. ASSUME NEW r \in Requests,
               \/ ForgotPassword(r) \/ \E kind \in ActionKinds : RequestCode(r, kind)
               \/ \E password : Login(r, password)
        PROVE  RecordsFound'
    BY <1>4, <1>6 DEF ForgotPassword, RequestCode, Login, Idle, HoldingSteps
  <1>7. ASSUME NEW r \in Requests, NEW kind \in Kinds, NEW right, NEW password,
               UseCode(r, kind, right, password)
        PROVE  RecordsFound'
    <2> DEFINE record == Newest(Unused(kind))
               request == [Idle EXCEPT !.step = "claim", !.kind = kind, !.right = right,
                                       !.password = password, !.record = record]
    <2>1. record \in Unused(kind)
      BY <1>7, NewestResult DEF UseCode, Unused, Stored
    <2>2. record \in 1..created /\ code[record].kind = kind
      BY <2>1, CodesAssumption DEF Unused, Stored, RowsOK, FutureBlank, TypeOK, Ids
    <2>3. request.step = "claim" /\ request.kind = kind /\ request.record = record
      BY DEF Idle
    <2>4. Holding(request, code, created)
      BY <2>2, <2>3 DEF Holding
    <2>5. req' = [req EXCEPT ![r] = request]
      BY <1>7 DEF UseCode, Begin
    <2> QED
      BY <2>4, <2>5, HoldingStays, FreshHolding
  <1>8. ASSUME NEW r \in Requests, IssueFind(r)
        PROVE  RecordsFound'
    BY <1>1, <1>2, <1>8 DEF IssueFind, HoldingSteps
  <1>9. ASSUME NEW r \in Requests, IssueRetire(r)
        PROVE  RecordsFound'
    <2> DEFINE request == [req[r] EXCEPT !.step = "issue_create", !.expires = clock + Lifetime]
    <2>1. request.step = "issue_create"
      BY DEF TypeOK, Request
    <2>2. req' = [req EXCEPT ![r] = request]
      BY <1>9 DEF IssueRetire
    <2> QED
      BY <2>1, <2>2, FreshHolding DEF Holding, HoldingSteps
  <1>10. ASSUME NEW r \in Requests, Claim(r)
         PROVE  RecordsFound'
    <2>1. req[r].kind \in Kinds
      BY DEF TypeOK, Request
    <2>2. /\ AfterClaim[req[r].kind] \in {"reset", "consume", "user"}
          /\ AfterClaim[req[r].kind] = "reset" => req[r].kind = "reset"
          /\ AfterClaim[req[r].kind] # "reset" => req[r].kind \in ActionKinds
      BY <2>1 DEF AfterClaim, Kinds, ActionKinds
    <2> QED
      BY <1>1, <1>3, <1>10, <2>2 DEF Claim, HoldingSteps
  <1>11. ASSUME NEW r \in Requests, ReadUser(r) \/ ConsumeAccountOtp(r)
         PROVE  RecordsFound'
    <2>1. req[r].kind \in ActionKinds
      BY <1>11 DEF ReadUser, ConsumeAccountOtp, RowsOK, RecordsFound, Holding, HoldingSteps
    <2> QED
      BY <1>1, <1>3, <1>11, <2>1 DEF ReadUser, ConsumeAccountOtp, HoldingSteps
  <1>12. ASSUME NEW r \in Requests,
                \/ IssueCreate(r) \/ ResetPassword(r) \/ ChangeMyPassword(r)
                \/ DeleteMyAccount(r) \/ LoginUpdate(r) \/ Fail(r)
         PROVE  RecordsFound'
    BY <1>1, <1>12 DEF IssueCreate, ResetPassword, ChangeMyPassword, DeleteMyAccount,
                       LoginUpdate, Fail
  <1>13. ASSUME \/ \E kinds : Cleanup(kinds)
                \/ Deactivate \/ Reactivate \/ DeleteUser \/ Tick \/ UNCHANGED vars
         PROVE  UNCHANGED req
    BY <1>13 DEF Cleanup, Deactivate, Reactivate, DeleteUser, Tick, vars
  <1>14. "reset" \in Kinds /\ ActionKinds \subseteq Kinds
    BY DEF Kinds, ActionKinds
  <1> QED
    BY <1>5, <1>6, <1>7, <1>8, <1>9, <1>10, <1>11, <1>12, <1>13, <1>14 DEF Next

LEMMA RowsCorrect == Spec => [](TypeOK /\ RowsOK)
  <1>1. TypeOK /\ RowsOK /\ [Next]_vars => RowsOK'
    BY NextFutureBlank, NextRecordsFound DEF RowsOK
  <1> QED
    BY <1>1, InitTypeOK, NextTypeOK, InitRowsOK, PTL DEF Spec

----------------------------------------------------------------------------
(* The limit on guesses *)

\* The guesses counted here are those of the row.
GuessesCounted ==
  \A i \in Ids : guesses[i] = code[i].attempts /\ code[i].attempts <= MaxAttempts

LEMMA InitGuessesCounted == Init => GuessesCounted
  BY CodesAssumption DEF Init, GuessesCounted, NoCode

LEMMA NextGuessesCounted ==
  TypeOK /\ RowsOK /\ GuessesCounted /\ [Next]_vars => GuessesCounted'
  <1> SUFFICES ASSUME TypeOK, RowsOK, GuessesCounted, [Next]_vars, NEW i \in Ids
               PROVE  guesses'[i] = code'[i].attempts /\ code'[i].attempts <= MaxAttempts
    BY DEF GuessesCounted
  <1>1. guesses[i] = code[i].attempts /\ code[i].attempts <= MaxAttempts
    BY DEF GuessesCounted
  <1>2. ASSUME NEW r \in Requests, IssueCreate(r)
        PROVE  guesses'[i] = code'[i].attempts /\ code'[i].attempts <= MaxAttempts
    <2>1. CASE i = created + 1
      <3>1. guesses[i] = 0
        BY <2>1, CodesAssumption DEF RowsOK, FutureBlank, TypeOK
      <3> QED
        BY <1>1, <1>2, <2>1, <3>1, IssueCreateResult, CodesAssumption
    <2>2. CASE i # created + 1
      BY <1>1, <1>2, <2>2, IssueCreateResult
    <2> QED
      BY <2>1, <2>2
  <1>3. ASSUME NEW r \in Requests, Claim(r)
        PROVE  guesses'[i] = code'[i].attempts /\ code'[i].attempts <= MaxAttempts
    <2>1. code[i].attempts \in Nat /\ MaxAttempts \in Nat
      BY CodesAssumption DEF TypeOK, Code
    <2> QED
      BY <1>1, <1>3, <2>1, ClaimResult
  <1>4. CASE OnlySpent /\ UNCHANGED <<created, guesses>>
    BY <1>1, <1>4 DEF OnlySpent
  <1> QED
    BY <1>2, <1>3, <1>4, CodesStep

\* However many requests race, a code is compared with at most MaxAttempts
\* guesses: the conditional update that claims a guess (Claim) is the only one
\* that counts, and it looks at the count as it is (auth.controller.js,
\* users.controller.js).
THEOREM GuessesAreBounded == Spec => []GuessesBounded
  <1>1. GuessesCounted => GuessesBounded
    BY DEF GuessesCounted, GuessesBounded
  <1> QED
    BY <1>1, RowsCorrect, InitGuessesCounted, NextGuessesCounted, PTL DEF Spec

----------------------------------------------------------------------------
(* Action codes work once *)

\* An action code that has worked is used up for good.
WorkedIsUsed ==
  \A i \in Ids :
    code[i].kind \in ActionKinds =>
      worked[i] = 0 \/ (worked[i] = 1 /\ code[i].isUsed)

LEMMA InitWorkedIsUsed == Init => WorkedIsUsed
  BY DEF Init, WorkedIsUsed

LEMMA NextWorkedIsUsed ==
  TypeOK /\ RowsOK /\ WorkedIsUsed /\ [Next]_vars => WorkedIsUsed'
  <1> SUFFICES ASSUME TypeOK, RowsOK, WorkedIsUsed, [Next]_vars,
                      NEW i \in Ids, code'[i].kind \in ActionKinds
               PROVE  worked'[i] = 0 \/ (worked'[i] = 1 /\ code'[i].isUsed)
    BY DEF WorkedIsUsed
  <1>1. ASSUME NEW r \in Requests, IssueCreate(r)
        PROVE  worked'[i] = 0 \/ (worked'[i] = 1 /\ code'[i].isUsed)
    <2>1. CASE i = created + 1
      <3>1. worked[i] = 0
        BY <2>1, CodesAssumption DEF RowsOK, FutureBlank, TypeOK
      <3> QED
        BY <1>1, <3>1, IssueCreateResult
    <2>2. CASE i # created + 1
      BY <1>1, <2>2, IssueCreateResult DEF WorkedIsUsed
    <2> QED
      BY <2>1, <2>2
  <1>2. ASSUME NEW r \in Requests, Claim(r)
        PROVE  worked'[i] = 0 \/ (worked'[i] = 1 /\ code'[i].isUsed)
    BY <1>2, ClaimResult DEF WorkedIsUsed
  <1>3. ASSUME OnlySpent, UNCHANGED worked
        PROVE  worked'[i] = 0 \/ (worked'[i] = 1 /\ code'[i].isUsed)
    BY <1>3 DEF OnlySpent, WorkedIsUsed
  <1>4. ASSUME NEW r \in Requests, ResetPassword(r)
        PROVE  worked'[i] = 0 \/ (worked'[i] = 1 /\ code'[i].isUsed)
    <2>1. OnlySpent
      BY <1>4, ResetSpends, SameSpends DEF ResetPassword
    <2>2. req[r].record \in 1..created /\ code[req[r].record].kind = "reset"
      BY <1>4 DEF ResetPassword, RowsOK, RecordsFound, Holding, HoldingSteps
    <2>3. i # req[r].record
      BY <2>1, <2>2 DEF OnlySpent, ActionKinds
    <2>4. worked'[i] = worked[i]
      BY <1>4, <2>3 DEF ResetPassword, TypeOK
    <2> QED
      BY <2>1, <2>4 DEF OnlySpent, WorkedIsUsed
  <1>5. ASSUME NEW r \in Requests, ConsumeAccountOtp(r)
        PROVE  worked'[i] = 0 \/ (worked'[i] = 1 /\ code'[i].isUsed)
    <2>1. CASE Consumable(req[r].record)
      <3>1. OnlySpent /\ \A j \in Ids : j = req[r].record => code'[j].isUsed
        BY <1>5, <2>1, UseSpends DEF ConsumeAccountOtp
      <3>2. worked' = [worked EXCEPT ![req[r].record] = @ + 1]
        BY <1>5, <2>1 DEF ConsumeAccountOtp
      <3>3. code[i].kind \in ActionKinds
        BY <3>1 DEF OnlySpent
      <3>4. CASE i = req[r].record
        <4>1. worked[i] = 0
          BY <2>1, <3>3, <3>4 DEF WorkedIsUsed, Consumable, TypeOK
        <4> QED
          BY <3>1, <3>2, <3>4, <4>1 DEF TypeOK
      <3>5. CASE i # req[r].record
        BY <3>1, <3>2, <3>3, <3>5 DEF TypeOK, OnlySpent, WorkedIsUsed
      <3> QED
        BY <3>4, <3>5
    <2>2. CASE ~Consumable(req[r].record)
      BY <1>5, <2>2 DEF ConsumeAccountOtp, WorkedIsUsed
    <2> QED
      BY <2>1, <2>2
  <1>6. \/ OnlySpent
        \/ \E r \in Requests : IssueCreate(r) \/ Claim(r)
    BY CodesStep
  <1> QED
    BY <1>1, <1>2, <1>3, <1>4, <1>5, <1>6, WorkedStep

\* A code for a password change or a deletion works for one request, of however
\* many that hold it: whoever wins the conditional update of
\* consumeAccountOtp finds it unused, and leaves it used.
THEOREM ActionCodesWorkOnce == Spec => []ActionCodeWorksOnce
  <1>1. WorkedIsUsed => ActionCodeWorksOnce
    BY DEF WorkedIsUsed, ActionCodeWorksOnce
  <1> QED
    BY <1>1, RowsCorrect, InitWorkedIsUsed, NextWorkedIsUsed, PTL DEF Spec

----------------------------------------------------------------------------
(* Tokens follow the password *)

\* No token, and no sign-in that is half-way through, is ahead of the account;
\* one that is level with it was given for the password in force.
Level(version, password, row) ==
  /\ version <= row.version
  /\ version = row.version => password = row.password

VersionsLevel ==
  /\ \A token \in tokens : Level(token.version, token.password, account)
  /\ \A r \in Requests :
       req[r].step = "login" => Level(req[r].version, req[r].password, account)

LEMMA InitVersionsLevel == Init => VersionsLevel
  BY DEF Init, VersionsLevel, Level, Idle

\* The account's version is raised whenever its password changes, and an account
\* that is gone is gone.
LEMMA AccountStep ==
  ASSUME TypeOK, [Next]_vars
  PROVE  /\ \/ account'.version = account.version /\ account'.password = account.password
            \/ account'.version = account.version + 1
         /\ account'.exists => account.exists
  <1>1. ASSUME NEW r \in Requests, ResetPassword(r) \/ ChangeMyPassword(r)
        PROVE  \/ account' = account
               \/ account'.version = account.version + 1 /\ account'.exists = account.exists
    BY <1>1, NewPasswordResult DEF ResetPassword, ChangeMyPassword
  <1>2. ASSUME Remove \/ Reactivate
        PROVE  /\ account'.version = account.version
               /\ account'.password = account.password
               /\ account'.exists => account.exists
    BY <1>2 DEF Remove, Reactivate, TypeOK
  <1>3. ASSUME Deactivate
        PROVE  account'.version = account.version + 1 /\ account'.exists = account.exists
    <2> DEFINE off == [account EXCEPT !.isActive = FALSE]
    <2>1. /\ off \in [exists : BOOLEAN, isActive : BOOLEAN, password : Nat, version : Nat]
          /\ off.version = account.version /\ off.exists = account.exists
      BY DEF TypeOK
    <2>2. account' = [off EXCEPT !.version = @ + 1]
      BY <1>3 DEF Deactivate
    <2> HIDE DEF off
    <2> QED
      BY <2>1, <2>2, LaterVersion
  <1>4. ASSUME NEW r \in Requests,
               \/ ForgotPassword(r) \/ IssueFind(r) \/ IssueRetire(r) \/ IssueCreate(r)
               \/ \E kind \in ActionKinds : RequestCode(r, kind)
               \/ \E kind, right, password : UseCode(r, kind, right, password)
               \/ Claim(r) \/ ConsumeAccountOtp(r) \/ ReadUser(r)
               \/ \E password : Login(r, password)
               \/ LoginUpdate(r) \/ Fail(r)
        PROVE  account' = account
    BY <1>4 DEF ForgotPassword, IssueFind, IssueRetire, IssueCreate, RequestCode, UseCode,
                Claim, ConsumeAccountOtp, ReadUser, Login, LoginUpdate, Fail
  <1>5. ASSUME Tick \/ UNCHANGED vars \/ \E kinds : Cleanup(kinds)
        PROVE  account' = account
    BY <1>5 DEF Tick, vars, Cleanup
  <1> QED
    BY <1>1, <1>2, <1>3, <1>4, <1>5 DEF Next, DeleteMyAccount, DeleteUser

LEMMA LevelStays ==
  ASSUME TypeOK, [Next]_vars, NEW version \in Nat, NEW password,
         Level(version, password, account)
  PROVE  Level(version, password, account')
  BY AccountStep DEF TypeOK, Level

\* Who comes to be half-way through a sign-in or an issue, and how.
LEMMA RequestsStep ==
  ASSUME TypeOK, [Next]_vars, NEW r \in Requests, req'[r] # req[r]
  PROVE  \/ req'[r].step \notin {"login", "issue_create"}
         \/ req'[r].step = "login" /\ \E password : Login(r, password)
         \/ req'[r].step = "issue_create" /\ IssueRetire(r)
  <1> DEFINE Elsewhere == req'[r].step \notin {"login", "issue_create"}
  <1>1. ASSUME NEW q \in Requests, Done(q)
        PROVE  Elsewhere
    BY <1>1 DEF Done, TypeOK, Idle
  <1>2. ASSUME NEW q \in Requests, NEW step, step \notin {"login", "issue_create"},
               GoTo(q, step)
        PROVE  Elsewhere
    BY <1>2 DEF GoTo, TypeOK, Request
  <1>3. ASSUME NEW q \in Requests, NEW request, Begin(q, request),
               request.step \notin {"login", "issue_create"}
        PROVE  Elsewhere
    BY <1>3 DEF Begin, TypeOK
  <1>4. ASSUME NEW q \in Requests,
               \/ ForgotPassword(q) \/ \E kind \in ActionKinds : RequestCode(q, kind)
               \/ \E kind, right, password : UseCode(q, kind, right, password)
        PROVE  Elsewhere
    BY <1>3, <1>4 DEF ForgotPassword, RequestCode, UseCode, Idle
  <1>5. ASSUME NEW q \in Requests, Claim(q)
        PROVE  Elsewhere
    <2>1. AfterClaim[req[q].kind] \notin {"login", "issue_create"}
      BY DEF AfterClaim, TypeOK, Request, Kinds
    <2> QED
      BY <1>1, <1>2, <1>5, <2>1 DEF Claim
  <1>6. ASSUME NEW q \in Requests, IssueFind(q) \/ ReadUser(q) \/ ConsumeAccountOtp(q)
        PROVE  Elsewhere
    BY <1>1, <1>2, <1>6 DEF IssueFind, ReadUser, ConsumeAccountOtp
  <1>7. ASSUME NEW q \in Requests,
               \/ IssueCreate(q) \/ ResetPassword(q) \/ ChangeMyPassword(q)
               \/ DeleteMyAccount(q) \/ LoginUpdate(q) \/ Fail(q)
        PROVE  Elsewhere
    BY <1>1, <1>7 DEF IssueCreate, ResetPassword, ChangeMyPassword, DeleteMyAccount,
                      LoginUpdate, Fail
  <1>8. ASSUME NEW q \in Requests, NEW password, Login(q, password)
        PROVE  q = r /\ req'[r].step = "login"
    BY <1>8 DEF Login, Begin, Idle, TypeOK
  <1>9. ASSUME NEW q \in Requests, IssueRetire(q)
        PROVE  q = r /\ req'[r].step = "issue_create"
    BY <1>9 DEF IssueRetire, TypeOK, Request
  <1>10. ~\/ \E kinds : Cleanup(kinds)
          \/ Deactivate \/ Reactivate \/ DeleteUser \/ Tick \/ UNCHANGED vars
    BY DEF Cleanup, Deactivate, Reactivate, DeleteUser, Tick, vars
  <1> QED
    BY <1>4, <1>5, <1>6, <1>7, <1>8, <1>9, <1>10 DEF Next

LEMMA NextVersionsLevel ==
  TypeOK /\ VersionsLevel /\ [Next]_vars => VersionsLevel'
  <1> SUFFICES ASSUME TypeOK, VersionsLevel, [Next]_vars PROVE VersionsLevel'
    OBVIOUS
  <1>1. \A token \in tokens : Level(token.version, token.password, account')
    BY LevelStays DEF VersionsLevel, TypeOK, Token
  <1>2. ASSUME NEW token \in tokens', token \notin tokens
        PROVE  Level(token.version, token.password, account')
    <2>1. ASSUME NEW r \in Requests, ChangeMyPassword(r)
          PROVE  Level(token.version, token.password, account')
      <3>1. token = [version |-> account'.version, password |-> account'.password]
        BY <1>2, <2>1 DEF ChangeMyPassword
      <3>2. account'.version \in Nat
        BY NextTypeOK DEF TypeOK
      <3> QED
        BY <3>1, <3>2 DEF Level
    <2>2. ASSUME NEW r \in Requests, LoginUpdate(r)
          PROVE  Level(token.version, token.password, account')
      <3>1. /\ req[r].step = "login"
            /\ token = [version |-> req[r].version, password |-> req[r].password]
        BY <1>2, <2>2 DEF LoginUpdate, SignedVersion
      <3>2. req[r].version \in Nat
        BY DEF TypeOK, Request
      <3> QED
        BY <3>1, <3>2, LevelStays DEF VersionsLevel
    <2>3. \/ UNCHANGED tokens
          \/ \E r \in Requests : ChangeMyPassword(r) \/ LoginUpdate(r)
      BY DEF Next, ForgotPassword, IssueFind, RequestCode, UseCode, ReadUser, IssueRetire,
             IssueCreate, Claim, ResetPassword, ConsumeAccountOtp, Login, Fail,
             DeleteMyAccount, DeleteUser, Cleanup, Deactivate, Reactivate, Tick, vars
    <2> QED
      BY <1>2, <2>1, <2>2, <2>3
  <1>3. ASSUME NEW r \in Requests, req'[r].step = "login"
        PROVE  Level(req'[r].version, req'[r].password, account')
    <2>1. CASE req'[r] = req[r]
      <3>1. req[r].version \in Nat
        BY DEF TypeOK, Request
      <3> QED
        BY <1>3, <2>1, <3>1, LevelStays DEF VersionsLevel
    <2>2. CASE req'[r] # req[r]
      <3>1. PICK password : Login(r, password)
        BY <1>3, <2>2, RequestsStep
      <3>2. /\ account' = account
            /\ req'[r].version = account.version /\ req'[r].password = account.password
        BY <3>1 DEF Login, Begin, Idle, TypeOK
      <3>3. account.version \in Nat
        BY DEF TypeOK
      <3> QED
        BY <3>2, <3>3 DEF Level
    <2> QED
      BY <2>1, <2>2
  <1> QED
    BY <1>1, <1>2, <1>3 DEF VersionsLevel

\* A token that requireAuth accepts belongs to somebody who has shown, or set,
\* the password now in force: a token is signed for the version of the row its
\* password was compared with (login), and every change of the password raises
\* the version.
THEOREM TokensFollowThePassword == Spec => []TokensFollowPassword
  <1>1. VersionsLevel => TokensFollowPassword
    BY DEF VersionsLevel, Level, TokensFollowPassword, Accepted
  <1>2. Spec => []TypeOK
    BY TypeCorrect
  <1> QED
    BY <1>1, <1>2, InitVersionsLevel, NextVersionsLevel, PTL DEF Spec

----------------------------------------------------------------------------
(* The code mailed last is good *)

\* Code i is the newest of its kind, and nothing has happened that may take it
\* away from whoever was mailed it.
Expected(kind, i) ==
  /\ i \in 1..created /\ code[i].kind = kind
  /\ \A j \in 1..created : code[j].kind = kind => j <= i
  /\ ~Issuing(kind) /\ kind \notin torn
  /\ clock <= code[i].expires /\ worked[i] = 0 /\ i \notin voided
  /\ account.exists

MailedGood ==
  \A kind \in Kinds : \A i \in Ids : Expected(kind, i) => code[i].stored /\ ~code[i].isUsed

LEMMA InitMailedGood == Init => MailedGood
  BY DEF Init, MailedGood, Expected

\* An issue stays under way until it has stored its code or died.
LEMMA IssuingStays ==
  ASSUME TypeOK, [Next]_vars, NEW kind, Issuing(kind), ~Issuing(kind)'
  PROVE  \/ \E r \in Requests : IssueCreate(r) /\ req[r].kind = kind
         \/ kind \in torn'
  <1>1. PICK r \in Requests : req[r].step = "issue_create" /\ req[r].kind = kind
    BY DEF Issuing
  <1>2. req' # req /\ req'[r] # req[r]
    BY <1>1 DEF Issuing
  <1>3. ASSUME NEW q \in Requests, NEW request, req' = [req EXCEPT ![q] = request]
        PROVE  q = r
    BY <1>2, <1>3 DEF TypeOK
  <1>4. ASSUME NEW q \in Requests, req[q].step # "issue_create",
               \E request : req' = [req EXCEPT ![q] = request]
        PROVE  FALSE
    BY <1>1, <1>3, <1>4
  <1>5. ~\E q \in Requests :
           \/ ForgotPassword(q) \/ \E k \in ActionKinds : RequestCode(q, k)
           \/ \E k, right, password : UseCode(q, k, right, password)
           \/ \E password : Login(q, password)
    BY <1>4 DEF ForgotPassword, RequestCode, UseCode, Login, Begin
  <1>6. ~\E q \in Requests :
           \/ IssueFind(q) \/ Claim(q) \/ ReadUser(q) \/ ConsumeAccountOtp(q)
           \/ ResetPassword(q) \/ ChangeMyPassword(q) \/ DeleteMyAccount(q)
           \/ LoginUpdate(q)
    BY <1>4 DEF IssueFind, Claim, ReadUser, ConsumeAccountOtp, ResetPassword,
                ChangeMyPassword, DeleteMyAccount, LoginUpdate, GoTo, Done
  <1>7. ASSUME NEW q \in Requests, IssueRetire(q)
        PROVE  FALSE
    <2>1. req' = [req EXCEPT ![q] = [req[q] EXCEPT !.step = "issue_create",
                                                   !.expires = clock + Lifetime]]
      BY <1>7 DEF IssueRetire
    <2> QED
      BY <1>4, <1>7, <2>1 DEF IssueRetire
  <1>8. ~\/ \E kinds : Cleanup(kinds)
         \/ Deactivate \/ Reactivate \/ DeleteUser \/ Tick \/ UNCHANGED vars
    BY <1>2 DEF Cleanup, Deactivate, Reactivate, DeleteUser, Tick, vars
  <1>9. ASSUME NEW q \in Requests, IssueCreate(q) \/ Fail(q)
        PROVE  q = r
    BY <1>3, <1>9 DEF IssueCreate, Fail, Done
  <1>10. Fail(r) => kind \in torn'
    BY <1>1 DEF Fail
  <1> QED
    BY <1>1, <1>5, <1>6, <1>7, <1>8, <1>9, <1>10 DEF Next

\* The clock and the history only go on, and an account that is gone is gone.
LEMMA Onward ==
  ASSUME TypeOK, [Next]_vars
  PROVE  /\ clock <= clock' /\ torn \subseteq torn' /\ voided \subseteq voided'
         /\ account'.exists => account.exists
         /\ \A i \in Ids : worked'[i] = 0 => worked[i] = 0
  <1>1. clock' = clock \/ clock' = clock + 1
    BY DEF Next, ForgotPassword, IssueFind, RequestCode, UseCode, ReadUser, IssueRetire,
           IssueCreate, Claim, ResetPassword, ConsumeAccountOtp, ChangeMyPassword, Login,
           LoginUpdate, Fail, DeleteMyAccount, DeleteUser, Cleanup, Deactivate, Reactivate,
           Tick, vars
  <1>2. torn \subseteq torn'
    BY DEF Next, ForgotPassword, IssueFind, RequestCode, UseCode, ReadUser, IssueRetire,
           IssueCreate, Claim, ResetPassword, ConsumeAccountOtp, ChangeMyPassword, Login,
           LoginUpdate, Fail, DeleteMyAccount, DeleteUser, Cleanup, Deactivate, Reactivate,
           Tick, vars, history
  <1>3. voided \subseteq voided'
    BY DEF Next, ForgotPassword, IssueFind, RequestCode, UseCode, ReadUser, IssueRetire,
           IssueCreate, Claim, ResetPassword, ConsumeAccountOtp, ChangeMyPassword, Login,
           LoginUpdate, Fail, DeleteMyAccount, DeleteUser, Cleanup, Deactivate, Reactivate,
           Tick, vars, history
  <1>4. ASSUME NEW i \in Ids, worked'[i] = 0
        PROVE  worked[i] = 0
    <2>1. ASSUME NEW r \in Requests, ResetPassword(r) \/ ConsumeAccountOtp(r)
          PROVE  worked' = worked \/ worked' = [worked EXCEPT ![req[r].record] = @ + 1]
      BY <2>1 DEF ResetPassword, ConsumeAccountOtp
    <2>2. worked \in [Ids -> Nat]
      BY DEF TypeOK
    <2> QED
      BY <1>4, <2>1, <2>2, WorkedStep
  <1> QED
    BY <1>1, <1>2, <1>3, <1>4, AccountStep DEF TypeOK

\* A code of which this is said afterwards was such a code before, unless it
\* has only now been made.
LEMMA ExpectedBefore ==
  ASSUME TypeOK, RowsOK, [Next]_vars, NEW kind \in Kinds, NEW i \in 1..created,
         Expected(kind, i)',
         ~\E r \in Requests : IssueCreate(r) /\ req[r].kind = kind
  PROVE  Expected(kind, i)
  <1>1. /\ created \in Nat /\ created' \in Nat /\ created <= created'
        /\ 1..created \subseteq Ids
    <2>1. created \in Nat /\ created' \in Nat
      BY NextTypeOK DEF TypeOK
    <2>2. 1..created \subseteq Ids
      BY CodesAssumption DEF TypeOK, Ids
    <2> QED
      BY <2>1, <2>2, KindsStay
  <1>2. ~Issuing(kind)
    BY IssuingStays DEF Expected
  <1>3. code[i].kind = kind /\ \A j \in 1..created : code[j].kind = kind => j <= i
    BY <1>1, KindsStay DEF Expected
  <1>4. clock <= code[i].expires
    <2>1. code'[i].expires = code[i].expires
      <3>1. ASSUME NEW r \in Requests, IssueCreate(r)
            PROVE  code'[i] = code[i]
        BY <1>1, <3>1, IssueCreateResult
      <3> QED
        BY <1>1, <3>1, CodesStep, ClaimResult DEF OnlySpent
    <2>2. code[i].expires \in Nat /\ clock \in Nat /\ clock' \in Nat
      BY <1>1, NextTypeOK DEF TypeOK, Code
    <2> QED
      BY <2>1, <2>2, Onward DEF Expected
  <1>5. kind \notin torn /\ worked[i] = 0 /\ i \notin voided /\ account.exists
    BY <1>1, Onward DEF Expected
  <1> QED
    BY <1>2, <1>3, <1>4, <1>5 DEF Expected

LEMMA NextMailedGood == TypeOK /\ RowsOK /\ MailedGood /\ [Next]_vars => MailedGood'
  <1> SUFFICES ASSUME TypeOK, RowsOK, MailedGood, [Next]_vars,
                      NEW kind \in Kinds, NEW i \in Ids, Expected(kind, i)'
               PROVE  code'[i].stored /\ ~code'[i].isUsed
    BY DEF MailedGood
  <1> DEFINE Good == code'[i].stored /\ ~code'[i].isUsed
  <1>1. created \in Nat /\ created' \in Nat /\ created <= created'
    BY KindsStay, NextTypeOK DEF TypeOK
  <1>2. ASSUME NEW r \in Requests, IssueCreate(r), req[r].kind = kind
        PROVE  Good
    <2>1. account.exists
      BY <1>2 DEF IssueCreate, Expected
    <2>2. /\ created + 1 \in Ids /\ created' = created + 1
          /\ code'[created + 1].kind = kind
          /\ code'[created + 1].stored /\ ~code'[created + 1].isUsed
      BY <1>2, <2>1, IssueCreateResult
    <2>3. i = created + 1
      BY <1>1, <2>2 DEF Expected
    <2> QED
      BY <2>2, <2>3
  <1>3. ASSUME ~\E r \in Requests : IssueCreate(r) /\ req[r].kind = kind
        PROVE  i \in 1..created /\ code[i].kind = kind /\ code[i].stored /\ ~code[i].isUsed
    <2>1. i \in 1..created
      <3>1. CASE created' = created
        BY <3>1 DEF Expected
      <3>2. ASSUME NEW r \in Requests, IssueCreate(r), created' # created
            PROVE  i # created + 1
        BY <1>3, <3>2, IssueCreateResult DEF Expected
      <3>3. \/ created' = created
            \/ created' = created + 1 /\ \E r \in Requests : IssueCreate(r)
        BY CodesStep, IssueCreateResult, ClaimResult
      <3> QED
        BY <1>1, <3>1, <3>2, <3>3 DEF Expected
    <2>2. Expected(kind, i)
      BY <1>3, <2>1, ExpectedBefore
    <2> QED
      BY <2>1, <2>2 DEF MailedGood, Expected
  <1> SUFFICES ASSUME ~\E r \in Requests : IssueCreate(r) /\ req[r].kind = kind
               PROVE  Good
    BY <1>2
  <1>4. /\ i \in 1..created /\ code[i].kind = kind /\ code[i].stored /\ ~code[i].isUsed
        /\ code[i] \in Code
    BY <1>3 DEF TypeOK
  <1>5. CASE code'[i] = code[i]
    BY <1>4, <1>5
  <1>6. ASSUME NEW r \in Requests, IssueCreate(r)
        PROVE  Good
    BY <1>1, <1>4, <1>6, IssueCreateResult
  <1>7. ASSUME NEW r \in Requests, Claim(r)
        PROVE  Good
    BY <1>4, <1>7, ClaimResult
  <1>8. ASSUME NEW r \in Requests, IssueRetire(r)
        PROVE  Good
    <2>1. req'[r].step = "issue_create" /\ req'[r].kind = req[r].kind
      BY <1>8 DEF IssueRetire, TypeOK, Request
    <2>2. req[r].kind # kind
      BY <2>1 DEF Expected, Issuing
    <2>3. i \notin Unused(req[r].kind)
      BY <1>4, <2>2 DEF Unused, Stored
    <2>4. code'[i] = code[i]
      BY <1>8, <2>3, UseSpends DEF IssueRetire
    <2> QED
      BY <1>5, <2>4
  <1>9. ASSUME NEW r \in Requests, ResetPassword(r)
        PROVE  Good
    BY <1>4, <1>5, <1>9 DEF ResetPassword, Expected
  <1>10. ASSUME NEW r \in Requests, ConsumeAccountOtp(r)
         PROVE  Good
    <2>1. CASE Consumable(req[r].record)
      <3>1. i # req[r].record
        BY <1>10, <2>1 DEF ConsumeAccountOtp, Expected, TypeOK
      <3>2. code' = Use({req[r].record})
        BY <1>10, <2>1 DEF ConsumeAccountOtp
      <3>3. i \notin {req[r].record}
        BY <3>1
      <3>4. code'[i] = code[i]
        BY <3>2, <3>3, UseSpends
      <3> QED
        BY <1>5, <3>4
    <2>2. CASE ~Consumable(req[r].record)
      BY <1>5, <1>10, <2>2 DEF ConsumeAccountOtp
    <2> QED
      BY <2>1, <2>2
  <1>11. ASSUME Remove
         PROVE  Good
    BY <1>11 DEF Remove, Expected, TypeOK
  <1>12. ASSUME NEW kinds, Cleanup(kinds)
         PROVE  Good
    <2>1. clock <= code[i].expires
      BY <1>12, EraseSpends DEF Cleanup, Expected, OnlySpent
    <2>2. ~Dead(i)
      BY <1>4, <2>1 DEF Dead, Code, TypeOK
    <2> QED
      BY <1>5, <1>12, <2>2, EraseSpends DEF Cleanup
  <1>13. ASSUME NEW r \in Requests,
                \/ ForgotPassword(r) \/ IssueFind(r)
                \/ \E k \in ActionKinds : RequestCode(r, k)
                \/ \E k, right, password : UseCode(r, k, right, password)
                \/ ReadUser(r) \/ ChangeMyPassword(r)
                \/ \E password : Login(r, password)
                \/ LoginUpdate(r) \/ Fail(r)
         PROVE  code' = code
    BY <1>13 DEF ForgotPassword, IssueFind, RequestCode, UseCode, ReadUser,
                 ChangeMyPassword, Login, LoginUpdate, Fail
  <1>14. ASSUME Deactivate \/ Reactivate \/ Tick \/ UNCHANGED vars
         PROVE  code' = code
    BY <1>14 DEF Deactivate, Reactivate, Tick, vars
  <1> QED
    BY <1>5, <1>6, <1>7, <1>8, <1>9, <1>10, <1>11, <1>12, <1>13, <1>14
       DEF Next, DeleteMyAccount, DeleteUser

\* The code somebody was mailed last stays good until it expires, works or is
\* replaced, however requests for codes, their retirement of older ones and the
\* hourly cleanup interleave; only an issue that died half-way, a reset or the
\* end of the account takes it away.
THEOREM MailedCodesAreGood == Spec => []MailedCodeIsGood
  <1>1. TypeOK /\ MailedGood => MailedCodeIsGood
    <2> SUFFICES ASSUME TypeOK, MailedGood, NEW kind \in Kinds,
                        NEW i \in {j \in 1..created : code[j].kind = kind},
                        \A j \in {k \in 1..created : code[k].kind = kind} : j <= i,
                        ~Issuing(kind), kind \notin torn,
                        clock <= code[i].expires, worked[i] = 0, i \notin voided,
                        account.exists
                 PROVE  code[i].stored /\ ~code[i].isUsed
      BY DEF MailedCodeIsGood
    <2>1. i \in Ids
      BY CodesAssumption DEF TypeOK, Ids
    <2> QED
      BY <2>1 DEF MailedGood, Expected
  <1> QED
    BY <1>1, RowsCorrect, InitMailedGood, NextMailedGood, PTL DEF Spec

=============================================================================
