------------------------------ MODULE Families ------------------------------
(***************************************************************************)
(* Accounts, students and who belongs to whom (users.controller.js,        *)
(* students.controller.js, utils/ownership.js): teachers work at a center, *)
(* a student is with a teacher, and parents (Guardians are the same) are   *)
(* linked to students and belong to the center of those.                   *)
(*                                                                         *)
(* A request reads what it needs to be allowed and to know the center, and *)
(* writes in a later transaction.  Others commit in between: requests have *)
(* two steps here, the deletion of a student three.  A transaction is one  *)
(* step: it sees what was committed before it.                             *)
(*                                                                         *)
(* An e-mail address is told apart by who has it: `mail` says which        *)
(* students' registrations list the address of which user, present or      *)
(* future.  Names, phones and addresses are left out.                      *)
(***************************************************************************)
EXTENDS Naturals, FiniteSets

CONSTANTS
  Users,       \* accounts that exist or may be registered
  Nobody,      \* the teacher of a student who has none
  Students,
  Centers,
  NoCenter,
  Listed,      \* the users whose address a registration may list
  Requests,    \* requests in flight at one time
  Start,       \* the contents of the database that runs begin with
  MaxOps       \* bound: requests and failures, together

ASSUME FamiliesAssumption ==
  /\ Nobody \notin Users /\ NoCenter \notin Centers
  /\ Listed \subseteq Users /\ MaxOps \in Nat

VARIABLES
  db,          \* what is committed
  req,         \* req[r]: the request r is serving
  used,        \* how much of MaxOps is used up
  (* history *)
  late,        \* requests that others have overtaken since they read
  missed,      \* parents a deletion of their last child did not reach
  matched      \* disabled parents who got a child by their new address or center

history == <<late, missed, matched>>
vars == <<db, req, used, history>>

Roles == {"Admin", "Teacher", "Parent"}

User == [exists : BOOLEAN, role : Roles, center : Centers \cup {NoCenter}, isActive : BOOLEAN]

NoUser == [exists |-> FALSE, role |-> "Parent", center |-> NoCenter, isActive |-> FALSE]

Database ==
  [user     : [Users -> User],
   students : SUBSET Students,                  \* the rows there are
   teacher  : [Students -> Users \cup {Nobody}],
   link     : SUBSET (Users \X Students),       \* parent_children
   mail     : SUBSET (Users \X Students),       \* whose address a registration lists
   deleted  : SUBSET (Users \cup Students)]     \* ids are not given twice

\* What a row refers to is there.
ReferencesHold(d) ==
  \A s \in Students :
    /\ \A u \in Users : <<u, s>> \in d.link => d.user[u].exists /\ s \in d.students
    /\ d.teacher[s] # Nobody => d.user[d.teacher[s]].exists

\* An account with children works, and a parent's without children does not.
AccountsFollow(d) ==
  \A u \in Users : LET kids == {s \in Students : <<u, s>> \in d.link} IN
    /\ kids # {} => d.user[u].isActive
    /\ kids = {} /\ d.user[u].exists /\ d.user[u].role = "Parent" => ~d.user[u].isActive

\* Earlier requests, one after the other, have left it, without the exceptions below;
\* it may be empty.
ASSUME StartAssumption ==
  \A d \in Start : d \in Database /\ ReferencesHold(d) /\ AccountsFollow(d)

\* What a request still knows when its transaction runs.
Request ==
  [op : {"none"}]
  \cup [op : {"register"}, u : Users, role : Roles, center : Centers \cup {NoCenter},
        kids : SUBSET Students]
  \cup [op : {"update"}, u : Users, role : Roles, center : Centers \cup {NoCenter},
        was : [role : Roles, center : Centers \cup {NoCenter}],   \* `existing`
        scope : Centers \cup {NoCenter},       \* the center of a Teacher who asks
        given : BOOLEAN, kids : SUBSET Students,
        mailed : BOOLEAN, lists : SUBSET Students,   \* a new address, and who lists it
        action : {"none", "move", "transfer"}, next : Users \cup {Nobody}]
  \cup [op : {"delete_user"}, u : Users]
  \cup [op : {"create", "edit"}, s : Students, moved : BOOLEAN,
        teacher : Users \cup {Nobody}, mail : SUBSET Users]
  \cup [op : {"delete_student", "deactivate"}, s : Students, parents : SUBSET Users]

TypeOK ==
  /\ db \in Database
  /\ req \in [Requests -> Request]
  /\ used \in 0..MaxOps
  /\ late \subseteq Requests /\ missed \subseteq Users /\ matched \subseteq Users

Idle == [op |-> "none"]

Init ==
  /\ db \in Start
  /\ req = [r \in Requests |-> Idle]
  /\ used = 0
  /\ late = {} /\ missed = {} /\ matched = {}

Count == used < MaxOps /\ used' = used + 1

\* The part of a request before its transaction.
Begin(r, fields) ==
  /\ req' = [req EXCEPT ![r] = fields]
  /\ late' = late \ {r}
  /\ UNCHANGED <<db, missed, matched>>

\* The transaction of r: everybody else's reads are old now.
Commit(r, after) ==
  /\ db' = after
  /\ late' = (late \cup {q \in Requests : after # db /\ req[q] # Idle}) \ {r}
  /\ UNCHANGED used

Done(r) == req' = [req EXCEPT ![r] = Idle]

\* Refused, rolled back, or the database failed.
Refuse(r) ==
  /\ req[r].op \notin {"none", "deactivate"}
  /\ Done(r)
  /\ late' = late \ {r}
  /\ UNCHANGED <<db, used, missed, matched>>

----------------------------------------------------------------------------
(* Reading the database d *)

Kids(d, u) == {s \in Students : <<u, s>> \in d.link}
ParentsOf(d, s) == {u \in Users : <<u, s>> \in d.link}

\* The center of the student's teacher.
CenterOf(d, s) == IF d.teacher[s] = Nobody THEN NoCenter ELSE d.user[d.teacher[s]].center

Is(d, u, role) == d.user[u].exists /\ d.user[u].role = role

Active(d, role) == {u \in Users : Is(d, u, role) /\ d.user[u].isActive}

\* requireAuth: an Admin, or this Teacher, is signed in.
SignedIn(a) == a \in Active(db, "Admin") \cup Active(db, "Teacher")

IsAdmin(a) == db.user[a].role = "Admin"

\* assertCanAccessStudent
CanAccess(a, s) ==
  \/ IsAdmin(a)
  \/ /\ s \in db.students
     /\ \/ db.teacher[s] = a
        \/ db.user[a].center # NoCenter /\ CenterOf(db, s) = db.user[a].center

\* centerFromStudents: the one center of them all.
CenterFromStudents(kids) ==
  {c \in Centers : /\ kids # {} /\ kids \subseteq db.students
                   /\ \A s \in kids : CenterOf(db, s) = c}

\* linkStudentsByEmail: the students at center c that list the address of u.
Matching(d, u, c) ==
  {s \in d.students : c # NoCenter /\ <<u, s>> \in d.mail /\ CenterOf(d, s) = c}

----------------------------------------------------------------------------
(* Accounts *)

\* The center a new account gets, and whether the one who asks may create it.
CenterOfNew(a, role, kids) ==
  IF ~IsAdmin(a)
  THEN {c \in {db.user[a].center} \ {NoCenter} : role = "Parent" /\ \A s \in kids : CanAccess(a, s)}
  ELSE IF role = "Parent" THEN CenterFromStudents(kids)
  ELSE IF kids # {} THEN {}
  ELSE IF role = "Teacher" THEN Centers ELSE {NoCenter}

RegisterUser(r, a, u, role, kids) ==
  /\ SignedIn(a) /\ ~db.user[u].exists /\ u \notin db.deleted
  /\ \E c \in CenterOfNew(a, role, kids) :
       Begin(r, [op |-> "register", u |-> u, role |-> role, center |-> c, kids |-> kids])

\* The address may be taken by now, a student gone (P2002, P2003), nobody linked.
Registered(q) ==
  LET made == [db EXCEPT
                 !.user[q.u] = [exists |-> TRUE, role |-> q.role, center |-> q.center,
                                isActive |-> TRUE],
                 !.link = @ \cup ({q.u} \X q.kids)]
      found == IF q.role = "Parent" THEN Matching(made, q.u, q.center) ELSE {}
      after == [made EXCEPT !.link = @ \cup ({q.u} \X found)]
  IN {d \in {after} : /\ ~db.user[q.u].exists
                      /\ q.kids \subseteq db.students
                      /\ q.role = "Parent" => Kids(d, q.u) # {}}

\* The center an updated account is to have.
CenterOfUpdated(a, u, role, given, kids) ==
  LET is == db.user[u]
  IN IF role = "Admin" THEN {NoCenter}
     ELSE IF role = "Teacher" THEN IF IsAdmin(a) THEN Centers ELSE {is.center} \ {NoCenter}
     ELSE IF ~IsAdmin(a) THEN {is.center}
     ELSE IF given THEN CenterFromStudents(kids)
     ELSE IF is.role = "Parent" THEN {is.center} \ {NoCenter} ELSE {}

\* Mutation: a choice the transaction does not know.
MisspeltChoices == {<<"none", Nobody>>, <<"moves", Nobody>>} \cup ({"transfer"} \X Users)

\* What becomes of the students of a Teacher who moves.
Choices == {<<"none", Nobody>>, <<"move", Nobody>>} \cup ({"transfer"} \X Users)

\* updateUser: a Teacher may change themselves and the parents of their own center,
\* neither role nor address; an Admin anybody.
MayUpdate(a, u, role, mailed, kids) ==
  \/ IsAdmin(a)
  \/ u = a /\ role = "Teacher" /\ ~mailed
  \/ /\ Is(db, u, "Parent") /\ role = "Parent" /\ ~mailed
     /\ db.user[a].center # NoCenter /\ db.user[u].center = db.user[a].center
     /\ \A s \in kids : CanAccess(a, s)

UpdateUser(r, a, u, role) ==
  /\ SignedIn(a) /\ db.user[u].exists
  /\ \E given, mailed \in BOOLEAN :
     \E kids \in IF given /\ role = "Parent" THEN SUBSET Students ELSE {{}},
        lists \in IF mailed /\ u \in Listed THEN SUBSET Students ELSE {{}} :
       /\ MayUpdate(a, u, role, mailed, kids)
       /\ \E c \in CenterOfUpdated(a, u, role, given, kids) :
          \E choice \in IF Is(db, u, "Teacher") /\ role = "Teacher" /\ c # db.user[u].center
                       THEN Choices ELSE {<<"none", Nobody>>} :
            Begin(r, [op |-> "update", u |-> u, role |-> role, center |-> c,
                      was |-> [role |-> db.user[u].role, center |-> db.user[u].center],
                      scope |-> IF IsAdmin(a) THEN NoCenter ELSE db.user[a].center,
                      given |-> given, kids |-> kids, mailed |-> mailed, lists |-> lists,
                      action |-> choice[1], next |-> choice[2]])

Moved(q) == q.center # q.was.center

\* The row and the links as the form has them, the role included; children again, so
\* the account works again.
Rewritten(q) ==
  LET row == [db.user[q.u] EXCEPT !.role = q.role,
                                  !.center = IF Moved(q) THEN q.center ELSE @,
                                  !.isActive = @ \/ q.kids # {}]
      dropped == IF q.given
                 THEN {s \in Students : q.scope = NoCenter \/ CenterOf(db, s) = q.scope}
                 ELSE IF q.was.role = "Parent" /\ q.role # "Parent" THEN Students ELSE {}
  IN [db EXCEPT
        !.user[q.u] = row,
        !.link = (@ \ ({q.u} \X dropped)) \cup ({q.u} \X q.kids),
        !.mail = IF q.mailed THEN (@ \ ({q.u} \X Students)) \cup ({q.u} \X q.lists) ELSE @]

Enrolled(d, t) == {s \in d.students : d.teacher[s] = t}

Families(d, t) ==
  {p \in Users : Is(d, p, "Parent") /\ Kids(d, p) \cap Enrolled(d, t) # {}}

\* Mutation: the families of a teacher who takes the students along stay behind.
TeacherMovedAlone(q, d) ==
  IF ~(Moved(q) /\ q.was.role = "Teacher" /\ q.role = "Teacher") \/ Enrolled(d, q.u) = {} THEN {d}
  ELSE IF q.action = "none" THEN {} ELSE {d}

\* resolveStudentsOfMovedTeacher: the students are handed to a teacher who stays, or
\* follow, and then their families with them; {} when it is refused.
TeacherMoved(q, d) ==
  IF ~(Moved(q) /\ q.was.role = "Teacher" /\ q.role = "Teacher") \/ Enrolled(d, q.u) = {} THEN {d}
  ELSE IF q.action = "none" THEN {}
  ELSE IF q.action = "transfer"
  THEN {[d EXCEPT !.teacher = [s \in Students |-> IF s \in Enrolled(d, q.u) THEN q.next
                                                    ELSE d.teacher[s]]] :
          t \in {x \in Active(d, "Teacher") \ {q.u} : /\ x = q.next /\ q.was.center # NoCenter
                                                      /\ d.user[x].center = q.was.center}}
  ELSE {e \in {[d EXCEPT !.user = [p \in Users |-> IF p \in Families(d, q.u)
                                                    THEN [d.user[p] EXCEPT !.center = q.center]
                                                    ELSE d.user[p]]]} :
          \A p \in Families(d, q.u) : Kids(d, p) \subseteq Enrolled(d, q.u)}

\* Links by address, when the role, the center or the address has changed.
LinkedByEmail(q, d) ==
  IF q.role = "Parent" /\ (q.was.role # "Parent" \/ Moved(q) \/ q.mailed)
  THEN [d EXCEPT !.link = @ \cup ({q.u} \X Matching(d, q.u, q.center))]
  ELSE d

\* requireLinksInCenter, requireStudentLink
LinksAreRight(q, d) ==
  q.role = "Parent" => /\ Kids(d, q.u) # {}
                       /\ Moved(q) => \A s \in Kids(d, q.u) : CenterOf(d, s) = q.center

\* The transaction of updateUser.
Updated(q) ==
  {d \in {LinkedByEmail(q, m) : m \in TeacherMoved(q, Rewritten(q))} :
     /\ db.user[q.u].exists /\ q.kids \subseteq db.students
     /\ LinksAreRight(q, d)}

\* Deleting a user takes the links along and leaves the students with nobody.
WithoutUser(u) ==
  [db EXCEPT !.user[u] = NoUser,
             !.link = @ \ ({u} \X Students),
             !.teacher = [s \in Students |-> IF db.teacher[s] = u THEN Nobody ELSE db.teacher[s]],
             !.deleted = @ \cup {u}]

\* Mutation: the one who leaves is not counted out.
EnoughAdminsWithMe == Cardinality(Active(db, "Admin")) >= 1

EnoughAdmins == Cardinality(Active(db, "Admin")) > 1

\* deleteMyAccount; the code and the password are in AccountCodes.
DeleteMyAccount(r, a) ==
  /\ db.user[a].exists /\ db.user[a].isActive
  /\ Is(db, a, "Teacher") => Enrolled(db, a) = {}
  /\ Is(db, a, "Admin") => EnoughAdmins
  /\ Begin(r, [op |-> "delete_user", u |-> a])

\* deleteUser: a Teacher only parents of their center, all of whose children are there.
DeleteUser(r, a, u) ==
  /\ SignedIn(a) /\ u # a /\ db.user[u].exists
  /\ ~IsAdmin(a) =>
       /\ Is(db, u, "Parent")
       /\ db.user[a].center # NoCenter /\ db.user[u].center = db.user[a].center
       /\ \A s \in Kids(db, u) : CenterOf(db, s) = db.user[a].center
  /\ Begin(r, [op |-> "delete_user", u |-> u])

AccountCommits(r) ==
  /\ \/ /\ req[r].op = "register"
        /\ \E d \in Registered(req[r]) : Commit(r, d)
        /\ UNCHANGED matched
     \/ /\ req[r].op = "update"
        /\ \E d \in Updated(req[r]) :
             /\ Commit(r, d)
             /\ matched' = IF d.link # Rewritten(req[r]).link /\ ~d.user[req[r].u].isActive
                           THEN matched \cup {req[r].u} ELSE matched
     \/ /\ req[r].op = "delete_user" /\ db.user[req[r].u].exists
        /\ Commit(r, WithoutUser(req[r].u))
        /\ UNCHANGED matched
  /\ Done(r)
  /\ UNCHANGED missed

----------------------------------------------------------------------------
(* Students *)

\* resolveTeacherId: a Teacher's own, the Teacher an Admin names, or none.
TeachersFor(a) ==
  IF IsAdmin(a) THEN {t \in Users : Is(db, t, "Teacher")} \cup {Nobody} ELSE {a}

\* createStudent, and a row of importStudents.
CreateStudent(r, a, s, t, mail) ==
  /\ SignedIn(a) /\ s \notin db.students \cup db.deleted
  /\ Begin(r, [op |-> "create", s |-> s, moved |-> FALSE, teacher |-> t, mail |-> mail])

\* updateStudent: the form sends every address again; only an Admin names a teacher.
UpdateStudent(r, a, s, moved, t, mail) ==
  /\ SignedIn(a) /\ s \in db.students /\ CanAccess(a, s)
  /\ Begin(r, [op |-> "edit", s |-> s, moved |-> moved, teacher |-> t, mail |-> mail])

\* The row as the request has it; none when the student, or the teacher, is gone.
Saved(q) ==
  LET with == [db EXCEPT !.students = @ \cup {q.s},
                         !.teacher[q.s] = IF q.op = "create" \/ q.moved THEN q.teacher ELSE @,
                         !.mail = (@ \ (Users \X {q.s})) \cup (q.mail \X {q.s})]
  IN {d \in {with} : /\ q.s \in db.students <=> q.op = "edit"
                     /\ q.s \notin db.deleted
                     /\ q.teacher = Nobody \/ db.user[q.teacher].exists}

\* requireParentsAtCenterOf; taking a student from every teacher fails.
ParentsAreAt(q, d) ==
  (q.moved /\ q.teacher # db.teacher[q.s]) =>
     /\ q.teacher # Nobody
     /\ \A p \in ParentsOf(d, q.s) :
           CenterOf(d, q.s) # NoCenter /\ d.user[p].center = CenterOf(d, q.s)

\* The accounts at the student's center whose address is new on the registration.
NewlyListed(q, d) ==
  {p \in q.mail : /\ <<p, q.s>> \notin db.mail
                   /\ Is(d, p, "Parent")
                   /\ CenterOf(d, q.s) # NoCenter /\ d.user[p].center = CenterOf(d, q.s)}

\* Mutation: a disabled account is linked and stays disabled.
LinkedOnly(q, d) == [d EXCEPT !.link = @ \cup (NewlyListed(q, d) \X {q.s})]

\* linkAccountsByEmail: they are linked, and work again.
LinkedAccounts(q, d) ==
  [d EXCEPT !.link = @ \cup (NewlyListed(q, d) \X {q.s}),
            !.user = [u \in Users |-> IF u \in NewlyListed(q, d)
                                       THEN [d.user[u] EXCEPT !.isActive = TRUE]
                                       ELSE d.user[u]]]

StudentCommits(r) ==
  /\ req[r].op \in {"create", "edit"}
  /\ \E d \in {e \in Saved(req[r]) : ParentsAreAt(req[r], e)} :
       Commit(r, LinkedAccounts(req[r], d))
  /\ Done(r)
  /\ UNCHANGED <<missed, matched>>

\* deleteStudent lists the parents first; they are none when that fails.
DeleteStudent(r, a, s, parents) ==
  /\ SignedIn(a) /\ s \in db.students /\ CanAccess(a, s)
  /\ Begin(r, [op |-> "delete_student", s |-> s, parents |-> parents])

WithoutStudent(s) ==
  [db EXCEPT !.students = @ \ {s}, !.teacher[s] = Nobody,
             !.link = @ \ (Users \X {s}), !.mail = @ \ (Users \X {s}),
             !.deleted = @ \cup {s}]

StudentDeleted(r) ==
  /\ req[r].op = "delete_student" /\ req[r].s \in db.students
  /\ Commit(r, WithoutStudent(req[r].s))
  /\ req' = [req EXCEPT ![r].op = "deactivate"]
  /\ missed' = missed \cup (ParentsOf(db, req[r].s) \ req[r].parents)
  /\ UNCHANGED matched

Childless(parents) ==
  {p \in parents : Is(db, p, "Parent") /\ db.user[p].isActive /\ Kids(db, p) = {}}

\* deactivateParentsWithoutChildren: one statement.
ParentsDeactivated(r) ==
  /\ req[r].op = "deactivate"
  /\ Commit(r, [db EXCEPT !.user = [u \in Users |-> IF u \in Childless(req[r].parents)
                                                   THEN [db.user[u] EXCEPT !.isActive = FALSE]
                                                   ELSE db.user[u]]])
  /\ Done(r)
  /\ UNCHANGED <<missed, matched>>

\* It fails, which is logged, or the server stops before it.
DeactivationFails(r) ==
  /\ req[r].op = "deactivate"
  /\ Done(r)
  /\ missed' = missed \cup req[r].parents
  /\ late' = late \ {r}
  /\ UNCHANGED <<db, used, matched>>

----------------------------------------------------------------------------
Asks(r, a) ==
  \/ \E u \in Users, role \in Roles :
       \/ UpdateUser(r, a, u, role)
       \/ \E kids \in SUBSET Students : RegisterUser(r, a, u, role, kids)
  \/ DeleteMyAccount(r, a)
  \/ \E u \in Users : DeleteUser(r, a, u)
  \/ \E s \in Students, mail \in SUBSET Listed :
       \/ \E t \in TeachersFor(a) : CreateStudent(r, a, s, t, mail)
       \/ \E t \in TeachersFor(a) : IsAdmin(a) /\ UpdateStudent(r, a, s, TRUE, t, mail)
       \/ UpdateStudent(r, a, s, FALSE, Nobody, mail)
  \/ \E s \in Students : \E parents \in {ParentsOf(db, s), {}} : DeleteStudent(r, a, s, parents)

\* A request of somebody signed in arrives.
Arrives(r) ==
  /\ req[r] = Idle /\ Count
  /\ \E a \in Users : Asks(r, a)

Goes(r) ==
  \/ AccountCommits(r)
  \/ StudentCommits(r)
  \/ StudentDeleted(r)
  \/ ParentsDeactivated(r)
  \/ DeactivationFails(r)
  \/ Refuse(r)

Next == \E r \in Requests : Arrives(r) \/ Goes(r)

Spec == Init /\ [][Next]_vars

----------------------------------------------------------------------------
(* Properties *)

\* Linked, and at different centers: the parent sees no more of the center's news,
\* the center's teachers cannot see the account.
Apart(d) ==
  {l \in d.link : /\ NoCenter \notin {d.user[l[1]].center, CenterOf(d, l[2])}
                  /\ Is(d, l[1], "Parent") /\ d.user[l[1]].center # CenterOf(d, l[2])}

\* The requests that end or go on in this step.
Stepping == {r \in Requests : req[r] # Idle /\ req'[r] # req[r]}

\* Nothing anybody saves takes a child and a parent account apart, whichever of the
\* two, or the teacher, is changed (requireLinksInCenter, requireParentsAtCenterOf,
\* resolveStudentsOfMovedTeacher, linking by address at one center).  Left out are a
\* request others overtook, whose checks are old, a change of role of somebody who
\* has students, which is not checked, and the move of a teacher with whom a parent moves
\* who has students from such a change.
FamiliesStayTogether ==
  [][Apart(db') \subseteq Apart(db)
     \/ \E r \in Stepping :
          \/ r \in late
          \/ /\ req[r].op = "update"
             /\ \/ Enrolled(db, req[r].u) # {} /\ {req[r].was.role, req[r].role} # {"Teacher"}
                \/ \E p \in Families(db, req[r].u) : Enrolled(db, p) # {}]_vars

\* A parent's account works exactly while it has a child, whatever order students and
\* accounts are created, linked, moved and deleted in.  It is left working only where
\* the deletion of the last child failed to list it, or to disable it; it stays disabled
\* only where a new address or center gave it the child (linkStudentsByEmail).
AccountsFollowChildren ==
  \A p \in Users : Is(db, p, "Parent") =>
    IF db.user[p].isActive
    THEN \/ Kids(db, p) # {}
         \/ p \in missed
         \/ \E r \in Requests : req[r].op = "deactivate" /\ p \in req[r].parents
    ELSE Kids(db, p) = {} \/ p \in matched

\* Deleting accounts, one's own and others', leaves an Admin who can sign in; the last
\* one goes only by a change of role, or by a request others have overtaken.
LastAdminStays ==
  [][Active(db, "Admin") # {} /\ Active(db, "Admin")' = {} =>
       \E r \in Stepping : r \in late \/ req[r].op = "update"]_vars

=============================================================================
